----------------------------- MODULE PagesProofs ----------------------------
(***************************************************************************)
(* Theorems about the pages of the website, for every set of menus, page   *)
(* sizes, documents, days and scroll positions, and every order of the     *)
(* browser's events, frames, timers and preferences; and, with the         *)
(* readers, the forms and the mails, about the site as a whole.            *)
(***************************************************************************)
EXTENDS MCSite, SiteProofs, NaturalsInduction, WellFoundedInduction

-----------------------------------------------------------------------------
(* The page, its menus and its button.                                     *)

Scroller == [stopped: BOOLEAN]
ScrollButton ==
  [frame: BOOLEAN, asked: BOOLEAN, grown: BOOLEAN, visible: BOOLEAN, ring: Nat \X Nat]

PageTypes ==
  /\ mounted \in BOOLEAN /\ locked \in BOOLEAN /\ moved \in BOOLEAN
  /\ open = {} \/ \E m \in Menu : open = {m}
  /\ toggles \in [Menu -> {None, "open", "closed"}]
  /\ lock \in [locks: {0, 1}, class: BOOLEAN]
  /\ lenis \in Scroller \cup {None}
  /\ media \in [reduced: BOOLEAN, queued: BOOLEAN]
  /\ page \in Page /\ glide \in {"no", "smooth", "native"}
  /\ button \in ScrollButton

\* The count, the class and the scroller say what usePopoverScrollLock's flag says, and
\* the flag what the menu told last; a page that is locked is not scrolled smoothly.
LockInv ==
  /\ lock.class <=> locked
  /\ locked => lock.locks = 1
  /\ ~locked => lock.locks = 0
  /\ lenis # None => (lenis.stopped <=> locked)
  /\ toggles[Mobile] = None => (locked <=> Mobile \in open)
  /\ toggles[Mobile] = "open" => Mobile \in open
  /\ toggles[Mobile] = "closed" => Mobile \notin open
  /\ ~mounted => ~locked
  /\ locked => glide # "smooth"

\* The frame flag is set while a frame is asked for.
FrameInv == mounted => (button.frame <=> button.asked)

PageInv == PageTypes /\ LockInv /\ FrameInv /\ ButtonFollowsPage

\* What usePopoverScrollLock and the scroller do to the lock.
LEMMA LockIs ==
  ASSUME NEW l \in [locks: {0, 1}, class: BOOLEAN]
  PROVE  /\ l.locks = 0 => lockScroll(l) \in [locks: {0, 1}, class: BOOLEAN]
         /\ lockScroll(l).class = TRUE /\ lockScroll(l).locks = l.locks + 1
         /\ unlockScroll(l) \in [locks: {0, 1}, class: BOOLEAN]
         /\ unlockScroll(l).class = FALSE /\ unlockScroll(l).locks = 0
  <1> DEFINE left == IF l.locks > 0 THEN l.locks - 1 ELSE 0
  <1> DEFINE class == l.class /\ left > 0
  <1>1. l.locks \in {0, 1}
    OBVIOUS
  <1>2. left = 0
    BY <1>1
  <1>3. class = FALSE
    BY <1>2
  <1>4. unlockScroll(l) = [locks |-> left, class |-> class]
    BY DEF unlockScroll
  <1> HIDE DEF left, class
  <1>5. unlockScroll(l) = [locks |-> 0, class |-> FALSE]
    BY <1>2, <1>3, <1>4
  <1> QED BY <1>1, <1>5 DEF lockScroll

\* A page is scrolled no further than it scrolls.
LEMMA PageIs ==
  ASSUME NEW p \in Page
  PROVE  /\ p.y \in Position /\ p.height \in Height /\ p.viewport \in Viewport
         /\ p.y \in Nat /\ p.height \in Nat /\ p.viewport \in Nat /\ p.viewport > 0
         /\ ScrollRange(p.height, p.viewport) \in Nat /\ p.y <= ScrollRange(p.height, p.viewport)
  <1>1. /\ p.y \in Position /\ p.height \in Height /\ p.viewport \in Viewport /\ Fits(p)
    BY DEF Page
  <1>2. p.y \in Nat /\ p.height \in Nat /\ p.viewport \in Nat /\ p.viewport > 0
    <2>1. Position \subseteq Nat /\ Height \subseteq Nat /\ Viewport \subseteq Nat \ {0}
      BY PageAssumption
    <2>2. p.y \in Nat /\ p.height \in Nat /\ p.viewport \in Nat \ {0}
      BY <1>1, <2>1
    <2> QED BY <2>2
  <1> QED BY <1>1, <1>2 DEF Fits, ScrollRange

\* A frame's update is of the page; it asks for no frame.
LEMMA UpdateIs ==
  ASSUME NEW p \in Page
  PROVE  /\ update(p) \in ScrollButton /\ ~update(p).frame /\ ~update(p).asked
         /\ update(p).visible = showBackToTop(p) /\ update(p).ring = scrollProgress(p)
  <1>1. showBackToTop(p) \in BOOLEAN
    BY DEF showBackToTop
  <1>2. scrollProgress(p) \in Nat \X Nat
    BY PageIs DEF scrollProgress
  <1> QED BY <1>1, <1>2 DEF update, ScrollButton

\* Where the window may be moved to.
LEMMA PageMoves ==
  ASSUME NEW p \in Page
  PROVE  /\ \A y \in Position : y < p.y => [p EXCEPT !.y = y] \in Page
         /\ \A h \in Height : [p EXCEPT !.y = 0, !.height = h] \in Page
         /\ \A h \in Height : h > p.height => [p EXCEPT !.height = h] \in Page
  <1> USE PageAssumption, PageIs
  <1>0. p \in [y: Position, height: Height, viewport: Viewport]
    BY DEF Page
  <1>1. ASSUME NEW y \in Position, y < p.y
        PROVE  [p EXCEPT !.y = y] \in Page
    <2> DEFINE q == [p EXCEPT !.y = y]
    <2>1. /\ q \in [y: Position, height: Height, viewport: Viewport]
          /\ q.y = y /\ q.height = p.height /\ q.viewport = p.viewport
      BY <1>0
    <2> HIDE DEF q
    <2>2. y \in Nat
      OBVIOUS
    <2>3. Fits(q)
      BY <1>1, <2>1, <2>2 DEF Fits
    <2> QED BY <2>1, <2>3 DEF Page, q
  <1>2. ASSUME NEW h \in Height
        PROVE  [p EXCEPT !.y = 0, !.height = h] \in Page
    <2> DEFINE m == [p EXCEPT !.y = 0]
    <2> DEFINE q == [m EXCEPT !.height = h]
    <2>1. m \in [y: Position, height: Height, viewport: Viewport] /\ m.y = 0 /\ m.viewport = p.viewport
      BY <1>0
    <2>2. q = [p EXCEPT !.y = 0, !.height = h]
      OBVIOUS
    <2> HIDE DEF m
    <2>3. /\ q \in [y: Position, height: Height, viewport: Viewport]
          /\ q.y = 0 /\ q.height = h /\ q.viewport = p.viewport
      BY <2>1
    <2> HIDE DEF q
    <2>4. h \in Nat
      OBVIOUS
    <2>5. Fits(q)
      BY <2>3, <2>4 DEF Fits, ScrollRange
    <2>6. q \in Page
      BY <2>3, <2>5 DEF Page
    <2> QED BY <2>2, <2>6
  <1>3. ASSUME NEW h \in Height, h > p.height
        PROVE  [p EXCEPT !.height = h] \in Page
    <2> DEFINE q == [p EXCEPT !.height = h]
    <2>1. /\ q \in [y: Position, height: Height, viewport: Viewport]
          /\ q.y = p.y /\ q.height = h /\ q.viewport = p.viewport
      BY <1>0
    <2> HIDE DEF q
    <2>2. h \in Nat
      OBVIOUS
    <2>3. Fits(q)
      BY <1>3, <2>1, <2>2 DEF Fits, ScrollRange
    <2> QED BY <2>1, <2>3 DEF Page, q
  <1> QED BY <1>1, <1>2, <1>3

\* The layout starts unlocked, and its button says what the page is.
LEMMA PageStart == PageInit => PageInv
  <1> SUFFICES ASSUME PageInit PROVE PageInv
    OBVIOUS
  <1> USE PageAssumption
  <1>1. PICK reduced \in BOOLEAN :
          media = [reduced |-> reduced, queued |-> FALSE] /\ lenis = sync(reduced, None, [locks |-> 0])
    BY DEF PageInit
  <1>2. lenis \in Scroller \cup {None} /\ (lenis # None => lenis.stopped = FALSE)
    BY <1>1 DEF sync, registerScroller, Scroller
  <1>3. page \in Page /\ button = update(page)
    BY DEF PageInit
  <1>4. button \in ScrollButton /\ ~button.frame /\ ~button.asked
        /\ button.visible = showBackToTop(page) /\ button.ring = scrollProgress(page)
    BY <1>3, UpdateIs
  <1>5. PageTypes
    BY <1>1, <1>2, <1>3, <1>4 DEF PageInit, PageTypes
  <1>6. LockInv
    BY <1>2 DEF PageInit, LockInv
  <1> QED BY <1>4, <1>5, <1>6 DEF PageInv, FrameInv, ButtonFollowsPage

\* The popovers are shown or hidden: what changes is told, what does not was told.
LEMMA ShowStep ==
  ASSUME PageInv, mounted, NEW menus, menus = {} \/ \E m \in Menu : menus = {m}, Show(menus)
  PROVE  PageInv'
  <1> USE PageAssumption
  <1>0. /\ PageTypes /\ LockInv /\ FrameInv /\ ButtonFollowsPage
        /\ open' = menus /\ toggles' = Queue(open, menus)
        /\ mounted' = mounted /\ locked' = locked /\ lock' = lock /\ lenis' = lenis /\ media' = media
        /\ page' = page /\ glide' = glide /\ moved' = moved /\ button' = button
    BY DEF PageInv, Show, scrollVars
  <1>1. toggles' \in [Menu -> {None, "open", "closed"}]
    BY <1>0 DEF Queue, PageTypes
  <1>2. /\ (Mobile \in open) = (Mobile \in menus) => toggles'[Mobile] = toggles[Mobile]
        /\ Mobile \in menus /\ Mobile \notin open => toggles'[Mobile] = "open"
        /\ Mobile \notin menus /\ Mobile \in open => toggles'[Mobile] = "closed"
    BY <1>0 DEF Queue
  <1>3. PageTypes'
    BY <1>0, <1>1 DEF PageTypes
  <1>4. LockInv'
    BY <1>0, <1>2 DEF LockInv
  <1>5. FrameInv' /\ ButtonFollowsPage'
    BY <1>0 DEF FrameInv, ButtonFollowsPage
  <1> QED BY <1>3, <1>4, <1>5 DEF PageInv

\* A menu's button opens the menu, which closes another, or closes it.
LEMMA PopoverTargetStep ==
  ASSUME PageInv, NEW m \in Menu, PopoverTarget(m)
  PROVE  PageInv'
  <1> DEFINE menus == IF m \in open THEN {} ELSE {m}
  <1>1. mounted /\ Show(menus) /\ (menus = {} \/ \E n \in Menu : menus = {n})
    BY DEF PopoverTarget
  <1> HIDE DEF menus
  <1> QED BY <1>1, ShowStep

\* The open menu is dismissed.
LEMMA DismissStep ==
  ASSUME PageInv, Dismiss
  PROVE  PageInv'
  <1> DEFINE menus == {}
  <1>1. mounted /\ Show(menus) /\ menus = {}
    BY DEF Dismiss
  <1> HIDE DEF menus
  <1> QED BY <1>1, ShowStep

\* The toggle event of a menu; the phone's locks or unlocks.
LEMMA ToggleStep ==
  ASSUME PageInv, NEW m \in Menu, Toggle(m)
  PROVE  PageInv'
  <1> USE PageAssumption
  <1>0. /\ PageTypes /\ LockInv /\ FrameInv /\ ButtonFollowsPage
        /\ mounted /\ toggles[m] # None /\ toggles' = [toggles EXCEPT ![m] = None]
        /\ mounted' = mounted /\ open' = open /\ media' = media /\ page' = page /\ moved' = moved
        /\ button' = button
    BY DEF PageInv, Toggle
  <1>1. /\ toggles' \in [Menu -> {None, "open", "closed"}] /\ toggles'[m] = None
        /\ \A n \in Menu : n # m => toggles'[n] = toggles[n]
    BY <1>0 DEF PageTypes
  <1>2. FrameInv' /\ ButtonFollowsPage'
    BY <1>0 DEF FrameInv, ButtonFollowsPage
  <1>3. CASE m # Mobile \/ (m = Mobile /\ ~Locks(toggles[m]) /\ ~Unlocks(toggles[m]))
    <2>1. locked' = locked /\ lock' = lock /\ lenis' = lenis /\ glide' = glide
      BY <1>3 DEF Toggle, onToggle
    <2>2. PageTypes'
      BY <1>0, <1>1, <2>1 DEF PageTypes
    <2>3. toggles[Mobile] \in {None, "open", "closed"}
      BY <1>0 DEF PageTypes
    <2>4. LockInv'
      BY <1>0, <1>1, <1>3, <2>1, <2>3 DEF LockInv, Locks, Unlocks
    <2> QED BY <1>2, <2>2, <2>4 DEF PageInv
  <1>4. CASE m = Mobile /\ Locks(toggles[m])
    <2>1. /\ locked' = TRUE /\ lock' = lockScroll(lock) /\ lenis' = Stopped(lenis, TRUE)
          /\ glide' = GlideWithout /\ ~locked /\ toggles[m] = "open"
      BY <1>4 DEF Toggle, onToggle, Locks, Unlocks, Lock
    <2>2. lock \in [locks: {0, 1}, class: BOOLEAN] /\ lock.locks = 0
      BY <1>0, <2>1 DEF PageTypes, LockInv
    <2>3. lock' \in [locks: {0, 1}, class: BOOLEAN] /\ lock'.class = TRUE /\ lock'.locks = 1
      <3>1. /\ lockScroll(lock) \in [locks: {0, 1}, class: BOOLEAN]
            /\ lockScroll(lock).class = TRUE /\ lockScroll(lock).locks = lock.locks + 1
        BY <2>2, LockIs
      <3> QED BY <2>1, <2>2, <3>1
    <2>4. lenis' \in Scroller \cup {None} /\ (lenis' # None => lenis'.stopped = TRUE)
      BY <2>1 DEF Stopped, Scroller
    <2>5. glide' \in {"no", "smooth", "native"} /\ glide' # "smooth"
      BY <1>0, <2>1 DEF GlideWithout, PageTypes
    <2>6. PageTypes'
      BY <1>0, <1>1, <2>1, <2>3, <2>4, <2>5 DEF PageTypes
    <2>7. LockInv'
      BY <1>0, <1>1, <1>4, <2>1, <2>3, <2>4, <2>5 DEF LockInv
    <2> QED BY <1>2, <2>6, <2>7 DEF PageInv
  <1>5. CASE m = Mobile /\ Unlocks(toggles[m])
    <2>1. /\ locked' = FALSE /\ lock' = unlockScroll(lock) /\ toggles[m] = "closed" /\ locked
          /\ lenis' = IF lock'.locks > 0 THEN lenis ELSE Stopped(lenis, FALSE)
          /\ glide' = glide
      BY <1>5 DEF Toggle, onToggle, Locks, Unlocks, Unlock
    <2>2. lock \in [locks: {0, 1}, class: BOOLEAN]
      BY <1>0 DEF PageTypes
    <2>3. lock' \in [locks: {0, 1}, class: BOOLEAN] /\ lock'.class = FALSE /\ lock'.locks = 0
      BY <2>1, <2>2, LockIs
    <2>4. lenis' \in Scroller \cup {None} /\ (lenis' # None => lenis'.stopped = FALSE)
      BY <2>1, <2>3 DEF Stopped, Scroller
    <2>5. PageTypes'
      BY <1>0, <1>1, <2>1, <2>3, <2>4 DEF PageTypes
    <2>6. LockInv'
      BY <1>0, <1>1, <1>5, <2>1, <2>3, <2>4 DEF LockInv
    <2> QED BY <1>2, <2>5, <2>6 DEF PageInv
  <1> QED BY <1>3, <1>4, <1>5

\* The person's preference for motion changes; the listener is yet to run.
LEMMA PreferStep ==
  ASSUME PageInv, Prefer
  PROVE  PageInv'
  <1>0. /\ PageTypes /\ LockInv /\ FrameInv /\ ButtonFollowsPage
        /\ media' = [reduced |-> ~media.reduced, queued |-> TRUE]
        /\ mounted' = mounted /\ open' = open /\ toggles' = toggles /\ locked' = locked
        /\ lock' = lock /\ lenis' = lenis
        /\ page' = page /\ glide' = glide /\ moved' = moved /\ button' = button
    BY DEF PageInv, Prefer, menuVars, scrollVars
  <1>1. PageTypes'
    BY <1>0 DEF PageTypes
  <1>2. LockInv' /\ FrameInv' /\ ButtonFollowsPage'
    BY <1>0 DEF LockInv, FrameInv, ButtonFollowsPage
  <1> QED BY <1>1, <1>2 DEF PageInv

\* The scroller that useSmoothScroll sets up is stopped while the page is locked.
LEMMA SyncIs ==
  ASSUME NEW reduced, NEW s \in Scroller \cup {None}, NEW l \in [locks: {0, 1}, class: BOOLEAN],
         s # None => (s.stopped <=> l.locks = 1)
  PROVE  /\ sync(reduced, s, l) \in Scroller \cup {None}
         /\ sync(reduced, s, l) # None => (sync(reduced, s, l).stopped <=> l.locks = 1)
  <1>1. l.locks \in {0, 1}
    OBVIOUS
  <1>2. registerScroller(l) \in Scroller /\ (registerScroller(l).stopped <=> l.locks = 1)
    <2> DEFINE stopped == l.locks > 0
    <2>1. stopped \in BOOLEAN /\ (stopped <=> l.locks = 1)
      BY <1>1
    <2>2. registerScroller(l) = [stopped |-> stopped]
      BY DEF registerScroller
    <2> HIDE DEF stopped
    <2> QED BY <2>1, <2>2 DEF Scroller
  <1> QED BY <1>2 DEF sync

\* The listener runs: the smooth scroller is made, stopped if the page is locked, or destroyed.
LEMMA SyncMotionStep ==
  ASSUME PageInv, SyncMotion
  PROVE  PageInv'
  <1> USE PageAssumption
  <1>0. /\ PageTypes /\ LockInv /\ FrameInv /\ ButtonFollowsPage
        /\ media' = [media EXCEPT !.queued = FALSE]
        /\ lenis' = sync(media.reduced, lenis, lock)
        /\ glide' = IF lenis' = None THEN GlideWithout ELSE glide
        /\ mounted' = mounted /\ open' = open /\ toggles' = toggles /\ locked' = locked
        /\ lock' = lock /\ page' = page /\ moved' = moved /\ button' = button
    BY DEF PageInv, SyncMotion, menuVars
  <1>1. lenis' \in Scroller \cup {None} /\ (lenis' # None => (lenis'.stopped <=> lock.locks = 1))
    <2>1. /\ lenis \in Scroller \cup {None} /\ lock \in [locks: {0, 1}, class: BOOLEAN]
          /\ lenis # None => (lenis.stopped <=> lock.locks = 1)
      BY <1>0 DEF PageTypes, LockInv
    <2> DEFINE reduced == media.reduced
    <2> HIDE DEF reduced
    <2>2. lenis' = sync(reduced, lenis, lock)
      BY <1>0 DEF reduced
    <2> QED BY <2>1, <2>2, SyncIs
  <1>2. glide' \in {"no", "smooth", "native"} /\ (glide # "smooth" => glide' # "smooth")
    BY <1>0 DEF GlideWithout, PageTypes
  <1>3. media' \in [reduced: BOOLEAN, queued: BOOLEAN]
    BY <1>0 DEF PageTypes
  <1>4. PageTypes'
    BY <1>0, <1>1, <1>2, <1>3 DEF PageTypes
  <1>5. LockInv'
    BY <1>0, <1>1, <1>2 DEF LockInv
  <1>6. FrameInv' /\ ButtonFollowsPage'
    BY <1>0 DEF FrameInv, ButtonFollowsPage
  <1> QED BY <1>4, <1>5, <1>6 DEF PageInv

\* The window is moved, with its event to come.
LEMMA MoveStep ==
  ASSUME PageInv, NEW p \in Page, Move(p), glide' \in {"no", "smooth", "native"},
         glide' \in {"no", glide}
  PROVE  PageInv'
  <1>0. /\ PageTypes /\ LockInv /\ FrameInv /\ ButtonFollowsPage
        /\ page' = p /\ moved' = TRUE
        /\ mounted' = mounted /\ open' = open /\ toggles' = toggles /\ locked' = locked
        /\ lock' = lock /\ lenis' = lenis /\ media' = media /\ button' = button
    BY DEF PageInv, Move, menuVars
  <1>1. PageTypes' /\ LockInv'
    BY <1>0 DEF PageTypes, LockInv
  <1>2. FrameInv' /\ ButtonFollowsPage'
    BY <1>0 DEF FrameInv, ButtonFollowsPage
  <1> QED BY <1>1, <1>2 DEF PageInv

\* The person scrolls.
LEMMA ScrollStep ==
  ASSUME PageInv, Scroll
  PROVE  PageInv'
  <1>1. PICK y \in Position \ {page.y} : Fits([page EXCEPT !.y = y]) /\ Move([page EXCEPT !.y = y])
    BY DEF Scroll
  <1> DEFINE p == [page EXCEPT !.y = y]
  <1>2. p \in Page
    BY <1>1 DEF PageInv, PageTypes, Page
  <1>3. Move(p) /\ glide' = "no"
    BY <1>1 DEF Scroll
  <1> HIDE DEF p
  <1> QED BY <1>2, <1>3, MoveStep

\* A frame of the scroll to the top.
LEMMA GlideStep ==
  ASSUME PageInv, Glide
  PROVE  PageInv'
  <1>1. PICK y \in Position : y < page.y /\ Move([page EXCEPT !.y = y]) /\ glide' = IF y = 0 THEN "no" ELSE glide
    BY DEF Glide
  <1> DEFINE p == [page EXCEPT !.y = y]
  <1>2. p \in Page
    BY <1>1, PageMoves DEF PageInv, PageTypes
  <1>3. Move(p) /\ glide' \in {"no", glide} /\ glide' \in {"no", "smooth", "native"}
    BY <1>1 DEF PageInv, PageTypes
  <1> HIDE DEF p
  <1> QED BY <1>2, <1>3, MoveStep

\* The window is resized, or the document is.
LEMMA ResizeStep ==
  ASSUME PageInv, Resize
  PROVE  PageInv'
  <1>1. PICK p \in Page : Move(p)
    BY DEF Resize
  <1>2. glide' = glide /\ glide \in {"no", "smooth", "native"}
    BY DEF Resize, PageInv, PageTypes
  <1> QED BY <1>1, <1>2, MoveStep

\* A document of another height says the same of the button, and another share to come.
LEMMA GrownIs ==
  ASSUME NEW b \in ScrollButton
  PROVE  LET g == [b EXCEPT !.grown = TRUE] IN
         /\ g \in ScrollButton /\ g.frame = b.frame /\ g.asked = b.asked
         /\ g.visible = b.visible /\ g.ring = b.ring /\ g.grown = TRUE
  BY DEF ScrollButton

\* The document changes with no scroll event: the button is yet to say so.
LEMMA GrownStep ==
  ASSUME PageInv, NEW p \in Page, page' = p, p.viewport = page.viewport,
         p.y = page.y \/ (mounted /\ moved'),
         moved' \in BOOLEAN, moved => moved', button' = [button EXCEPT !.grown = TRUE],
         glide' \in {"no", glide}, mounted' = mounted, open' = open, toggles' = toggles, locked' = locked,
         lock' = lock, lenis' = lenis, media' = media
  PROVE  PageInv'
  <1> DEFINE g == [button EXCEPT !.grown = TRUE]
  <1>0. PageTypes /\ LockInv /\ FrameInv /\ ButtonFollowsPage
    BY DEF PageInv
  <1>1. /\ g \in ScrollButton /\ g.frame = button.frame /\ g.asked = button.asked
        /\ g.visible = button.visible /\ g.ring = button.ring /\ g.grown = TRUE /\ button' = g
    BY <1>0, GrownIs DEF PageTypes
  <1> HIDE DEF g
  <1>2. PageTypes' /\ LockInv'
    <2>1. PageTypes'
      BY <1>0, <1>1 DEF PageTypes
    <2>2. LockInv'
      BY <1>0, <1>1 DEF LockInv
    <2> QED BY <2>1, <2>2
  <1>3. FrameInv'
    BY <1>0, <1>1 DEF FrameInv
  <1>4. ButtonFollowsPage'
    <2> SUFFICES ASSUME mounted, ~moved', ~g.asked
                 PROVE  g.visible = showBackToTop(p)
      BY <1>1 DEF ButtonFollowsPage
    <2>1. ~moved /\ p.y = page.y /\ button.visible = showBackToTop(page)
      BY <1>0, <1>1 DEF ButtonFollowsPage
    <2> QED BY <1>1, <2>1 DEF showBackToTop
  <1> QED BY <1>2, <1>3, <1>4 DEF PageInv

\* Another document is shown, from its top.
LEMMA NavigateStep ==
  ASSUME PageInv, Navigate
  PROVE  PageInv'
  <1>1. PICK h \in Height :
          /\ page' = [page EXCEPT !.y = 0, !.height = h]
          /\ moved' = (moved \/ page.y > 0)
    BY DEF Navigate
  <1> DEFINE m == [page EXCEPT !.y = 0]
  <1> DEFINE p == [m EXCEPT !.height = h]
  <1>0. page \in Page /\ moved \in BOOLEAN /\ page \in [y: Position, height: Height, viewport: Viewport]
    BY DEF PageInv, PageTypes, Page
  <1>2. p = [page EXCEPT !.y = 0, !.height = h]
    OBVIOUS
  <1>3. p \in Page /\ page' = p
    BY <1>0, <1>1, <1>2, PageMoves
  <1>4. m \in [y: Nat, height: Height, viewport: Viewport] /\ m.y = 0 /\ m.viewport = page.viewport
    BY <1>0
  <1> HIDE DEF m
  <1>5. p.y = 0 /\ p.viewport = page.viewport
    BY <1>4
  <1> HIDE DEF p
  <1>6. p.y = page.y \/ (mounted /\ moved')
    <2>1. page.y = 0 \/ page.y > 0
      BY <1>0, PageIs
    <2> QED BY <1>1, <1>5, <2>1 DEF Navigate
  <1>7. moved' \in BOOLEAN /\ (moved => moved')
    BY <1>1
  <1>8. /\ button' = [button EXCEPT !.grown = TRUE] /\ glide' \in {"no", glide}
        /\ mounted' = mounted /\ open' = open /\ toggles' = toggles /\ locked' = locked
        /\ lock' = lock /\ lenis' = lenis /\ media' = media
    BY DEF Navigate, menuVars
  <1> QED BY <1>3, <1>5, <1>6, <1>7, <1>8, GrownStep

\* The document grows.
LEMMA GrowStep ==
  ASSUME PageInv, Grow
  PROVE  PageInv'
  <1>1. PICK h \in Height : h > page.height /\ page' = [page EXCEPT !.height = h]
    BY DEF Grow
  <1> DEFINE p == [page EXCEPT !.height = h]
  <1>0. page \in Page /\ moved \in BOOLEAN /\ page \in [y: Position, height: Height, viewport: Viewport]
    BY DEF PageInv, PageTypes, Page
  <1>2. p \in Page /\ page' = p
    BY <1>0, <1>1, PageMoves
  <1>3. p.y = page.y /\ p.viewport = page.viewport
    BY <1>0
  <1> HIDE DEF p
  <1>4. /\ button' = [button EXCEPT !.grown = TRUE] /\ glide' \in {"no", glide} /\ moved' = moved
        /\ mounted' = mounted /\ open' = open /\ toggles' = toggles /\ locked' = locked
        /\ lock' = lock /\ lenis' = lenis /\ media' = media
    BY DEF Grow, menuVars
  <1> QED BY <1>0, <1>2, <1>3, <1>4, GrownStep

\* The button is clicked: the page scrolls to its top, unless it is locked behind a menu.
LEMMA toTopStep ==
  ASSUME PageInv, toTop
  PROVE  PageInv'
  <1>0. /\ PageTypes /\ LockInv /\ FrameInv /\ ButtonFollowsPage /\ glide' = scrollToY
        /\ mounted' = mounted /\ open' = open /\ toggles' = toggles /\ locked' = locked
        /\ lock' = lock /\ lenis' = lenis /\ media' = media
        /\ page' = page /\ moved' = moved /\ button' = button
    BY DEF PageInv, toTop, menuVars
  <1>1. /\ glide \in {"no", "smooth", "native"} /\ (locked => glide # "smooth")
        /\ lenis # None => (lenis.stopped <=> locked)
    BY <1>0 DEF PageTypes, LockInv
  <1>2. glide' \in {"no", "smooth", "native"} /\ (locked => glide' # "smooth")
    BY <1>0, <1>1 DEF scrollToY
  <1>3. PageTypes' /\ LockInv'
    BY <1>0, <1>2 DEF PageTypes, LockInv
  <1>4. FrameInv' /\ ButtonFollowsPage'
    BY <1>0 DEF FrameInv, ButtonFollowsPage
  <1> QED BY <1>3, <1>4 DEF PageInv

\* A scroll or resize event asks for a frame, once.
LEMMA scheduleStep ==
  ASSUME PageInv, schedule
  PROVE  PageInv'
  <1>0. /\ PageTypes /\ LockInv /\ FrameInv /\ ButtonFollowsPage
        /\ moved' = FALSE /\ mounted
        /\ button' = IF button.frame THEN button ELSE [button EXCEPT !.frame = TRUE, !.asked = TRUE]
        /\ mounted' = mounted /\ open' = open /\ toggles' = toggles /\ locked' = locked
        /\ lock' = lock /\ lenis' = lenis /\ media' = media /\ page' = page /\ glide' = glide
    BY DEF PageInv, schedule, menuVars
  <1>1. button' \in ScrollButton /\ button'.frame /\ button'.asked
    <2>1. button \in ScrollButton /\ (button.frame <=> button.asked)
      BY <1>0 DEF PageTypes, FrameInv
    <2>2. CASE button.frame
      BY <1>0, <2>1, <2>2
    <2>3. CASE ~button.frame
      <3> DEFINE m == [button EXCEPT !.frame = TRUE]
      <3> DEFINE b == [m EXCEPT !.asked = TRUE]
      <3>1. m \in ScrollButton /\ m.frame
        BY <2>1 DEF ScrollButton
      <3>2. button' = b
        BY <1>0, <2>3
      <3> HIDE DEF m
      <3>3. b \in ScrollButton /\ b.frame /\ b.asked
        BY <3>1 DEF ScrollButton
      <3> HIDE DEF b
      <3> QED BY <3>2, <3>3
    <2> QED BY <2>2, <2>3
  <1>2. PageTypes' /\ LockInv'
    <2>1. PageTypes'
      BY <1>0, <1>1 DEF PageTypes
    <2>2. LockInv'
      BY <1>0, <1>1 DEF LockInv
    <2> QED BY <2>1, <2>2
  <1>3. FrameInv' /\ ButtonFollowsPage'
    BY <1>0, <1>1 DEF FrameInv, ButtonFollowsPage
  <1> QED BY <1>2, <1>3 DEF PageInv

\* The frame runs: the button says what the page is.
LEMMA FrameStep ==
  ASSUME PageInv, Frame
  PROVE  PageInv'
  <1>0. /\ PageTypes /\ LockInv /\ button' = update(page)
        /\ mounted' = mounted /\ open' = open /\ toggles' = toggles /\ locked' = locked
        /\ lock' = lock /\ lenis' = lenis /\ media' = media
        /\ page' = page /\ glide' = glide /\ moved' = moved
    BY DEF PageInv, Frame, menuVars
  <1>1. /\ button' \in ScrollButton /\ ~button'.frame /\ ~button'.asked
        /\ button'.visible = showBackToTop(page) /\ button'.ring = scrollProgress(page)
    BY <1>0, UpdateIs DEF PageTypes
  <1>2. PageTypes' /\ LockInv'
    <2>1. PageTypes'
      BY <1>0, <1>1 DEF PageTypes
    <2>2. LockInv'
      BY <1>0, <1>1 DEF LockInv
    <2> QED BY <2>1, <2>2
  <1>3. FrameInv' /\ ButtonFollowsPage'
    BY <1>0, <1>1 DEF FrameInv, ButtonFollowsPage
  <1> QED BY <1>2, <1>3 DEF PageInv

\* The layout goes: its lock is released with it.
LEMMA UnmountStep ==
  ASSUME PageInv, Unmount
  PROVE  PageInv'
  <1> USE PageAssumption
  <1>0. /\ PageTypes /\ LockInv
        /\ mounted' = FALSE /\ open' = {} /\ toggles' = [m \in Menu |-> None]
        /\ lock' = Release(lock) /\ locked' = FALSE /\ lenis' = None /\ glide' = GlideWithout
        /\ button' = [button EXCEPT !.frame = FALSE, !.asked = FALSE]
        /\ media' = [media EXCEPT !.queued = FALSE] /\ moved' = FALSE /\ page' = page
    BY DEF PageInv, Unmount
  <1>1. button' \in ScrollButton
    <2> DEFINE m == [button EXCEPT !.frame = FALSE]
    <2> DEFINE b == [m EXCEPT !.asked = FALSE]
    <2>1. m \in ScrollButton
      BY <1>0 DEF ScrollButton, PageTypes
    <2>2. button' = b
      BY <1>0
    <2> HIDE DEF m
    <2>3. b \in ScrollButton
      BY <2>1 DEF ScrollButton
    <2> QED BY <2>2, <2>3
  <1>2. lock \in [locks: {0, 1}, class: BOOLEAN]
    BY <1>0 DEF PageTypes
  <1>3. lock' \in [locks: {0, 1}, class: BOOLEAN] /\ (lock'.class <=> FALSE) /\ lock'.locks = 0
    <2>1. CASE locked
      BY <1>0, <1>2, <2>1, LockIs DEF Release
    <2>2. CASE ~locked
      BY <1>0, <1>2, <2>2 DEF Release, LockInv
    <2> QED BY <2>1, <2>2
  <1>4. media' \in [reduced: BOOLEAN, queued: BOOLEAN]
    BY <1>0 DEF PageTypes
  <1>5. glide' \in {"no", "smooth", "native"}
    BY <1>0 DEF PageTypes, GlideWithout
  <1>6. toggles' \in [Menu -> {None, "open", "closed"}] /\ toggles'[Mobile] = None
    BY <1>0
  <1>7. PageTypes'
    BY <1>0, <1>1, <1>3, <1>4, <1>5, <1>6 DEF PageTypes
  <1>8. LockInv'
    BY <1>0, <1>3, <1>6 DEF LockInv
  <1>9. FrameInv' /\ ButtonFollowsPage'
    BY <1>0 DEF FrameInv, ButtonFollowsPage
  <1> QED BY <1>7, <1>8, <1>9 DEF PageInv

\* The layout comes, to a page that nothing locks.
LEMMA MountStep ==
  ASSUME PageInv, Mount
  PROVE  PageInv'
  <1> USE PageAssumption
  <1>0. /\ PageTypes /\ LockInv /\ ~mounted /\ mounted' = TRUE
        /\ lenis' = sync(media.reduced, None, lock) /\ button' = update(page)
        /\ media' = [media EXCEPT !.queued = FALSE] /\ moved' = FALSE
        /\ open' = open /\ toggles' = toggles /\ locked' = locked /\ lock' = lock
        /\ page' = page /\ glide' = glide
    BY DEF PageInv, Mount
  <1>1. lenis' \in Scroller \cup {None} /\ (lenis' # None => (lenis'.stopped <=> lock.locks = 1))
    <2> DEFINE reduced == media.reduced
    <2> HIDE DEF reduced
    <2> DEFINE s == None
    <2>1. /\ s \in Scroller \cup {None} /\ lock \in [locks: {0, 1}, class: BOOLEAN]
          /\ s # None => (s.stopped <=> lock.locks = 1)
      BY <1>0 DEF PageTypes
    <2>2. lenis' = sync(reduced, s, lock)
      BY <1>0 DEF reduced
    <2> HIDE DEF s
    <2> QED BY <2>1, <2>2, SyncIs
  <1>2. media' \in [reduced: BOOLEAN, queued: BOOLEAN]
    BY <1>0 DEF PageTypes
  <1>3. /\ button' \in ScrollButton /\ ~button'.frame /\ ~button'.asked
        /\ button'.visible = showBackToTop(page) /\ button'.ring = scrollProgress(page)
    BY <1>0, UpdateIs DEF PageTypes
  <1>4. PageTypes'
    BY <1>0, <1>1, <1>2, <1>3 DEF PageTypes
  <1>5. LockInv'
    BY <1>0, <1>1 DEF LockInv
  <1>6. FrameInv' /\ ButtonFollowsPage'
    BY <1>0, <1>3 DEF FrameInv, ButtonFollowsPage
  <1> QED BY <1>4, <1>5, <1>6 DEF PageInv

\* Every step of the layout preserves the invariant.
LEMMA PageInvStep == PageInv /\ [PageNext]_pageVars => PageInv'
  <1> SUFFICES ASSUME PageInv, [PageNext]_pageVars PROVE PageInv'
    OBVIOUS
  <1>1. CASE UNCHANGED pageVars
    BY <1>1 DEF pageVars, PageInv, PageTypes, LockInv, FrameInv, ButtonFollowsPage
  <1>2. ASSUME NEW m \in Menu, PopoverTarget(m) \/ Toggle(m) PROVE PageInv'
    BY <1>2, PopoverTargetStep, ToggleStep
  <1>3. CASE Dismiss \/ Prefer \/ SyncMotion
    BY <1>3, DismissStep, PreferStep, SyncMotionStep
  <1>4. CASE Scroll \/ Glide \/ Resize \/ Navigate \/ Grow
    BY <1>4, ScrollStep, GlideStep, ResizeStep, NavigateStep, GrowStep
  <1>5. CASE toTop \/ schedule \/ Frame
    BY <1>5, toTopStep, scheduleStep, FrameStep
  <1>6. CASE Unmount \/ Mount
    BY <1>6, UnmountStep, MountStep
  <1> QED BY <1>1, <1>2, <1>3, <1>4, <1>5, <1>6 DEF PageNext

\* What the invariant says of the layout.
LEMMA PageGives == PageInv => PageTypeOK /\ LockFollowsMenu /\ ButtonFollowsPage
  <1> SUFFICES ASSUME PageInv PROVE PageTypeOK /\ LockFollowsMenu /\ ButtonFollowsPage
    OBVIOUS
  <1>0. PageTypes /\ LockInv /\ FrameInv /\ ButtonFollowsPage
    BY DEF PageInv
  <1>1. open \subseteq Menu /\ Cardinality(open) <= 1
    <2>1. CASE open = {}
      BY <2>1, FS_EmptySet
    <2>2. CASE \E m \in Menu : open = {m}
      <3>1. PICK m \in Menu : open = {m}
        BY <2>2
      <3>2. Cardinality({m}) = 1
        BY FS_Singleton
      <3> QED BY <3>1, <3>2
    <2> QED BY <1>0, <2>1, <2>2 DEF PageTypes
  <1>2. lock \in [locks: 0 .. 1, class: BOOLEAN]
    <2>1. 0 .. 1 = {0, 1}
      OBVIOUS
    <2> QED BY <1>0, <2>1 DEF PageTypes
  <1>3. button.frame \in BOOLEAN /\ button.visible \in BOOLEAN
    BY <1>0 DEF PageTypes, ScrollButton
  <1>4. PageTypeOK
    BY <1>0, <1>1, <1>2, <1>3 DEF PageTypeOK, PageTypes, Scroller
  <1>5. LockFollowsMenu
    <2>1. lock.class \in BOOLEAN /\ (Mobile \in open) \in BOOLEAN
      BY <1>0 DEF PageTypes
    <2>2. toggles[Mobile] = None => (lock.class <=> Mobile \in open)
      BY <1>0 DEF LockInv
    <2>3. lenis # None /\ lenis.stopped => lock.class
      BY <1>0 DEF LockInv
    <2> QED BY <2>1, <2>2, <2>3 DEF LockFollowsMenu
  <1> QED BY <1>0, <1>4, <1>5

\* A step of the layout that keeps the page locked moves it only as LockedPageStays says.
LEMMA PageKept ==
  PageInv /\ [PageNext]_pageVars =>
    (lock.class /\ lock'.class /\ page'.y # page.y =>
       glide = "native" \/ page'.viewport # page.viewport \/ page'.y = 0)
  <1> SUFFICES ASSUME PageInv, [PageNext]_pageVars, lock.class, page'.y # page.y
               PROVE  glide = "native" \/ page'.viewport # page.viewport \/ page'.y = 0
    OBVIOUS
  <1>0. PageTypes /\ LockInv
    BY DEF PageInv
  <1>1. /\ locked /\ (lenis # None => lenis.stopped) /\ glide # "smooth"
        /\ glide \in {"no", "smooth", "native"}
        /\ page \in [y: Position, height: Height, viewport: Viewport]
    BY <1>0 DEF LockInv, PageTypes, Page
  <1>2. page' # page
    OBVIOUS
  <1>3. CASE Scroll
    BY <1>1, <1>3 DEF Scroll, Scrollable
  <1>4. CASE Glide
    BY <1>1, <1>4 DEF Glide
  <1>5. CASE Resize
    BY <1>5 DEF Resize, Move
  <1>6. CASE Navigate
    <2>1. PICK h \in Height : page' = [page EXCEPT !.y = 0, !.height = h]
      BY <1>6 DEF Navigate
    <2> DEFINE m == [page EXCEPT !.y = 0]
    <2> DEFINE p == [m EXCEPT !.height = h]
    <2>2. page' = p
      BY <2>1
    <2>3. m \in [y: {0}, height: Height, viewport: Viewport] /\ m.y = 0
      BY <1>1
    <2> HIDE DEF m
    <2>4. p.y = 0
      BY <2>3
    <2> QED BY <2>2, <2>4
  <1>7. CASE Grow
    <2>1. PICK h \in Height : page' = [page EXCEPT !.height = h]
      BY <1>7 DEF Grow
    <2>2. page'.y = page.y
      BY <1>1, <2>1
    <2> QED BY <2>2
  <1>8. CASE \E m \in Menu : PopoverTarget(m) \/ Toggle(m)
    BY <1>2, <1>8 DEF PopoverTarget, Toggle, Show, scrollVars
  <1>9. CASE Dismiss \/ Prefer \/ SyncMotion \/ toTop \/ schedule \/ Frame \/ Unmount \/ Mount
    BY <1>2, <1>9 DEF Dismiss, Prefer, SyncMotion, toTop, schedule, Frame, Unmount, Mount, Show, scrollVars
  <1>10. CASE UNCHANGED pageVars
    BY <1>2, <1>10 DEF pageVars
  <1> QED BY <1>3, <1>4, <1>5, <1>6, <1>7, <1>8, <1>9, <1>10 DEF PageNext
-----------------------------------------------------------------------------
(* What is hidden until it is seen.                                        *)

\* A set of numbers has a least one.
LEMMA LeastNat ==
  ASSUME NEW T, T \subseteq Nat, T # {}
  PROVE  \E x \in T : \A y \in T : x <= y
  <1>1. PICK x \in T : \A y \in T : ~ (<<y, x>> \in OpToRel(<, Nat))
    BY WFMin, NatLessThanWellFounded
  <1>2. \A y \in T : ~ (y < x)
    BY <1>1 DEF OpToRel
  <1> QED BY <1>2

\* Induction, over a set of numbers.
LEMMA SetInduction ==
  ASSUME NEW T, 0 \in T, \A n \in Nat : n \in T => n + 1 \in T
  PROVE  Nat \subseteq T
  <1> SUFFICES ASSUME Nat \ T # {} PROVE FALSE
    OBVIOUS
  <1>1. PICK x \in Nat \ T : \A y \in Nat \ T : x <= y
    BY LeastNat
  <1>2. x # 0 /\ x - 1 \in Nat /\ x - 1 \in T
    BY <1>1
  <1> QED BY <1>1, <1>2

(* The elements of a page, and what autoMark claims.                       *)

\* Every element comes after its parent.
IsTree(d) == d.parent \in [Node -> 0 .. Nodes - 1] /\ \A n \in Node : d.parent[n] < n

\* f collects the elements above each of the first k.
UpTo(f, d, k) == f = [m \in 0 .. k |-> IF m = 0 THEN {} ELSE {m} \cup f[d.parent[m]]]

\* The elements above can be collected one by one.
LEMMA UpExists ==
  ASSUME NEW d, IsTree(d)
  PROVE  \E f : UpTo(f, d, Nodes)
  <1> DEFINE T == {k \in Nat : k <= Nodes => \E f : UpTo(f, d, k)}
  <1>0. Nodes \in Nat /\ Nodes > 0
    BY RevealAssumption
  <1>1. 0 \in T
    <2> DEFINE f == [m \in 0 .. 0 |-> {}]
               v == [m \in 0 .. 0 |-> IF m = 0 THEN {} ELSE {m} \cup f[d.parent[m]]]
    <2>1. f = v
      OBVIOUS
    <2>2. UpTo(f, d, 0)
      <3> HIDE DEF f
      <3> QED BY <2>1 DEF UpTo
    <2> HIDE DEF f
    <2> QED BY <2>2
  <1>2. ASSUME NEW k \in Nat, k \in T, k + 1 <= Nodes
        PROVE  \E g : UpTo(g, d, k + 1)
    <2>1. PICK f : UpTo(f, d, k)
      BY <1>0, <1>2
    <2> DEFINE g == [m \in 0 .. (k + 1) |-> IF m = 0 THEN {} ELSE {m} \cup f[d.parent[m]]]
               v == [m \in 0 .. (k + 1) |-> IF m = 0 THEN {} ELSE {m} \cup g[d.parent[m]]]
    <2>2. \A m \in 0 .. k : f[m] = IF m = 0 THEN {} ELSE {m} \cup f[d.parent[m]]
      BY <2>1 DEF UpTo
    <2>3. \A m \in 0 .. k : g[m] = f[m]
      <3>1. \A m \in 0 .. (k + 1) : g[m] = IF m = 0 THEN {} ELSE {m} \cup f[d.parent[m]]
        OBVIOUS
      <3>2. \A m \in 0 .. k : m \in 0 .. (k + 1)
        OBVIOUS
      <3> HIDE DEF g
      <3> QED BY <2>2, <3>1, <3>2
    <2>4. \A m \in 0 .. (k + 1) : m # 0 => d.parent[m] \in 0 .. k
      <3> SUFFICES ASSUME NEW m \in 0 .. (k + 1), m # 0 PROVE d.parent[m] \in 0 .. k
        OBVIOUS
      <3>1. m \in Node
        BY <1>0, <1>2 DEF Node
      <3>2. d.parent[m] \in 0 .. Nodes - 1 /\ d.parent[m] < m
        BY <3>1 DEF IsTree
      <3> QED BY <1>0, <3>2
    <2>5. \A m \in 0 .. (k + 1) : g[m] = IF m = 0 THEN {} ELSE {m} \cup f[d.parent[m]]
      OBVIOUS
    <2>6. g = [m \in 0 .. (k + 1) |-> g[m]] /\ v = [m \in 0 .. (k + 1) |-> v[m]]
      OBVIOUS
    <2>7. \A m \in 0 .. (k + 1) : v[m] = g[m]
      <3> HIDE DEF g
      <3> QED BY <2>3, <2>4, <2>5
    <2>8. g = v
      <3> HIDE DEF g, v
      <3> QED BY <2>6, <2>7
    <2>9. UpTo(g, d, k + 1)
      <3> HIDE DEF g
      <3> QED BY <2>8 DEF UpTo
    <2> HIDE DEF g
    <2> QED BY <2>9
  <1>3. Nat \subseteq T
    <2>1. \A k \in Nat : k \in T => k + 1 \in T
      BY <1>2
    <2> HIDE DEF T
    <2> QED BY <1>1, <2>1, SetInduction
  <1> QED BY <1>0, <1>3

\* Above an element is the element, and what is above its parent.
LEMMA UpIs ==
  ASSUME NEW d, IsTree(d)
  PROVE  Up(d, 0) = {} /\ \A n \in Node : Up(d, n) = {n} \cup Up(d, d.parent[n])
  <1> DEFINE up == CHOOSE f : UpTo(f, d, Nodes)
  <1>0. Nodes \in Nat /\ Nodes > 0
    BY RevealAssumption
  <1>1. UpTo(up, d, Nodes)
    BY UpExists
  <1>2. Up(d, 0) = up[0] /\ \A n \in Node : Up(d, n) = up[n] /\ Up(d, d.parent[n]) = up[d.parent[n]]
    BY DEF Up, UpTo
  <1> HIDE DEF up
  <1>3. \A m \in 0 .. Nodes : up[m] = IF m = 0 THEN {} ELSE {m} \cup up[d.parent[m]]
    BY <1>1 DEF UpTo
  <1>4. 0 \in 0 .. Nodes /\ \A n \in Node : n \in 0 .. Nodes /\ n # 0
    BY <1>0 DEF Node
  <1> QED BY <1>2, <1>3, <1>4

\* Above an element are the element and some before it, and what is above those.
LEMMA UpIsPath ==
  ASSUME NEW d, IsTree(d), NEW n \in Node
  PROVE  n \in Up(d, n) /\ Up(d, n) \subseteq 1 .. n /\ \A m \in Up(d, n) : Up(d, m) \subseteq Up(d, n)
  <1> DEFINE Path(m) == /\ m \in Up(d, m) /\ Up(d, m) \subseteq 1 .. m
                        /\ \A o \in Up(d, m) : Up(d, o) \subseteq Up(d, m)
             T == {k \in Nat : \A m \in Node : m <= k => Path(m)}
  <1>0. Nodes \in Nat /\ Nodes > 0
    BY RevealAssumption
  <1>1. 0 \in T
    BY DEF Node
  <1>2. ASSUME NEW k \in Nat, k \in T, k + 1 \in Node
        PROVE  Path(k + 1)
    <2> DEFINE p == d.parent[k + 1]
               m == k + 1
    <2>1. Up(d, m) = {m} \cup Up(d, p)
      BY <1>2, UpIs
    <2>2. p \in 0 .. Nodes - 1 /\ p < m /\ p \in Nat
      BY <1>2, <1>0 DEF IsTree
    <2>3. CASE p = 0
      <3>1. Up(d, m) = {m}
        BY <2>1, <2>3, UpIs
      <3> QED BY <3>1
    <2>4. CASE p # 0
      <3>1. p \in Node /\ p <= k
        BY <1>0, <2>2, <2>4 DEF Node
      <3>2. Path(p)
        BY <1>2, <3>1
      <3> HIDE DEF p
      <3>3. Up(d, m) \subseteq 1 .. m
        BY <2>1, <2>2, <3>2
      <3> QED BY <2>1, <3>2, <3>3
    <2> QED BY <2>3, <2>4
  <1>3. \A k \in Nat : k \in T => k + 1 \in T
    <2> SUFFICES ASSUME NEW k \in Nat, k \in T, NEW m \in Node, m <= k + 1 PROVE Path(m)
      OBVIOUS
    <2>1. m \in Nat
      BY DEF Node
    <2>2. CASE m <= k
      BY <2>2
    <2>3. CASE m = k + 1
      BY <1>2, <2>3
    <2> HIDE DEF Path, T
    <2> QED BY <2>1, <2>2, <2>3
  <1>4. Nat \subseteq T
    <2> HIDE DEF T
    <2> QED BY <1>1, <1>3, SetInduction
  <1>5. n \in Nat /\ n <= n
    BY DEF Node
  <1> HIDE DEF Path
  <1>6. Path(n)
    BY <1>4, <1>5
  <1> QED BY <1>6 DEF Path

\* A document is a tree of elements of some kind.
LEMMA DocumentIs ==
  ASSUME NEW d \in Documents
  PROVE  IsTree(d) /\ d.kind \in [Node -> ElementKind]
  <1>1. d \in [parent: {p \in [Node -> 0 .. Nodes - 1] : \A n \in Node : p[n] < n},
               kind: [Node -> ElementKind]]
    BY DEF Documents
  <1>2. /\ d.parent \in {p \in [Node -> 0 .. Nodes - 1] : \A n \in Node : p[n] < n}
        /\ d.kind \in [Node -> ElementKind]
    BY <1>1
  <1> QED BY <1>2 DEF IsTree

\* f collects what is claimed of the first k elements.
ClaimsTo(f, candidates, k) ==
  f = [n \in 0 .. k |->
         IF n = 0 THEN {}
         ELSE f[n - 1] \cup {m \in {n} \cap candidates : isFree(m, f[n - 1])}]

\* The claims can be made one by one.
LEMMA ClaimsExist ==
  ASSUME NEW C
  PROVE  \A k \in Nat : \E f : ClaimsTo(f, C, k)
  <1> DEFINE T == {k \in Nat : \E f : ClaimsTo(f, C, k)}
             More(S, n) == S \cup {m \in {n} \cap C : isFree(m, S)}
  <1>1. 0 \in T
    <2> DEFINE f == [n \in 0 .. 0 |-> {}]
               v == [n \in 0 .. 0 |-> IF n = 0 THEN {} ELSE More(f[n - 1], n)]
    <2>1. f = v
      OBVIOUS
    <2>2. ClaimsTo(f, C, 0)
      <3> HIDE DEF f
      <3> QED BY <2>1 DEF ClaimsTo
    <2> HIDE DEF f
    <2> QED BY <2>2
  <1>2. ASSUME NEW k \in Nat, k \in T PROVE k + 1 \in T
    <2>1. PICK f : ClaimsTo(f, C, k)
      BY <1>2
    <2> DEFINE g == [n \in 0 .. (k + 1) |-> IF n = 0 THEN {} ELSE More(f[n - 1], n)]
               v == [n \in 0 .. (k + 1) |-> IF n = 0 THEN {} ELSE More(g[n - 1], n)]
    <2>2. f = [n \in 0 .. k |-> IF n = 0 THEN {} ELSE More(f[n - 1], n)]
      BY <2>1 DEF ClaimsTo
    <2> HIDE DEF More
    <2>3. \A n \in 0 .. k : f[n] = IF n = 0 THEN {} ELSE More(f[n - 1], n)
      BY <2>2
    <2>4. \A n \in 0 .. (k + 1) : g[n] = IF n = 0 THEN {} ELSE More(f[n - 1], n)
      OBVIOUS
    <2>5. \A n \in 0 .. k : n \in 0 .. (k + 1)
      OBVIOUS
    <2>6. \A n \in 0 .. (k + 1) : n # 0 => n - 1 \in 0 .. k
      OBVIOUS
    <2>7. g = [n \in 0 .. (k + 1) |-> g[n]] /\ v = [n \in 0 .. (k + 1) |-> v[n]]
      OBVIOUS
    <2>8. \A n \in 0 .. k : g[n] = f[n]
      <3> HIDE DEF g
      <3> QED BY <2>3, <2>4, <2>5
    <2>9. \A n \in 0 .. (k + 1) : v[n] = g[n]
      <3> HIDE DEF g
      <3> QED BY <2>4, <2>6, <2>8
    <2>10. g = v
      <3> HIDE DEF g, v
      <3> QED BY <2>7, <2>9
    <2>11. ClaimsTo(g, C, k + 1)
      <3> HIDE DEF g
      <3> QED BY <2>10 DEF ClaimsTo, More
    <2> HIDE DEF g
    <2> QED BY <2>11
  <1>3. Nat \subseteq T
    <2> HIDE DEF T
    <2> QED BY <1>1, <1>2, SetInduction
  <1> QED BY <1>3

\* No mark is above or below an element.
MarkFree(n) == \A m \in Above(n) \cup Below(n) : doc.kind[m] \notin Marked

\* What is claimed are the candidates no mark moves with nothing claimed above them.
LEMMA ClaimedIs ==
  ASSUME IsTree(doc), NEW C \in SUBSET Node
  PROVE  /\ Claimed(C) \subseteq C
         /\ \A n \in C : n \in Claimed(C) <=> MarkFree(n) /\ Above(n) \cap Claimed(C) \subseteq {n}
  <1> DEFINE c == CHOOSE f : ClaimsTo(f, C, Nodes)
             T == {k \in Nat : k <= Nodes => /\ c[k] \subseteq C \cap (1 .. k)
                                             /\ \A j \in 0 .. k : c[k] \cap (1 .. j) = c[j]}
  <1>0. Nodes \in Nat /\ Nodes > 0
    BY RevealAssumption
  <1>1. ClaimsTo(c, C, Nodes)
    BY <1>0, ClaimsExist
  <1>2. Claimed(C) = c[Nodes]
    BY DEF Claimed, ClaimsTo
  <1> HIDE DEF c
  <1>3. \A n \in 0 .. Nodes :
          c[n] = IF n = 0 THEN {} ELSE c[n - 1] \cup {m \in {n} \cap C : isFree(m, c[n - 1])}
    BY <1>1 DEF ClaimsTo
  <1>4. c[0] = {} /\ \A n \in Node : c[n] = c[n - 1] \cup {m \in {n} \cap C : isFree(m, c[n - 1])}
    <2>1. 0 \in 0 .. Nodes /\ \A n \in Node : n \in 0 .. Nodes /\ n # 0
      BY <1>0 DEF Node
    <2> QED BY <1>3, <2>1
  <1>5. 0 \in T
    <2>1. \A j \in 0 .. 0 : j = 0
      OBVIOUS
    <2> QED BY <1>4, <2>1
  <1>6. ASSUME NEW k \in Nat, k \in T PROVE k + 1 \in T
    <2> SUFFICES ASSUME k + 1 <= Nodes
                 PROVE  /\ c[k + 1] \subseteq C \cap (1 .. (k + 1))
                        /\ \A j \in 0 .. (k + 1) : c[k + 1] \cap (1 .. j) = c[j]
      OBVIOUS
    <2>1. /\ c[k] \subseteq C \cap (1 .. k)
          /\ \A j \in 0 .. k : c[k] \cap (1 .. j) = c[j]
      BY <1>0, <1>6
    <2>2. k + 1 \in Node /\ (k + 1) - 1 = k
      BY DEF Node
    <2>3. c[k] \subseteq c[k + 1] /\ c[k + 1] \subseteq c[k] \cup ({k + 1} \cap C)
      BY <1>4, <2>2
    <2>4. c[k + 1] \subseteq C \cap (1 .. (k + 1))
      BY <2>1, <2>3
    <2>5. ASSUME NEW j \in 0 .. (k + 1) PROVE c[k + 1] \cap (1 .. j) = c[j]
      <3>1. CASE j = k + 1
        BY <2>4, <3>1
      <3>2. CASE j \in 0 .. k
        <4>1. k + 1 \notin 1 .. j
          BY <3>2
        <4> QED BY <2>1, <2>3, <3>2, <4>1
      <3> QED BY <3>1, <3>2
    <2> QED BY <2>4, <2>5
  <1>7. Nat \subseteq T
    <2> HIDE DEF T
    <2> QED BY <1>5, <1>6, SetInduction
  <1>8. c[Nodes] \subseteq C /\ \A j \in 0 .. Nodes : c[Nodes] \cap (1 .. j) = c[j]
    BY <1>0, <1>7
  <1>9. ASSUME NEW n \in C
        PROVE  n \in c[Nodes] <=> MarkFree(n) /\ Above(n) \cap c[Nodes] \subseteq {n}
    <2>1. n \in Node /\ n \in Nat /\ n \in 0 .. Nodes /\ n - 1 \in 0 .. Nodes /\ n \in 1 .. n
      BY <1>0 DEF Node
    <2>2. c[Nodes] \cap (1 .. n) = c[n] /\ c[Nodes] \cap (1 .. (n - 1)) = c[n - 1]
      BY <1>8, <2>1
    <2>3. n \notin 1 .. (n - 1)
      BY <2>1
    <2>4. n \in c[Nodes] <=> isFree(n, c[n - 1])
      BY <1>4, <2>1, <2>2, <2>3
    <2>5. Above(n) \subseteq 1 .. n
      BY <2>1, UpIsPath DEF Above
    <2>6. \A m \in 1 .. n : m # n => m \in 1 .. (n - 1)
      BY <2>1
    <2>7. (\A m \in c[n - 1] \ {n} : m \notin Above(n)) <=> Above(n) \cap c[Nodes] \subseteq {n}
      BY <2>2, <2>5, <2>6
    <2> QED BY <2>4, <2>7 DEF isFree, MarkFree
  <1> QED BY <1>2, <1>8, <1>9

\* The figures that autoMark claims, and the lists.
LEMMA AutoMarkIs ==
  ASSUME IsTree(doc)
  PROVE  /\ autoFigures \subseteq {n \in Node : doc.kind[n] = "figure"}
         /\ \A figures : autoLists(figures) \subseteq {n \in Node : doc.kind[n] = "list"}
         /\ AutoMarkIsOutermost
  <1> DEFINE figs == {n \in Node : doc.kind[n] = "figure"}
             cand(figures) == {n \in Node : /\ doc.kind[n] = "list" /\ Cardinality(Children(n)) >= 2
                                            /\ figures \cap Above(n) = {}}
             figures == autoFigures
             lists == autoLists(figures)
             free == {n \in Node : doc.kind[n] = "figure" /\ MarkFree(n)}
             freeLists == {n \in Node : doc.kind[n] = "list" /\ MarkFree(n)}
  <1>1. /\ figures \subseteq figs
        /\ \A n \in figs : n \in figures <=> MarkFree(n) /\ Above(n) \cap figures \subseteq {n}
    <2>1. figures = Claimed(figs) /\ figs \in SUBSET Node
      BY DEF autoFigures
    <2> HIDE DEF figs, figures
    <2> QED BY <2>1, ClaimedIs
  <1>2. ASSUME NEW fs
        PROVE  /\ autoLists(fs) \subseteq cand(fs)
               /\ \A n \in cand(fs) : n \in autoLists(fs) <=> MarkFree(n) /\ Above(n) \cap autoLists(fs) \subseteq {n}
    <2> DEFINE cs == cand(fs)
    <2>1. autoLists(fs) = Claimed(cs) /\ cs \in SUBSET Node
      BY DEF autoLists
    <2> HIDE DEF cs, cand
    <2>2. /\ Claimed(cs) \subseteq cs
          /\ \A n \in cs : n \in Claimed(cs) <=> MarkFree(n) /\ Above(n) \cap Claimed(cs) \subseteq {n}
      BY <2>1, ClaimedIs
    <2> QED BY <2>1, <2>2 DEF cs
  <1>3. \A n \in Node : /\ n \in Above(n) /\ Above(n) \subseteq 1 .. n /\ n \in Nat
                        /\ \A m \in Above(n) : Above(m) \subseteq Above(n)
    BY UpIsPath DEF Above, Node
  <1>4. figures \subseteq free
    BY <1>1
  <1>5. figures = {n \in free : Above(n) \cap free = {n}}
    <2>1. ASSUME NEW n \in figures, NEW m \in Above(n) \cap free, m # n
          PROVE  FALSE
      <3> DEFINE T == Above(n) \cap free
      <3>1. n \in Node /\ n \in free
        BY <1>4
      <3>2. T \subseteq Nat /\ T # {} /\ T \subseteq 1 .. n
        BY <1>3, <2>1, <3>1
      <3>3. PICK x \in T : \A y \in T : x <= y
        <4> HIDE DEF T
        <4> QED BY <3>2, LeastNat
      <3>4. x \in Nat /\ m \in Nat /\ n \in Nat /\ x <= m /\ m < n
        BY <1>3, <2>1, <3>1, <3>2, <3>3
      <3>5. x \in free /\ x \in Above(n) /\ x \in Node
        BY <3>3
      <3>6. ASSUME NEW y \in Above(x) \cap figures PROVE y = x
        <4>1. y \in T
          BY <1>3, <1>4, <3>1, <3>5, <3>6
        <4>2. x <= y /\ y <= x /\ y \in Nat
          BY <1>3, <3>2, <3>3, <3>5, <3>6, <4>1
        <4> QED BY <3>4, <4>2
      <3>7. x \in figures
        <4>1. x \in figs /\ MarkFree(x)
          BY <3>5
        <4> HIDE DEF figures, figs, free, T
        <4> QED BY <1>1, <3>6, <4>1
      <3>8. x = n
        BY <1>1, <3>5, <3>7
      <3> QED BY <3>4, <3>8
    <2>2. ASSUME NEW n \in free, Above(n) \cap free = {n}
          PROVE  n \in figures
      <3>1. n \in figs /\ MarkFree(n)
        OBVIOUS
      <3>2. Above(n) \cap figures \subseteq {n}
        BY <1>4, <2>2
      <3> HIDE DEF figures, figs, free
      <3> QED BY <1>1, <3>1, <3>2
    <2>3. \A n \in figures : n \in Above(n)
      BY <1>1, <1>3
    <2> HIDE DEF figures, free
    <2> QED BY <1>4, <2>1, <2>2, <2>3
  <1>6. \A n \in lists : n \in freeLists /\ Above(n) \cap (figures \cup lists) = {n}
    <2> SUFFICES ASSUME NEW n \in lists
                 PROVE  n \in freeLists /\ Above(n) \cap (figures \cup lists) = {n}
      OBVIOUS
    <2>1. n \in cand(figures) /\ MarkFree(n) /\ Above(n) \cap lists \subseteq {n}
      <3> HIDE DEF cand, figures
      <3> QED BY <1>2
    <2>2. n \in Node /\ doc.kind[n] = "list" /\ figures \cap Above(n) = {}
      BY <2>1
    <2>3. n \in Above(n)
      BY <1>3, <2>2
    <2> HIDE DEF figures, lists
    <2> QED BY <2>1, <2>2, <2>3
  <1>7. \A n \in freeLists : Cardinality(Children(n)) >= 2 => Above(n) \cap (figures \cup lists) # {}
    <2> SUFFICES ASSUME NEW n \in freeLists, Cardinality(Children(n)) >= 2,
                        Above(n) \cap (figures \cup lists) = {}
                 PROVE  FALSE
      OBVIOUS
    <2>1. n \in cand(figures) /\ MarkFree(n) /\ Above(n) \cap lists \subseteq {n} /\ n \in Above(n)
      BY <1>3
    <2>2. n \in lists
      <3> HIDE DEF cand, figures
      <3> QED BY <1>2, <2>1
    <2> QED BY <2>1, <2>2
  <1>8. AutoMarkIsOutermost
    BY <1>5, <1>6, <1>7 DEF AutoMarkIsOutermost, MarkFree
  <1>9. \A fs : autoLists(fs) \subseteq {n \in Node : doc.kind[n] = "list"}
    BY <1>2
  <1> QED BY <1>1, <1>8, <1>9

(* The reveals.                                                            *)

Style == {"none", "hidden", "rising", "shown", "stuck"}

RevealTypes ==
  /\ doc \in Documents
  /\ hydrated \in BOOLEAN /\ directing \in BOOLEAN
  /\ gate \in [on: BOOLEAN, timer: BOOLEAN]
  /\ motion \in [reduced: BOOLEAN, queued: BOOLEAN]
  /\ earlier \subseteq BOOLEAN /\ overlaid \in BOOLEAN /\ refaded \in BOOLEAN
  /\ fade \in {"rising", "shown", "stuck"}
  /\ inline \in [Node -> Style]
  /\ DOMAIN armed \subseteq Node /\ seen \in 0 .. Nodes

\* The gate is lifted from a page that does not hydrate in time, and the director, which
\* is there from hydration on, follows the preference.
GateInv ==
  /\ gate.on /\ ~gate.timer => hydrated
  /\ directing => hydrated
  /\ hydrated /\ ~motion.queued => (directing <=> ~motion.reduced)

\* While the director is directing, it has taken over what the style sheet hides, and
\* what it hides waits for a trigger of this document; else it hides nothing.  Only the
\* directors of several routes leave something stuck.
StyleInv ==
  /\ ~directing => armed = << >>
  /\ directing => \A n \in Node : CssHidden(n) => inline[n] # "none"
  /\ \A n \in Node : inline[n] = "hidden" => directing /\ \E t \in DOMAIN armed : n \in armed[t]
  /\ \A t \in DOMAIN armed : t \in DOMAIN Triggers /\ armed[t] = Triggers[t]
  /\ \A n \in Node : inline[n] = "stuck" => overlaid
  /\ fade = "stuck" => refaded

RevealInv == RevealTypes /\ GateInv /\ StyleInv

\* The triggers and the style sheet are those of the document, which does not change.
LEMMA TriggersKept ==
  ASSUME doc' = doc
  PROVE  Triggers' = Triggers /\ \A n \in Node : CssHidden(n)' <=> CssHidden(n)
  <1> DEFINE free(d, n, taken) ==
               /\ \A m \in Up(d, n) \cup {m \in Node : n \in Up(d, m)} : d.kind[m] \notin Marked
               /\ \A m \in taken \ {n} : m \notin Up(d, n)
             take(d, candidates) ==
               LET claimed[n \in 0 .. Nodes] ==
                     IF n = 0 THEN {}
                     ELSE claimed[n - 1]
                            \cup {m \in {n} \cap candidates : free(d, m, claimed[n - 1])}
               IN claimed[Nodes]
             under(d, n) == {m \in Node : d.parent[m] = n}
             figuresOf(d) == take(d, {n \in Node : d.kind[n] = "figure"})
             listsOf(d, figures) ==
               take(d, {n \in Node : /\ d.kind[n] = "list" /\ Cardinality(under(d, n)) >= 2
                                     /\ figures \cap Up(d, n) = {}})
             itself(d) == {n \in Node : d.kind[n] \in {"reveal", "draw"}} \cup figuresOf(d)
             others(d) ==
               {n \in Node : d.kind[n] = "rows" /\ under(d, n) # {}} \cup listsOf(d, figuresOf(d))
             T(d) == [t \in itself(d) \cup others(d) |-> IF t \in itself(d) THEN {t} ELSE under(d, t)]
  <1>1. Triggers = T(doc) /\ Triggers' = T(doc')
    BY DEF Triggers, autoFigures, autoLists, Claimed, isFree, Above, Below, Children
  <1>2. T(doc') = T(doc)
    <2> HIDE DEF T
    <2> QED OBVIOUS
  <1>3. Triggers' = Triggers
    <2> HIDE DEF T
    <2> QED BY <1>1, <1>2
  <1>4. \A n \in Node : CssHidden(n)' <=> CssHidden(n)
    BY DEF CssHidden
  <1> QED BY <1>3, <1>4

\* What the style sheet hides has a trigger, unless it rises with the opening.
LEMMA TriggersAre ==
  ASSUME doc \in Documents
  PROVE  /\ DOMAIN Triggers \subseteq Node
         /\ \A n \in Node : CssHidden(n) /\ doc.kind[n] # "intro" =>
              \E t \in DOMAIN Triggers : n \in Triggers[t]
  <1> DEFINE figures == autoFigures
             lists == autoLists(figures)
             itself == {n \in Node : doc.kind[n] \in {"reveal", "draw"}} \cup figures
             children == {n \in Node : doc.kind[n] = "rows" /\ Children(n) # {}} \cup lists
  <1>1. IsTree(doc) /\ doc.kind \in [Node -> ElementKind]
    BY DocumentIs
  <1>2. /\ figures \subseteq {n \in Node : doc.kind[n] = "figure"}
        /\ lists \subseteq {n \in Node : doc.kind[n] = "list"}
    BY <1>1, AutoMarkIs
  <1>3. Triggers = [t \in itself \cup children |-> IF t \in itself THEN {t} ELSE Children(t)]
    BY DEF Triggers
  <1> HIDE DEF figures, lists
  <1>4. itself \subseteq Node /\ children \subseteq Node
    BY <1>2
  <1>5. ASSUME NEW n \in Node, CssHidden(n), doc.kind[n] # "intro"
        PROVE  \E t \in DOMAIN Triggers : n \in Triggers[t]
    <2>1. CASE doc.kind[n] = "reveal"
      <3>1. n \in itself
        BY <2>1
      <3> HIDE DEF itself, children
      <3> QED BY <1>3, <3>1
    <2>2. CASE doc.kind[n] # "reveal"
      <3>1. PICK p \in Node : p = doc.parent[n] /\ doc.kind[p] = "rows"
        BY <1>5, <2>2 DEF CssHidden
      <3>2. n \in Children(p)
        BY <3>1 DEF Children
      <3>3. p \in children /\ p \notin itself
        BY <1>2, <3>1, <3>2
      <3> HIDE DEF itself, children
      <3> QED BY <1>3, <3>2, <3>3
    <2> QED BY <2>1, <2>2
  <1> QED BY <1>3, <1>4, <1>5

\* What a director hides of the styles it finds.
LEMMA HidesIs ==
  ASSUME doc \in Documents, NEW s \in [Node -> Style], NEW opening \in BOOLEAN
  PROVE  /\ Hides(s, Triggers, opening) \in [Node -> Style]
         /\ \A n \in Node :
              LET found == Hides(s, Triggers, opening)[n]
              IN /\ CssHidden(n) /\ (opening \/ s[n] # "none") => found # "none"
                 /\ found = "hidden" => s[n] = "hidden" \/ \E t \in DOMAIN Triggers : n \in Triggers[t]
                 /\ found = "stuck" => s[n] = "stuck"
  <1> DEFINE h == Hides(s, Triggers, opening)
  <1>1. \A n \in Node : CssHidden(n) /\ doc.kind[n] # "intro" =>
          \E t \in DOMAIN Triggers : n \in Triggers[t]
    BY TriggersAre
  <1>2. /\ h = [n \in Node |-> h[n]]
        /\ \A n \in Node :
             h[n] = IF doc.kind[n] = "intro" THEN IF opening THEN "rising" ELSE s[n]
                    ELSE IF s[n] # "rising" /\ \E t \in DOMAIN Triggers : n \in Triggers[t]
                    THEN "hidden" ELSE s[n]
    BY DEF Hides
  <1> HIDE DEF h
  <1>3. \A n \in Node : h[n] \in Style
    BY <1>2 DEF Style
  <1>4. h \in [Node -> Style]
    BY <1>2, <1>3
  <1>5. \A n \in Node : CssHidden(n) /\ (opening \/ s[n] # "none") => h[n] # "none"
    BY <1>1, <1>2
  <1>6. \A n \in Node :
          /\ h[n] = "hidden" => s[n] = "hidden" \/ \E t \in DOMAIN Triggers : n \in Triggers[t]
          /\ h[n] = "stuck" => s[n] = "stuck"
    BY <1>2
  <1> QED BY <1>4, <1>5, <1>6 DEF h

\* The director of a route that is opened sets its reveals up, or leaves the page as it is.
LEMMA DirectRevealsIs ==
  ASSUME RevealTypes, StyleInv, DirectReveals, doc' = doc, motion.reduced \in BOOLEAN
  PROVE  /\ directing' \in BOOLEAN /\ (directing' <=> ~motion.reduced)
         /\ overlaid' \in BOOLEAN /\ refaded' \in BOOLEAN /\ fade' \in {"rising", "shown", "stuck"}
         /\ inline' \in [Node -> Style] /\ DOMAIN armed' \subseteq Node
         /\ StyleInv'
  <1>0. /\ doc \in Documents /\ directing' = ~motion.reduced /\ overlaid' = FALSE
        /\ fade \in {"rising", "shown", "stuck"} /\ refaded \in BOOLEAN
        /\ fade = "stuck" => refaded
    BY DEF RevealTypes, StyleInv, DirectReveals
  <1> DEFINE s == Unstyled
  <1>1. s \in [Node -> Style] /\ \A n \in Node : s[n] = "none"
    BY DEF Unstyled, Style
  <1>2. Triggers' = Triggers /\ \A n \in Node : CssHidden(n)' <=> CssHidden(n)
    BY <1>0, TriggersKept
  <1>3. CASE motion.reduced
    <2>1. armed' = << >> /\ inline' = s /\ fade' = fade /\ refaded' = refaded
      BY <1>3 DEF DirectReveals
    <2> HIDE DEF s
    <2>2. ~directing' /\ DOMAIN armed' = {}
      <3>1. DOMAIN << >> = {}
        OBVIOUS
      <3> QED BY <1>0, <1>3, <2>1, <3>1
    <2>3. StyleInv'
      BY <1>0, <1>1, <2>1, <2>2 DEF StyleInv
    <2> QED BY <1>0, <1>1, <1>3, <2>1, <2>2, <2>3
  <1>4. CASE ~motion.reduced
    <2> DEFINE again == FALSE \/ fade \in {"rising", "stuck"}
    <2>1. /\ armed' = Triggers /\ inline' = Hides(s, Triggers, TRUE)
          /\ fade' = "rising" /\ refaded' = again
      BY <1>4 DEF DirectReveals, Fades
    <2>2. again \in BOOLEAN
      OBVIOUS
    <2> HIDE DEF s, again
    <2>3. DOMAIN Triggers \subseteq Node
      BY <1>0, TriggersAre
    <2>4. /\ inline' \in [Node -> Style]
          /\ \A n \in Node : /\ CssHidden(n) => inline'[n] # "none"
                             /\ inline'[n] = "hidden" => \E t \in DOMAIN Triggers : n \in Triggers[t]
                             /\ inline'[n] # "stuck"
      BY <1>0, <1>1, <2>1, HidesIs
    <2>5. directing' /\ directing' \in BOOLEAN
      BY <1>0, <1>4
    <2>6. StyleInv'
      BY <1>2, <2>1, <2>4, <2>5 DEF StyleInv
    <2> QED BY <1>0, <1>4, <2>1, <2>2, <2>3, <2>4, <2>5, <2>6
  <1> QED BY <1>3, <1>4

\* No effect has run, and only the gate hides.
LEMMA RevealStart == RevealInit => RevealInv
  <1> SUFFICES ASSUME RevealInit PROVE RevealInv
    OBVIOUS
  <1>1. PICK reduced \in BOOLEAN :
          /\ motion = [reduced |-> reduced, queued |-> FALSE]
          /\ gate = [on |-> ~reduced, timer |-> ~reduced]
    BY DEF RevealInit
  <1>2. /\ doc \in Documents /\ hydrated = FALSE /\ directing = FALSE
        /\ earlier = {} /\ overlaid = FALSE /\ fade = "shown" /\ refaded = FALSE
        /\ inline = [n \in Node |-> "none"] /\ armed = << >> /\ seen = 0
    BY DEF RevealInit, Unstyled
  <1>3. /\ motion \in [reduced: BOOLEAN, queued: BOOLEAN] /\ gate \in [on: BOOLEAN, timer: BOOLEAN]
        /\ (gate.on <=> gate.timer)
    <2> DEFINE on == ~reduced
    <2>1. on \in BOOLEAN /\ gate = [on |-> on, timer |-> on]
      BY <1>1
    <2> HIDE DEF on
    <2> QED BY <1>1, <2>1
  <1>4. inline \in [Node -> Style] /\ \A n \in Node : inline[n] \notin {"hidden", "stuck"}
    BY <1>2 DEF Style
  <1>5. DOMAIN armed = {} /\ DOMAIN armed \subseteq Node /\ seen \in 0 .. Nodes
    BY <1>2, RevealAssumption
  <1>6. RevealTypes
    BY <1>2, <1>3, <1>4, <1>5 DEF RevealTypes
  <1>7. GateInv /\ StyleInv
    BY <1>2, <1>3, <1>4, <1>5 DEF GateInv, StyleInv
  <1> QED BY <1>6, <1>7 DEF RevealInv

\* Hydration, and every route, set the reveals of new elements up.
LEMMA HydrateStep ==
  ASSUME RevealInv, Hydrate \/ OpenRoute
  PROVE  RevealInv'
  <1>0. /\ RevealTypes /\ GateInv /\ StyleInv
        /\ hydrated' = TRUE /\ DirectReveals /\ doc' = doc /\ gate' = gate /\ motion' = motion
        /\ seen' \in {0, seen} /\ earlier' \in {earlier, earlier \cup {directing}}
    BY DEF RevealInv, RevealTypes, Hydrate, OpenRoute
  <1>1. motion.reduced \in BOOLEAN /\ motion'.reduced = motion.reduced
    BY <1>0 DEF RevealTypes
  <1>2. /\ directing' \in BOOLEAN /\ (directing' <=> ~motion.reduced)
        /\ overlaid' \in BOOLEAN /\ refaded' \in BOOLEAN /\ fade' \in {"rising", "shown", "stuck"}
        /\ inline' \in [Node -> Style] /\ DOMAIN armed' \subseteq Node
        /\ StyleInv'
    BY <1>0, <1>1, DirectRevealsIs
  <1>3. seen' \in 0 .. Nodes /\ earlier' \subseteq BOOLEAN
    BY <1>0, RevealAssumption DEF RevealTypes
  <1>4. RevealTypes'
    BY <1>0, <1>2, <1>3 DEF RevealTypes
  <1>5. GateInv'
    BY <1>0, <1>1, <1>2 DEF GateInv
  <1> QED BY <1>2, <1>4, <1>5 DEF RevealInv

\* The gate's timer, the preference and the scroll touch no style.
LEMMA QuietStep ==
  ASSUME RevealInv, GateTimer \/ SwitchPreference \/ \E s \in {0, Nodes} : ScrollTo(s)
  PROVE  RevealInv'
  <1>0. /\ RevealTypes /\ GateInv /\ StyleInv
        /\ doc' = doc /\ hydrated' = hydrated /\ directing' = directing /\ earlier' = earlier
        /\ overlaid' = overlaid /\ fade' = fade /\ refaded' = refaded /\ inline' = inline
        /\ armed' = armed
    BY DEF RevealInv, GateTimer, SwitchPreference, ScrollTo, directorVars
  <1>1. StyleInv'
    BY <1>0, TriggersKept DEF StyleInv
  <1>2. CASE GateTimer
    <2> DEFINE on == gate.on /\ hydrated
    <2>1. gate' = [on |-> on, timer |-> FALSE] /\ on \in BOOLEAN /\ motion' = motion /\ seen' = seen
      BY <1>2 DEF GateTimer, GateAfter
    <2>2. on => hydrated
      OBVIOUS
    <2> HIDE DEF on
    <2>3. gate' \in [on: BOOLEAN, timer: BOOLEAN] /\ (gate'.on => hydrated)
      BY <2>1, <2>2
    <2>4. RevealTypes'
      BY <1>0, <2>1, <2>3 DEF RevealTypes
    <2>5. GateInv'
      BY <1>0, <2>1, <2>3 DEF GateInv
    <2> QED BY <1>1, <2>4, <2>5 DEF RevealInv
  <1>3. CASE SwitchPreference
    <2> DEFINE reduced == ~motion.reduced
    <2>1. motion' = [reduced |-> reduced, queued |-> TRUE] /\ reduced \in BOOLEAN /\ gate' = gate /\ seen' = seen
      BY <1>3 DEF SwitchPreference
    <2> HIDE DEF reduced
    <2>2. motion' \in [reduced: BOOLEAN, queued: BOOLEAN] /\ motion'.queued
      BY <2>1
    <2> QED BY <1>0, <1>1, <2>1, <2>2 DEF RevealInv, RevealTypes, GateInv
  <1>4. CASE \E s \in {0, Nodes} : ScrollTo(s)
    <2>1. gate' = gate /\ motion' = motion /\ seen' \in {0, Nodes}
      BY <1>4 DEF ScrollTo
    <2>2. seen' \in 0 .. Nodes
      BY <2>1, RevealAssumption
    <2> QED BY <1>0, <1>1, <2>1, <2>2 DEF RevealInv, RevealTypes, GateInv
  <1> QED BY <1>2, <1>3, <1>4

\* With motion, every director that is idle runs over the styles it finds.
LEMMA RunAllIs ==
  ASSUME RevealTypes, StyleInv, RunAll, doc' = doc, directing' = TRUE
  PROVE  /\ overlaid' \in BOOLEAN /\ refaded' \in BOOLEAN /\ fade' \in {"rising", "shown", "stuck"}
         /\ inline' \in [Node -> Style] /\ DOMAIN armed' \subseteq Node
         /\ StyleInv'
  <1>0. /\ doc \in Documents /\ inline \in [Node -> Style] /\ DOMAIN armed \subseteq Node
        /\ overlaid \in BOOLEAN /\ refaded \in BOOLEAN /\ fade \in {"rising", "shown", "stuck"}
        /\ directing \in BOOLEAN
    BY DEF RevealTypes
  <1>1. Triggers' = Triggers /\ \A n \in Node : CssHidden(n)' <=> CssHidden(n)
    BY TriggersKept
  <1>2. CASE directing /\ UNCHANGED <<inline, armed, overlaid, fade, refaded>>
    BY <1>0, <1>1, <1>2 DEF StyleInv
  <1>3. CASE ~(directing /\ FALSE \notin earlier)
    <2> DEFINE over == FALSE \in earlier
               all == overlaid \/ over
               again == over \/ fade \in {"rising", "stuck"}
               opening == ~directing
    <2>1. /\ armed' = Triggers /\ inline' = Hides(inline, Triggers, opening)
          /\ overlaid' = all /\ fade' = "rising" /\ refaded' = again
      BY <1>3 DEF RunAll, Fades
    <2>2. all \in BOOLEAN /\ again \in BOOLEAN /\ opening \in BOOLEAN /\ (overlaid => all)
          /\ (directing \/ opening)
      BY <1>0
    <2> HIDE DEF all, again, opening
    <2>3. DOMAIN Triggers \subseteq Node
      BY <1>0, TriggersAre
    <2>4. \A n \in Node :
            /\ inline[n] = "hidden" => \E t \in DOMAIN Triggers : n \in Triggers[t]
            /\ directing /\ CssHidden(n) => inline[n] # "none"
            /\ inline[n] = "stuck" => overlaid
      BY DEF StyleInv
    <2>5. /\ inline' \in [Node -> Style]
          /\ \A n \in Node :
               /\ CssHidden(n) /\ (opening \/ inline[n] # "none") => inline'[n] # "none"
               /\ inline'[n] = "hidden" => inline[n] = "hidden" \/ \E t \in DOMAIN Triggers : n \in Triggers[t]
               /\ inline'[n] = "stuck" => inline[n] = "stuck"
      BY <1>0, <2>1, <2>2, HidesIs
    <2>6. \A n \in Node : /\ CssHidden(n) => inline'[n] # "none"
                          /\ inline'[n] = "hidden" => \E t \in DOMAIN Triggers : n \in Triggers[t]
                          /\ inline'[n] = "stuck" => all
      BY <2>2, <2>4, <2>5
    <2>7. StyleInv'
      BY <1>1, <2>1, <2>6 DEF StyleInv
    <2> QED BY <2>1, <2>2, <2>3, <2>5, <2>7
  <1> QED BY <1>2, <1>3 DEF RunAll

\* Without motion, nothing waits for a trigger any more.
LEMMA RevertAllIs ==
  ASSUME RevealTypes, StyleInv, RevertAll, directing' = FALSE
  PROVE  /\ overlaid' \in BOOLEAN /\ refaded' \in BOOLEAN /\ fade' \in {"rising", "shown", "stuck"}
         /\ inline' \in [Node -> Style] /\ DOMAIN armed' \subseteq Node
         /\ StyleInv'
  <1>0. /\ inline \in [Node -> Style] /\ overlaid \in BOOLEAN /\ refaded \in BOOLEAN
        /\ fade \in {"rising", "shown", "stuck"}
    BY DEF RevealTypes
  <1>1. armed' = << >> /\ DOMAIN armed' = {}
    <2>1. DOMAIN << >> = {}
      OBVIOUS
    <2> QED BY <2>1 DEF RevertAll
  <1>2. /\ overlaid' \in BOOLEAN /\ inline' \in [Node -> Style]
        /\ \A n \in Node : inline'[n] # "hidden" /\ (inline'[n] = "stuck" => overlaid')
    <2>1. CASE ~directing /\ UNCHANGED <<inline, overlaid>>
      BY <1>0, <2>1 DEF StyleInv
    <2>2. CASE \E survivors \in SUBSET {n \in Node : inline[n] = "rising"},
                  stuck \in IF overlaid THEN {{}, Targets} ELSE {{}} :
                 inline' = Cleared(survivors, stuck) /\ overlaid' = (stuck # {})
      <3>1. PICK survivors, stuck :
              inline' = Cleared(survivors, stuck) /\ overlaid' = (stuck # {})
        BY <2>2
      <3>2. \A n \in Node : inline'[n] = IF n \in survivors THEN "rising"
                                         ELSE IF n \in stuck THEN "stuck" ELSE "none"
        BY <3>1 DEF Cleared
      <3>3. inline' \in [Node -> Style]
        BY <3>1 DEF Cleared, Style
      <3>4. overlaid' \in BOOLEAN
        BY <3>1
      <3>5. \A n \in Node : inline'[n] = "stuck" => n \in stuck
        BY <3>2
      <3> QED BY <3>1, <3>2, <3>3, <3>4, <3>5
    <2> QED BY <2>1, <2>2 DEF RevertAll
  <1>3. /\ refaded' \in BOOLEAN /\ fade' \in {"rising", "shown", "stuck"}
        /\ fade' = "stuck" => refaded'
    <2>1. CASE UNCHANGED <<fade, refaded>>
      BY <1>0, <2>1 DEF StyleInv
    <2>2. CASE \E stuck \in BOOLEAN :
                 fade' = (IF stuck THEN "stuck" ELSE "shown") /\ refaded' = stuck
      BY <2>2
    <2>3. \/ UNCHANGED <<fade, refaded>>
          \/ \E stuck \in BOOLEAN :
               fade' = (IF stuck THEN "stuck" ELSE "shown") /\ refaded' = stuck
      BY DEF RevertAll
    <2> QED BY <2>1, <2>2, <2>3
  <1>4. StyleInv'
    BY <1>1, <1>2, <1>3 DEF StyleInv
  <1> QED BY <1>1, <1>2, <1>3, <1>4

\* The directors hear of the preference: they begin, or take everything back.
LEMMA MatchMediaStep ==
  ASSUME RevealInv, MatchMedia
  PROVE  RevealInv'
  <1>0. /\ RevealTypes /\ GateInv /\ StyleInv
        /\ hydrated /\ doc' = doc /\ hydrated' = hydrated /\ gate' = gate /\ seen' = seen
        /\ motion' = [motion EXCEPT !.queued = FALSE] /\ directing' = ~motion.reduced
        /\ earlier' = IF earlier = {} THEN {} ELSE {~motion.reduced}
    BY DEF RevealInv, MatchMedia
  <1>1. /\ motion' \in [reduced: BOOLEAN, queued: BOOLEAN] /\ (motion'.reduced <=> motion.reduced)
        /\ motion.reduced \in BOOLEAN /\ directing' \in BOOLEAN /\ earlier' \subseteq BOOLEAN
    BY <1>0 DEF RevealTypes
  <1>2. /\ overlaid' \in BOOLEAN /\ refaded' \in BOOLEAN /\ fade' \in {"rising", "shown", "stuck"}
        /\ inline' \in [Node -> Style] /\ DOMAIN armed' \subseteq Node
        /\ StyleInv'
    <2>1. CASE motion.reduced
      <3>1. RevertAll /\ directing' = FALSE
        BY <1>0, <2>1 DEF MatchMedia
      <3> QED BY <1>0, <3>1, RevertAllIs
    <2>2. CASE ~motion.reduced
      <3>1. RunAll /\ directing' = TRUE
        BY <1>0, <2>2 DEF MatchMedia
      <3> QED BY <1>0, <3>1, RunAllIs
    <2> QED BY <2>1, <2>2
  <1>3. RevealTypes'
    BY <1>0, <1>1, <1>2 DEF RevealTypes
  <1>4. GateInv'
    BY <1>0, <1>1 DEF GateInv
  <1> QED BY <1>2, <1>3, <1>4 DEF RevealInv

\* A trigger fires, and what it hid rises; what rises is shown, or stuck.
LEMMA EnterOrRiseStep ==
  ASSUME RevealInv, Rise \/ \E t \in Node : Enter(t)
  PROVE  RevealInv'
  <1>0. /\ RevealTypes /\ GateInv /\ StyleInv
        /\ doc' = doc /\ hydrated' = hydrated /\ directing' = directing /\ gate' = gate
        /\ motion' = motion /\ seen' = seen /\ earlier' = earlier /\ overlaid' = overlaid
        /\ refaded' = refaded
    BY DEF RevealInv, Rise, Enter
  <1>1. Triggers' = Triggers /\ \A n \in Node : CssHidden(n)' <=> CssHidden(n)
    BY <1>0, TriggersKept
  <1>2. /\ inline \in [Node -> Style] /\ DOMAIN armed \subseteq Node
        /\ fade \in {"rising", "shown", "stuck"}
    BY <1>0 DEF RevealTypes
  <1>3. CASE Rise
    <2>0. armed' = armed /\ fade' = IF fade = "rising" THEN "shown" ELSE fade
      BY <1>3 DEF Rise
    <2>1. PICK stuck \in SUBSET {n \in Node : overlaid /\ doc.kind[n] = "draw"} :
            inline' = [n \in Node |-> IF inline[n] # "rising" THEN inline[n]
                                      ELSE IF n \in stuck THEN "stuck" ELSE "shown"]
      BY <1>3 DEF Rise
    <2>2. inline' \in [Node -> Style]
      BY <1>2, <2>1 DEF Style
    <2>3. \A n \in Node : /\ inline'[n] = "hidden" => inline[n] = "hidden"
                          /\ inline'[n] = "none" => inline[n] = "none"
                          /\ inline'[n] = "stuck" => inline[n] = "stuck" \/ overlaid
      BY <2>1
    <2>4. StyleInv'
      BY <1>0, <1>1, <2>0, <2>3 DEF StyleInv
    <2>5. fade' \in {"rising", "shown", "stuck"}
      BY <1>2, <2>0
    <2> QED BY <1>0, <2>0, <2>2, <2>4, <2>5 DEF RevealInv, RevealTypes, GateInv
  <1>4. ASSUME NEW t \in Node, Enter(t)
        PROVE  RevealInv'
    <2>1. /\ t \in DOMAIN armed /\ armed' = [other \in DOMAIN armed \ {t} |-> armed[other]]
          /\ inline' = [n \in Node |->
                          IF n \in armed[t] /\ inline[n] = "hidden" THEN "rising" ELSE inline[n]]
          /\ fade' = fade
      BY <1>4 DEF Enter
    <2>2. directing
      <3>1. DOMAIN << >> = {}
        OBVIOUS
      <3> QED BY <1>0, <2>1, <3>1 DEF StyleInv
    <2>3. inline' \in [Node -> Style]
      BY <1>2, <2>1 DEF Style
    <2>4. DOMAIN armed' = DOMAIN armed \ {t} /\ \A o \in DOMAIN armed' : armed'[o] = armed[o]
      BY <2>1
    <2>5. \A n \in Node : /\ inline'[n] = "hidden" => inline[n] = "hidden" /\ n \notin armed[t]
                          /\ inline'[n] = "none" => inline[n] = "none"
                          /\ inline'[n] = "stuck" => inline[n] = "stuck"
      BY <2>1
    <2>6. ASSUME NEW n \in Node, inline'[n] = "hidden"
          PROVE  \E o \in DOMAIN armed' : n \in armed'[o]
      <3>1. PICK o \in DOMAIN armed : n \in armed[o]
        BY <1>0, <2>5, <2>6 DEF StyleInv
      <3>2. o # t
        BY <2>5, <2>6, <3>1
      <3> QED BY <2>4, <3>1, <3>2
    <2>7. StyleInv'
      BY <1>0, <1>1, <2>1, <2>2, <2>4, <2>5, <2>6 DEF StyleInv
    <2> QED BY <1>0, <1>2, <2>1, <2>3, <2>4, <2>7 DEF RevealInv, RevealTypes, GateInv
  <1> QED BY <1>3, <1>4

\* Every step of the reveals preserves the invariant.
LEMMA RevealInvStep == RevealInv /\ [RevealNext]_revealVars => RevealInv'
  <1> SUFFICES ASSUME RevealInv, [RevealNext]_revealVars PROVE RevealInv'
    OBVIOUS
  <1>1. CASE UNCHANGED revealVars
    <2>1. Triggers' = Triggers /\ \A n \in Node : CssHidden(n)' <=> CssHidden(n)
      BY <1>1, TriggersKept DEF revealVars
    <2> QED BY <1>1, <2>1 DEF revealVars, RevealInv, RevealTypes, GateInv, StyleInv
  <1>2. CASE RevealNext
    BY <1>2, HydrateStep, QuietStep, MatchMediaStep, EnterOrRiseStep DEF RevealNext
  <1> QED BY <1>1, <1>2

\* What the invariant says of the reveals.
LEMMA RevealGives == RevealInv => RevealTypeOK /\ AutoMarkIsOutermost /\ HiddenOnlyIfWaiting
  <1> SUFFICES ASSUME RevealInv PROVE RevealTypeOK /\ AutoMarkIsOutermost /\ HiddenOnlyIfWaiting
    OBVIOUS
  <1>0. RevealTypes /\ GateInv /\ StyleInv
    BY DEF RevealInv
  <1>1. RevealTypeOK
    BY <1>0 DEF RevealTypes, StyleInv, RevealTypeOK, Style
  <1>2. AutoMarkIsOutermost
    BY <1>0, DocumentIs, AutoMarkIs DEF RevealTypes
  <1>3. HiddenOnlyIfWaiting
    <2> SUFFICES ASSUME Settled, NEW n \in Node, ~Visible(n), ~(gate.on /\ hydrated /\ motion.reduced),
                        ~(refaded /\ fade = "stuck")
                 PROVE  \/ \E t \in DOMAIN armed : armed[t] \cap Above(n) # {}
                        \/ overlaid /\ \E m \in Above(n) : inline[m] = "stuck"
      BY DEF HiddenOnlyIfWaiting
    <2>0. fade = "shown"
      BY <1>0 DEF RevealTypes, StyleInv, Settled
    <2>1. PICK m \in Above(n) : ~Displayed(m)
      BY <2>0 DEF Visible
    <2>2. m \in Node
      <3>1. Above(n) \subseteq 1 .. n
        BY <1>0, DocumentIs, UpIsPath DEF RevealTypes, Above
      <3> QED BY <2>1, <3>1, RevealAssumption DEF Node
    <2>3. inline[m] \in Style /\ inline[m] # "rising" /\ inline[m] # "shown"
      BY <1>0, <2>1, <2>2 DEF RevealTypes, Settled, Displayed
    <2>4. CASE inline[m] = "hidden"
      BY <1>0, <2>1, <2>2, <2>4 DEF StyleInv
    <2>5. CASE inline[m] = "none"
      <3>1. gate.on /\ CssHidden(m)
        BY <2>1, <2>5 DEF Displayed
      <3>2. hydrated /\ ~motion.reduced /\ directing
        BY <1>0, <3>1 DEF GateInv, Settled
      <3> QED BY <1>0, <2>2, <2>5, <3>1, <3>2 DEF StyleInv
    <2>6. CASE inline[m] = "stuck"
      BY <1>0, <2>1, <2>2, <2>6 DEF StyleInv
    <2> QED BY <2>3, <2>4, <2>5, <2>6 DEF Style
  <1> QED BY <1>1, <1>2, <1>3
-----------------------------------------------------------------------------
(* The figures that count.                                                 *)

Calendar ==
  [outputs: Text, intro: {"none", "waiting", "playing", "done"}, sweep: {"paused", "playing"},
   at: Place, endedUnseen: BOOLEAN]

\* A calendar reads whole unless it waits or fills, and sweeps only when it has filled.
CalendarIsRight(c) ==
  /\ c \in Calendar
  /\ c.sweep = "playing" => c.intro = "done"
  /\ c.intro \in {"none", "done"} => c.outputs = "whole"
  /\ c.sweep = "playing" /\ c.at # "in" => c.endedUnseen

\* Every count-up restores what the server rendered: it is the text that was saved first.
CountIsSaved ==
  /\ count \in [text: Text, saved: {None, "whole"}, armed: BOOLEAN]
  /\ tweens \subseteq [run: 1 .. MaxRuns, text: {"whole"}]
  /\ count.saved = None => tweens = {}
  /\ tweens = {} => count.text = "whole"

CountersInv ==
  /\ director \in [on: BOOLEAN, runs: 0 .. MaxRuns]
  /\ director.on => director.runs >= 1
  /\ CountIsSaved
  /\ CalendarIsRight(calendar)
  /\ ~director.on => calendar.intro = "none"

\* play, pause and the setup of a calendar.
LEMMA CalendarIs ==
  ASSUME NEW c \in Calendar
  PROVE  /\ play(c) \in Calendar /\ play(c).outputs = c.outputs /\ play(c).intro = c.intro
         /\ play(c).sweep = "playing" /\ play(c).at = c.at /\ (play(c).endedUnseen <=> c.endedUnseen)
         /\ pause(c) \in Calendar /\ pause(c).outputs = c.outputs /\ pause(c).intro = c.intro
         /\ pause(c).sweep = "paused" /\ pause(c).at = c.at /\ ~pause(c).endedUnseen
         /\ Begin(c) \in Calendar /\ Begin(c).outputs = "partial" /\ Begin(c).intro = "waiting"
         /\ Begin(c).sweep = "paused" /\ Begin(c).at = c.at /\ ~Begin(c).endedUnseen
  <1>1. /\ play(c) \in Calendar /\ play(c).outputs = c.outputs /\ play(c).intro = c.intro
        /\ play(c).sweep = "playing" /\ play(c).at = c.at /\ (play(c).endedUnseen <=> c.endedUnseen)
    BY DEF play, Calendar
  <1>2. /\ pause(c) \in Calendar /\ pause(c).outputs = c.outputs /\ pause(c).intro = c.intro
        /\ pause(c).sweep = "paused" /\ pause(c).at = c.at /\ ~pause(c).endedUnseen
    <2> DEFINE s == [c EXCEPT !.sweep = "paused"]
    <2> DEFINE e == [s EXCEPT !.endedUnseen = FALSE]
    <2>1. pause(c) = e
      BY DEF pause
    <2>2. /\ s \in Calendar /\ s.outputs = c.outputs /\ s.intro = c.intro /\ s.sweep = "paused"
          /\ s.at = c.at
      BY DEF Calendar
    <2> HIDE DEF s
    <2>3. /\ e \in Calendar /\ e.outputs = s.outputs /\ e.intro = s.intro /\ e.sweep = s.sweep
          /\ e.at = s.at /\ ~e.endedUnseen
      BY <2>2 DEF Calendar
    <2> HIDE DEF e
    <2> QED BY <2>1, <2>2, <2>3
  <1>3. /\ Begin(c) \in Calendar /\ Begin(c).outputs = "partial" /\ Begin(c).intro = "waiting"
        /\ Begin(c).sweep = "paused" /\ Begin(c).at = c.at /\ ~Begin(c).endedUnseen
    <2> DEFINE o == [c EXCEPT !.outputs = "partial"]
    <2> DEFINE i == [o EXCEPT !.intro = "waiting"]
    <2> DEFINE s == [i EXCEPT !.sweep = "paused"]
    <2> DEFINE e == [s EXCEPT !.endedUnseen = FALSE]
    <2>1. Begin(c) = e
      BY DEF Begin
    <2>2. o \in Calendar /\ o.outputs = "partial" /\ o.at = c.at
      BY DEF Text, Calendar
    <2> HIDE DEF o
    <2>3. i \in Calendar /\ i.outputs = "partial" /\ i.intro = "waiting" /\ i.at = c.at
      BY <2>2 DEF Calendar
    <2> HIDE DEF i
    <2>4. s \in Calendar /\ s.outputs = "partial" /\ s.intro = "waiting" /\ s.sweep = "paused" /\ s.at = c.at
      BY <2>3 DEF Calendar
    <2> HIDE DEF s
    <2>5. /\ e \in Calendar /\ e.outputs = "partial" /\ e.intro = "waiting" /\ e.sweep = "paused"
          /\ e.at = c.at /\ ~e.endedUnseen
      BY <2>4 DEF Calendar
    <2> HIDE DEF e
    <2> QED BY <2>1, <2>5
  <1> QED BY <1>1, <1>2, <1>3

\* What ScrollTrigger calls on the way leaves a calendar right, and none that was set up
\* as it was before.
LEMMA MovedIs ==
  ASSUME NEW c, CalendarIsRight(c), NEW to \in Place
  PROVE  CalendarIsRight(Moved(c, to))
  <1> DEFINE entered == IF c.at = "before" THEN onEnter(c)
                        ELSE IF c.at = "after" THEN onEnterBack(c) ELSE c
             left == CASE to = "after" -> onLeave(entered)
                       [] to = "before" -> onLeaveBack(entered)
                       [] OTHER -> entered
             steps == [left EXCEPT !.at = to]
  <1>0. c \in Calendar /\ c.intro \in {"none", "waiting", "playing", "done"}
    BY DEF CalendarIsRight, Calendar
  <1>1. /\ onEnter(c) \in Calendar
        /\ onEnter(c).sweep = "playing" => onEnter(c).intro = "done"
        /\ onEnter(c).intro \in {"none", "done"} => onEnter(c).outputs = "whole"
    <2>1. CASE c.intro = "waiting"
      <3> DEFINE e == [c EXCEPT !.intro = "playing"]
      <3>1. e \in Calendar /\ e.intro = "playing" /\ e.sweep = c.sweep
        BY <1>0 DEF Calendar
      <3>2. onEnter(c) = e
        BY <2>1 DEF onEnter
      <3> HIDE DEF e
      <3> QED BY <2>1, <3>1, <3>2 DEF CalendarIsRight
    <2>2. CASE c.intro = "done"
      <3>1. onEnter(c) = play(c)
        BY <2>2 DEF onEnter
      <3> QED BY <1>0, <2>2, <3>1, CalendarIs DEF CalendarIsRight
    <2>3. CASE c.intro \notin {"waiting", "done"}
      <3>1. onEnter(c) = c
        BY <2>3 DEF onEnter
      <3> QED BY <1>0, <3>1 DEF CalendarIsRight
    <2> QED BY <2>1, <2>2, <2>3
  <1>2. /\ entered \in Calendar
        /\ entered.sweep = "playing" => entered.intro = "done"
        /\ entered.intro \in {"none", "done"} => entered.outputs = "whole"
    <2>1. CASE c.at = "before"
      BY <1>1, <2>1
    <2>2. CASE c.at = "after"
      <3>1. CASE c.intro = "done"
        <4>1. entered = play(c)
          BY <2>2, <3>1 DEF onEnterBack
        <4> HIDE DEF entered
        <4> QED BY <1>0, <3>1, <4>1, CalendarIs DEF CalendarIsRight
      <3>2. CASE c.intro # "done"
        BY <1>0, <2>2, <3>2 DEF onEnterBack, CalendarIsRight
      <3> QED BY <3>1, <3>2
    <2>3. CASE c.at \notin {"before", "after"}
      BY <1>0, <2>3 DEF CalendarIsRight
    <2> QED BY <2>1, <2>2, <2>3
  <1> HIDE DEF entered
  <1>3. /\ left \in Calendar
        /\ left.sweep = "playing" => left.intro = "done"
        /\ left.intro \in {"none", "done"} => left.outputs = "whole"
        /\ to # "in" => left.sweep = "paused"
    <2>1. CASE to # "in"
      <3>1. left = pause(entered)
        BY <2>1 DEF onLeave, onLeaveBack, Place
      <3> HIDE DEF left
      <3> QED BY <1>2, <3>1, CalendarIs
    <2>2. CASE to = "in"
      <3>1. left = entered
        BY <2>2
      <3> HIDE DEF left
      <3> QED BY <1>2, <2>2, <3>1
    <2> QED BY <2>1, <2>2
  <1> HIDE DEF left
  <1>4. /\ steps \in Calendar /\ steps.outputs = left.outputs /\ steps.intro = left.intro
        /\ steps.sweep = left.sweep /\ steps.at = to
    BY <1>3 DEF Calendar
  <1>5. Moved(c, to) = steps
    BY DEF Moved, steps, left, entered
  <1> HIDE DEF steps
  <1> QED BY <1>3, <1>4, <1>5 DEF CalendarIsRight

\* Every figure reads what the server rendered.
LEMMA CountersStart == CountersInit => CountersInv
  <1> SUFFICES ASSUME CountersInit PROVE CountersInv
    OBVIOUS
  <1>1. director \in [on: BOOLEAN, runs: 0 .. MaxRuns] /\ ~director.on
    BY CountersAssumption DEF CountersInit
  <1>2. CountIsSaved
    BY DEF CountersInit, CountIsSaved, Text
  <1>3. CalendarIsRight(calendar) /\ calendar.intro = "none"
    BY DEF CountersInit, CalendarIsRight, Calendar, Text, Place
  <1> QED BY <1>1, <1>2, <1>3 DEF CountersInv

\* A count-up is started, updated or completed.
LEMMA CountStep ==
  ASSUME CountersInv, countUp \/ CountUpdates \/ \E t \in tweens : CountCompletes(t)
  PROVE  CountersInv'
  <1> USE CountersAssumption
  <1>0. CountIsSaved /\ director' = director /\ calendar' = calendar
    BY DEF CountersInv, countUp, CountUpdates, CountCompletes
  <1>1. CountIsSaved'
    <2>1. CASE countUp
      <3> DEFINE a == [count EXCEPT !.armed = FALSE]
      <3> DEFINE b == [a EXCEPT !.saved = CountText]
      <3> DEFINE t == [run |-> director.runs, text |-> CountText]
      <3>1. CountText = "whole"
        BY <1>0 DEF CountIsSaved, CountText
      <3>2. count' = b
        BY <2>1 DEF countUp
      <3>3. a \in [text: Text, saved: {None, "whole"}, armed: BOOLEAN] /\ a.text = count.text
        BY <1>0 DEF CountIsSaved
      <3> HIDE DEF a
      <3>4. /\ b \in [text: Text, saved: {None, "whole"}, armed: BOOLEAN] /\ b.text = count.text
            /\ b.saved = "whole"
        BY <3>1, <3>3
      <3> HIDE DEF b
      <3>5. tweens' = tweens \cup {t} /\ director.on
        BY <2>1 DEF countUp
      <3>6. director.runs \in 1 .. MaxRuns
        BY <3>5 DEF CountersInv
      <3>7. t \in [run: 1 .. MaxRuns, text: {"whole"}]
        BY <3>1, <3>6
      <3> HIDE DEF t
      <3> QED BY <1>0, <3>2, <3>4, <3>5, <3>7 DEF CountIsSaved
    <2>2. CASE CountUpdates
      <3> DEFINE b == [count EXCEPT !.text = "partial"]
      <3>1. /\ b \in [text: Text, saved: {None, "whole"}, armed: BOOLEAN] /\ b.saved = count.saved
        BY <1>0 DEF CountIsSaved, Text
      <3>2. count' = b /\ tweens' = tweens /\ tweens # {}
        BY <2>2 DEF CountUpdates
      <3> HIDE DEF b
      <3> QED BY <1>0, <3>1, <3>2 DEF CountIsSaved
    <2>3. ASSUME NEW t \in tweens, CountCompletes(t)
          PROVE  CountIsSaved'
      <3> DEFINE b == [count EXCEPT !.text = t.text]
      <3>1. t.text = "whole"
        BY <1>0 DEF CountIsSaved
      <3>2. /\ b \in [text: Text, saved: {None, "whole"}, armed: BOOLEAN] /\ b.saved = count.saved
            /\ b.text = "whole"
        BY <1>0, <3>1 DEF CountIsSaved, Text
      <3>3. count' = b /\ tweens' = tweens \ {t}
        BY <2>3 DEF CountCompletes
      <3> HIDE DEF b
      <3> QED BY <1>0, <3>2, <3>3 DEF CountIsSaved
    <2> QED BY <2>1, <2>2, <2>3
  <1> QED BY <1>0, <1>1 DEF CountersInv

\* The visitor passes the calendar.
LEMMA ScrollPastStep ==
  ASSUME CountersInv, NEW to \in Place, ScrollPast(to)
  PROVE  CountersInv'
  <1>0. /\ CountIsSaved /\ CalendarIsRight(calendar) /\ calendar \in Calendar
        /\ director' = director /\ count' = count /\ tweens' = tweens
    BY DEF CountersInv, ScrollPast, CalendarIsRight
  <1>1. CASE director.on
    <2>1. calendar' = Moved(calendar, to)
      BY <1>1 DEF ScrollPast
    <2>2. CalendarIsRight(calendar')
      BY <1>0, <2>1, MovedIs
    <2> QED BY <1>0, <1>1, <2>2 DEF CountersInv, CountIsSaved
  <1>2. CASE ~director.on
    <2> DEFINE e == [calendar EXCEPT !.at = to]
    <2>1. calendar' = e
      BY <1>2 DEF ScrollPast
    <2>2. /\ e \in Calendar /\ e.outputs = calendar.outputs /\ e.intro = calendar.intro
          /\ e.sweep = calendar.sweep
      BY <1>0 DEF Calendar
    <2> HIDE DEF e
    <2>3. calendar.intro = "none" /\ calendar.sweep # "playing"
      BY <1>0, <1>2 DEF CountersInv, CalendarIsRight
    <2>4. CalendarIsRight(e)
      BY <1>0, <2>2, <2>3 DEF CalendarIsRight
    <2> QED BY <1>0, <1>2, <2>1, <2>2, <2>3, <2>4 DEF CountersInv, CountIsSaved
  <1> QED BY <1>1, <1>2

\* The calendar has filled.
LEMMA IntroStep ==
  ASSUME CountersInv, IntroCompletes
  PROVE  CountersInv'
  <1>0. /\ CountIsSaved /\ CalendarIsRight(calendar) /\ calendar \in Calendar
        /\ director' = director /\ count' = count /\ tweens' = tweens /\ calendar.intro = "playing"
    BY DEF CountersInv, IntroCompletes, CalendarIsRight
  <1> DEFINE r == restore(calendar)
             p == play(r)
             i == [p EXCEPT !.intro = "done"]
             unseen == calendar.at # "in"
             e == [i EXCEPT !.endedUnseen = unseen]
  <1>1. calendar' = e
    BY DEF IntroCompletes
  <1>2. r \in Calendar /\ r.outputs = "whole" /\ r.at = calendar.at
    BY <1>0 DEF restore, Text, Calendar
  <1>8. unseen \in BOOLEAN /\ (unseen <=> calendar.at # "in")
    OBVIOUS
  <1> HIDE DEF r, unseen
  <1>3. p \in Calendar /\ p.outputs = "whole" /\ p.at = calendar.at
    BY <1>2, CalendarIs
  <1> HIDE DEF p
  <1>4. i \in Calendar /\ i.outputs = "whole" /\ i.at = calendar.at /\ i.intro = "done"
    BY <1>3 DEF Calendar
  <1> HIDE DEF i
  <1>5. /\ e \in Calendar /\ e.outputs = "whole" /\ e.at = calendar.at /\ e.intro = "done"
        /\ (e.endedUnseen <=> unseen)
    BY <1>4, <1>8 DEF Calendar
  <1> HIDE DEF e
  <1>6. CalendarIsRight(e)
    BY <1>5, <1>8 DEF CalendarIsRight
  <1>7. director.on
    BY <1>0 DEF CountersInv
  <1> QED BY <1>0, <1>1, <1>6, <1>7 DEF CountersInv, CountIsSaved

\* The director runs, and sets the calendar up as it sees it.
LEMMA DirectStep ==
  ASSUME CountersInv, Direct
  PROVE  CountersInv'
  <1> USE CountersAssumption
  <1>0. /\ CountIsSaved /\ CalendarIsRight(calendar) /\ calendar \in Calendar
        /\ director \in [on: BOOLEAN, runs: 0 .. MaxRuns]
        /\ ~director.on /\ director.runs < MaxRuns
        /\ director' = [on |-> TRUE, runs |-> director.runs + 1]
        /\ count' = [count EXCEPT !.armed = TRUE] /\ tweens' = tweens
    BY DEF CountersInv, Direct, CalendarIsRight
  <1>1. director' \in [on: BOOLEAN, runs: 0 .. MaxRuns] /\ director'.on /\ director'.runs >= 1
    <2>1. director.runs \in 0 .. MaxRuns
      BY <1>0
    <2>2. director.runs + 1 \in 0 .. MaxRuns /\ director.runs + 1 >= 1
      BY <1>0, <2>1
    <2> QED BY <1>0, <2>2
  <1>2. CountIsSaved'
    <2> DEFINE b == [count EXCEPT !.armed = TRUE]
    <2>1. /\ b \in [text: Text, saved: {None, "whole"}, armed: BOOLEAN] /\ b.saved = count.saved
          /\ b.text = count.text
      BY <1>0 DEF CountIsSaved
    <2>2. count' = b
      BY <1>0
    <2> HIDE DEF b
    <2> QED BY <1>0, <2>1, <2>2 DEF CountIsSaved
  <1>3. CalendarIsRight(calendar')
    <2> DEFINE b == Begin(calendar)
               e == [b EXCEPT !.at = "before"]
               to == b.at
    <2>1. b \in Calendar /\ b.intro = "waiting" /\ b.sweep = "paused"
      BY <1>0, CalendarIs
    <2>2. calendar' = b \/ calendar' = Moved(e, to)
      BY DEF Direct, Refreshed
    <2> HIDE DEF b
    <2>3. e \in Calendar /\ e.intro = "waiting" /\ e.sweep = "paused" /\ to \in Place
      BY <2>1 DEF Place, Calendar, Calendar
    <2> HIDE DEF e, to
    <2>4. CalendarIsRight(b) /\ CalendarIsRight(e)
      BY <2>1, <2>3 DEF CalendarIsRight
    <2> QED BY <2>2, <2>3, <2>4, MovedIs
  <1> QED BY <1>1, <1>2, <1>3 DEF CountersInv

\* mm.revert: what it kills, it restores.
LEMMA RevertStep ==
  ASSUME CountersInv, Revert
  PROVE  CountersInv'
  <1>0. /\ CountIsSaved /\ CalendarIsRight(calendar) /\ calendar \in Calendar
        /\ director \in [on: BOOLEAN, runs: 0 .. MaxRuns] /\ director' = [director EXCEPT !.on = FALSE]
    BY DEF CountersInv, Revert, CalendarIsRight
  <1>1. director' \in [on: BOOLEAN, runs: 0 .. MaxRuns] /\ ~director'.on
    BY <1>0
  <1>2. CountIsSaved'
    <2>1. PICK killed \in SUBSET tweens :
            /\ tweens' = tweens \ killed
            /\ \E restored \in IF killed = {} THEN {count.text} ELSE {t.text : t \in killed} :
                 count' = [count EXCEPT !.armed = FALSE, !.text = restored]
      BY DEF Revert
    <2>2. PICK restored \in IF killed = {} THEN {count.text} ELSE {t.text : t \in killed} :
            count' = [count EXCEPT !.armed = FALSE, !.text = restored]
      BY <2>1
    <2>3. (killed = {} /\ restored = count.text) \/ restored = "whole"
      <3>1. \A t \in killed : t.text = "whole"
        BY <1>0 DEF CountIsSaved
      <3> QED BY <2>2, <3>1
    <2> DEFINE a == [count EXCEPT !.armed = FALSE]
    <2> DEFINE b == [a EXCEPT !.text = restored]
    <2>4. /\ a \in [text: Text, saved: {None, "whole"}, armed: BOOLEAN] /\ a.saved = count.saved
      BY <1>0 DEF CountIsSaved
    <2>5. count' = b
      BY <2>2
    <2> HIDE DEF a
    <2>6. restored \in Text
      BY <1>0, <2>3 DEF CountIsSaved, Text
    <2>7. /\ b \in [text: Text, saved: {None, "whole"}, armed: BOOLEAN] /\ b.saved = count.saved
          /\ b.text = restored
      BY <2>4, <2>6
    <2> HIDE DEF b
    <2>8. tweens' \subseteq [run: 1 .. MaxRuns, text: {"whole"}] /\ (tweens = {} => tweens' = {})
      BY <1>0, <2>1 DEF CountIsSaved
    <2>9. tweens' = {} => restored = "whole"
      BY <1>0, <2>1, <2>3 DEF CountIsSaved
    <2> QED BY <1>0, <2>5, <2>7, <2>8, <2>9 DEF CountIsSaved
  <1>3. CalendarIsRight(calendar') /\ calendar'.intro = "none"
    <2> DEFINE r == Restored(calendar)
               i == [r EXCEPT !.intro = "none"]
               s == [i EXCEPT !.sweep = "paused"]
               e == [s EXCEPT !.endedUnseen = FALSE]
    <2>1. calendar' = e
      BY DEF Revert
    <2>2. r \in Calendar /\ r.outputs = "whole"
      BY <1>0 DEF Restored, restore, Text, Calendar
    <2> HIDE DEF r
    <2>3. i \in Calendar /\ i.outputs = "whole" /\ i.intro = "none"
      BY <2>2 DEF Calendar
    <2> HIDE DEF i
    <2>4. s \in Calendar /\ s.outputs = "whole" /\ s.intro = "none" /\ s.sweep = "paused"
      BY <2>3 DEF Calendar
    <2> HIDE DEF s
    <2>5. e \in Calendar /\ e.outputs = "whole" /\ e.intro = "none" /\ e.sweep = "paused"
      BY <2>4 DEF Calendar
    <2> HIDE DEF e
    <2> QED BY <2>1, <2>5 DEF CalendarIsRight
  <1> QED BY <1>1, <1>2, <1>3 DEF CountersInv

\* Every step of the figures preserves the invariant.
LEMMA CountersInvStep == CountersInv /\ [CountersNext]_countersVars => CountersInv'
  <1> SUFFICES ASSUME CountersInv, [CountersNext]_countersVars PROVE CountersInv'
    OBVIOUS
  <1>1. CASE UNCHANGED countersVars
    BY <1>1 DEF countersVars, CountersInv, CountIsSaved
  <1> QED BY <1>1, CountStep, ScrollPastStep, IntroStep, DirectStep, RevertStep DEF CountersNext

\* What the invariant says of the figures.
LEMMA CountersGives ==
  CountersInv => CountersTypeOK /\ CountSettles /\ CalendarReadsWhole /\ UnseenSweepEndedUnseen
  <1> SUFFICES ASSUME CountersInv
               PROVE  CountersTypeOK /\ CountSettles /\ CalendarReadsWhole /\ UnseenSweepEndedUnseen
    OBVIOUS
  <1>0. CountIsSaved /\ CalendarIsRight(calendar) /\ director \in [on: BOOLEAN, runs: 0 .. MaxRuns]
    BY DEF CountersInv
  <1>1. count \in [text: Text, saved: Text \cup {None}, armed: BOOLEAN]
    BY <1>0 DEF CountIsSaved, Text
  <1>2. tweens \subseteq [run: 1 .. MaxRuns, text: Text]
    BY <1>0 DEF CountIsSaved, Text
  <1>3. CountersTypeOK
    BY <1>0, <1>1, <1>2 DEF CountersTypeOK, CalendarIsRight, Calendar
  <1> QED BY <1>0, <1>3 DEF CountSettles, CalendarReadsWhole, UnseenSweepEndedUnseen, CalendarIsRight, CountIsSaved
-----------------------------------------------------------------------------
(* The opening's meter.                                                    *)

OpeningTypes ==
  /\ percent \in [Day -> Coverage] /\ index \in Day
  /\ running \in BOOLEAN /\ observed \in BOOLEAN /\ directed \in BOOLEAN
  /\ holds \subseteq Signal /\ queued \subseteq Signal \ {"seen"}
  /\ reports \subseteq BOOLEAN /\ mixed \in BOOLEAN
  /\ heroFrom \in Coverage \cup {None}
  /\ counting \in [from: Coverage, to: Coverage] \cup {None}

\* A count leads to the day shown; what reads neither the day nor a count was cut short.
ValueInv ==
  /\ counting # None => directed /\ counting.to = Shown(index)
  /\ text \in {Shown(index), "partial"}
  /\ counting = None /\ text = "partial" => ~directed

\* What the loop has been told: the last entry is what holds, and one callback that had
\* both kinds has left it seen.
LoopInv ==
  /\ reports # {} => IF "seen" \in holds THEN TRUE \in reports ELSE FALSE \in reports
  /\ reports = {} => (observed <=> "seen" \in holds) \/ (observed /\ mixed)
  /\ queued = {} => (running <=> Runs(observed))

OpeningInv == OpeningTypes /\ ValueInv /\ LoopInv

\* A day that is shown has a coverage, and the next day is one.
LEMMA DaysAre ==
  ASSUME percent \in [Day -> Coverage], NEW i \in Day
  PROVE  Shown(i) \in Coverage /\ Shown(i) # "partial" /\ nextDay(i) \in Day
  <1>0. Days \in Nat /\ Days > 0 /\ "partial" \notin Coverage
    BY OpeningAssumption
  <1>1. Shown(i) \in Coverage
    BY DEF Shown
  <1>2. i + 1 \in Nat
    BY <1>0 DEF Day
  <1>3. nextDay(i) \in Day
    BY <1>0, <1>2 DEF nextDay, Day
  <1> QED BY <1>0, <1>1, <1>3

\* A timeline that is started counts to its value, and only with motion.
LEMMA StartIs ==
  ASSUME NEW value \in Coverage, heroFrom \in Coverage \cup {None}, Start(value)
  PROVE  /\ directed' \in BOOLEAN /\ heroFrom' \in Coverage \cup {None}
         /\ counting' \in [from: Coverage, to: Coverage] \cup {None}
         /\ counting' # None => directed' /\ counting'.to = value
         /\ counting' = None => ~directed'
  <1> USE OpeningAssumption
  <1>1. /\ Count(value) \in [from: Coverage, to: Coverage] /\ Count(value).to = value
        /\ Count(value) # None
    BY DEF Count
  <1>2. CASE "moving" \in holds
    BY <1>1, <1>2 DEF Start
  <1>3. CASE "moving" \notin holds
    BY <1>3 DEF Start
  <1> QED BY <1>2, <1>3

\* The server has rendered the latest day.
LEMMA OpeningStart == OpeningInit => OpeningInv
  <1> SUFFICES ASSUME OpeningInit PROVE OpeningInv
    OBVIOUS
  <1> USE OpeningAssumption
  <1>0. /\ percent \in [Day -> Coverage] /\ index = Days - 1
        /\ running = FALSE /\ observed = FALSE /\ holds \in SUBSET Signal /\ queued = {}
        /\ mixed = FALSE /\ reports = {"seen" \in holds}
        /\ text = percent[index] /\ directed = ("moving" \in holds)
        /\ heroFrom = IF directed THEN percent[index] ELSE None
        /\ counting = IF directed THEN [from |-> percent[index], to |-> percent[index]] ELSE None
    BY DEF OpeningInit
  <1>1. index \in Day
    BY <1>0 DEF Day
  <1>2. percent[index] = Shown(index) /\ Shown(index) \in Coverage /\ Shown(index) # "partial"
    BY <1>0, <1>1, DaysAre DEF Shown
  <1>6. directed \in BOOLEAN
    BY <1>0
  <1>7. /\ heroFrom \in Coverage \cup {None}
        /\ counting \in [from: Coverage, to: Coverage] \cup {None}
    <2> DEFINE value == percent[index]
    <2>1. value \in Coverage
      BY <1>2
    <2>2. /\ heroFrom = IF directed THEN value ELSE None
          /\ counting = IF directed THEN [from |-> value, to |-> value] ELSE None
      BY <1>0
    <2> HIDE DEF value
    <2> QED BY <2>1, <2>2
  <1>8. /\ reports \subseteq BOOLEAN /\ reports # {}
        /\ IF "seen" \in holds THEN TRUE \in reports ELSE FALSE \in reports
    <2> DEFINE b == "seen" \in holds
    <2>1. b \in BOOLEAN /\ reports = {b}
      BY <1>0
    <2>2. b <=> "seen" \in holds
      OBVIOUS
    <2> HIDE DEF b
    <2> QED BY <2>1, <2>2
  <1>3. OpeningTypes
    BY <1>0, <1>1, <1>6, <1>7, <1>8 DEF OpeningTypes, Signal
  <1>4. ValueInv
    BY <1>0, <1>2 DEF ValueInv
  <1>5. LoopInv
    BY <1>0, <1>8 DEF LoopInv, Runs
  <1> QED BY <1>3, <1>4, <1>5 DEF OpeningInv

\* A signal changes before it is told.
LEMMA ChangeStep ==
  ASSUME OpeningInv, NEW s \in Signal, Change(s)
  PROVE  OpeningInv'
  <1>0. /\ OpeningTypes /\ ValueInv /\ LoopInv
        /\ holds' = IF s \in holds THEN holds \ {s} ELSE holds \cup {s}
        /\ percent' = percent /\ index' = index /\ running' = running /\ observed' = observed
        /\ directed' = directed /\ text' = text /\ heroFrom' = heroFrom /\ counting' = counting
        /\ mixed' = mixed
    BY DEF OpeningInv, Change
  <1>1. CASE s = "seen"
    <2> DEFINE b == s \in holds'
    <2>0. /\ reports' = (IF s = "seen" THEN reports \cup {b} ELSE reports)
          /\ queued' = (IF s = "seen" THEN queued ELSE queued \cup {s})
      BY Zenon DEF Change
    <2>3. b \in BOOLEAN
      OBVIOUS
    <2>2. b <=> "seen" \in holds'
      BY <1>1
    <2> HIDE DEF b
    <2>1. b \in BOOLEAN /\ reports' = reports \cup {b} /\ queued' = queued
      BY <1>1, <2>0, <2>3
    <2>9. reports' # {} /\ IF "seen" \in holds' THEN TRUE \in reports' ELSE FALSE \in reports'
      BY <2>1, <2>2
    <2>4. "moving" \in holds' <=> "moving" \in holds
      BY <1>0, <1>1
    <2>5. "shown" \in holds' <=> "shown" \in holds
      BY <1>0, <1>1
    <2>6. queued' = {} => (running' <=> Runs(observed)')
      BY <1>0, <2>1, <2>4, <2>5 DEF LoopInv, Runs
    <2>7. OpeningTypes'
      BY <1>0, <1>1, <2>1 DEF OpeningTypes
    <2>8. ValueInv'
      BY <1>0 DEF ValueInv, Shown
    <2> QED BY <2>6, <2>7, <2>8, <2>9 DEF OpeningInv, LoopInv
  <1>2. CASE s # "seen"
    <2>1. reports' = reports /\ queued' = queued \cup {s}
      BY <1>2 DEF Change
    <2>2. "seen" \in holds' <=> "seen" \in holds
      BY <1>0, <1>2
    <2>3. OpeningTypes'
      BY <1>0, <1>2, <2>1 DEF OpeningTypes
    <2>4. ValueInv'
      BY <1>0 DEF ValueInv, Shown
    <2>5. LoopInv'
      BY <1>0, <2>1, <2>2 DEF LoopInv
    <2> QED BY <2>3, <2>4, <2>5 DEF OpeningInv
  <1> QED BY <1>1, <1>2

\* The observer's callback has all the entries since the last.
LEMMA ObserveStep ==
  ASSUME OpeningInv, Observe
  PROVE  OpeningInv'
  <1> DEFINE some == TRUE \in reports
             both == reports = BOOLEAN
             run == Runs(some)
  <1>0. /\ OpeningTypes /\ ValueInv /\ LoopInv
        /\ reports # {} /\ reports' = {} /\ observed' = some /\ mixed' = both
        /\ percent' = percent /\ index' = index /\ holds' = holds /\ queued' = queued
        /\ directed' = directed /\ text' = text /\ heroFrom' = heroFrom /\ counting' = counting
    BY DEF OpeningInv, Observe, SomeSeen
  <1>1. running' = run
    <2>1. observed' = some /\ running' = Runs(observed')
      BY DEF Observe, SomeSeen
    <2> HIDE DEF some
    <2> QED BY <2>1
  <1>2. /\ some \in BOOLEAN /\ both \in BOOLEAN /\ run \in BOOLEAN
        /\ run <=> some /\ "moving" \in holds /\ "shown" \in holds
    BY DEF Runs
  <1>3. (some <=> "seen" \in holds) \/ (some /\ both)
    <2>1. reports \subseteq BOOLEAN
      BY <1>0 DEF OpeningTypes
    <2>2. IF "seen" \in holds THEN TRUE \in reports ELSE FALSE \in reports
      BY <1>0 DEF LoopInv
    <2>3. TRUE \in reports /\ FALSE \in reports => reports = BOOLEAN
      BY <2>1
    <2> QED BY <2>2, <2>3
  <1> HIDE DEF some, both, run
  <1>4. OpeningTypes'
    BY <1>0, <1>1, <1>2 DEF OpeningTypes
  <1>5. ValueInv'
    BY <1>0 DEF ValueInv, Shown
  <1>6. LoopInv'
    BY <1>0, <1>1, <1>2, <1>3 DEF LoopInv, Runs
  <1> QED BY <1>4, <1>5, <1>6 DEF OpeningInv

\* The loop and the timeline hear of a signal.
LEMMA SyncStep ==
  ASSUME OpeningInv, NEW s \in Signal, Sync(s)
  PROVE  OpeningInv'
  <1>0. /\ OpeningTypes /\ ValueInv /\ LoopInv
        /\ s \in queued /\ queued' = queued \ {s}
        /\ observed' = observed /\ reports' = reports /\ mixed' = mixed
        /\ running' = Runs(observed)
        /\ percent' = percent /\ index' = index /\ holds' = holds /\ text' = text
    BY DEF OpeningInv, Sync
  <1>1. /\ percent \in [Day -> Coverage] /\ index \in Day /\ heroFrom \in Coverage \cup {None}
        /\ Shown(index)' = Shown(index)
    BY <1>0 DEF OpeningTypes, Shown
  <1>2. Shown(index) \in Coverage /\ Shown(index) # "partial"
    BY <1>1, DaysAre
  <1>3. \/ Start(Shown(index))
        \/ directed' = directed /\ heroFrom' = heroFrom /\ counting' = counting
    BY DEF Sync
  <1>4. /\ directed' \in BOOLEAN /\ heroFrom' \in Coverage \cup {None}
        /\ counting' \in [from: Coverage, to: Coverage] \cup {None}
        /\ counting' # None => directed' /\ counting'.to = Shown(index)
        /\ counting' = None /\ text = "partial" => ~directed'
    <2>1. CASE Start(Shown(index))
      <3> DEFINE value == Shown(index)
      <3>1. value \in Coverage /\ Start(value)
        BY <1>2, <2>1
      <3> HIDE DEF value
      <3>2. /\ directed' \in BOOLEAN /\ heroFrom' \in Coverage \cup {None}
            /\ counting' \in [from: Coverage, to: Coverage] \cup {None}
            /\ counting' # None => directed' /\ counting'.to = value
            /\ counting' = None => ~directed'
        BY <1>1, <3>1, StartIs
      <3> QED BY <3>2 DEF value
    <2>2. CASE directed' = directed /\ heroFrom' = heroFrom /\ counting' = counting
      BY <1>0, <2>2 DEF OpeningTypes, ValueInv
    <2> QED BY <1>3, <2>1, <2>2
  <1>5. running' \in BOOLEAN /\ (running' <=> Runs(observed)')
    BY <1>0 DEF OpeningTypes, Runs
  <1>6. OpeningTypes'
    BY <1>0, <1>4, <1>5 DEF OpeningTypes
  <1>7. ValueInv'
    BY <1>0, <1>1, <1>4 DEF ValueInv
  <1>8. LoopInv'
    BY <1>0, <1>5 DEF LoopInv
  <1> QED BY <1>6, <1>7, <1>8 DEF OpeningInv

\* The next day is shown, and counted to with motion.
LEMMA AdvanceStep ==
  ASSUME OpeningInv, Advance
  PROVE  OpeningInv'
  <1>0. /\ OpeningTypes /\ ValueInv /\ LoopInv /\ counting = None
        /\ index' = nextDay(index)
        /\ text' = (IF Shown(index') = Shown(index) THEN text ELSE Shown(index'))
        /\ Start(Shown(index'))
        /\ percent' = percent /\ running' = running /\ holds' = holds /\ queued' = queued
        /\ observed' = observed /\ reports' = reports /\ mixed' = mixed
    BY DEF OpeningInv, Advance
  <1> DEFINE value == Shown(index')
  <1>1. /\ percent \in [Day -> Coverage] /\ index \in Day /\ heroFrom \in Coverage \cup {None}
    BY <1>0 DEF OpeningTypes
  <1>2. index' \in Day
    BY <1>0, <1>1, DaysAre
  <1>3. value \in Coverage /\ value # "partial" /\ Shown(index)' = value
    BY <1>0, <1>1, <1>2, DaysAre DEF Shown
  <1>4. Start(value) /\ text' = (IF value = Shown(index) THEN text ELSE value)
    BY <1>0
  <1> HIDE DEF value
  <1>5. /\ directed' \in BOOLEAN /\ heroFrom' \in Coverage \cup {None}
        /\ counting' \in [from: Coverage, to: Coverage] \cup {None}
        /\ counting' # None => directed' /\ counting'.to = value
        /\ counting' = None => ~directed'
    BY <1>1, <1>3, <1>4, StartIs
  <1>6. text' \in {value, "partial"}
    BY <1>0, <1>4 DEF ValueInv
  <1>7. OpeningTypes'
    BY <1>0, <1>2, <1>5 DEF OpeningTypes
  <1>8. ValueInv'
    BY <1>3, <1>5, <1>6 DEF ValueInv
  <1>9. LoopInv'
    BY <1>0 DEF LoopInv, Runs
  <1> QED BY <1>7, <1>8, <1>9 DEF OpeningInv

\* A count goes on, or is over.
LEMMA ValueStep ==
  ASSUME OpeningInv, ValueUpdates \/ ValueCompletes
  PROVE  OpeningInv'
  <1>0. /\ OpeningTypes /\ ValueInv /\ LoopInv /\ counting # None
        /\ percent' = percent /\ index' = index /\ running' = running /\ holds' = holds
        /\ queued' = queued /\ observed' = observed /\ directed' = directed /\ heroFrom' = heroFrom
        /\ reports' = reports /\ mixed' = mixed
        /\ \/ text' = "partial" /\ counting' = counting
           \/ text' = counting.to /\ counting' = None
    BY DEF OpeningInv, ValueUpdates, ValueCompletes
  <1>1. Shown(index)' = Shown(index) /\ Shown(index) # "partial"
    BY <1>0, DaysAre DEF Shown, OpeningTypes
  <1>2. OpeningTypes'
    BY <1>0 DEF OpeningTypes
  <1>3. ValueInv'
    BY <1>0, <1>1 DEF ValueInv
  <1>4. LoopInv'
    BY <1>0 DEF LoopInv, Runs
  <1> QED BY <1>2, <1>3, <1>4 DEF OpeningInv

\* Every step of the opening preserves the invariant.
LEMMA OpeningInvStep == OpeningInv /\ [OpeningNext]_openingVars => OpeningInv'
  <1> SUFFICES ASSUME OpeningInv, [OpeningNext]_openingVars PROVE OpeningInv'
    OBVIOUS
  <1>1. CASE UNCHANGED openingVars
    BY <1>1 DEF openingVars, OpeningInv, OpeningTypes, ValueInv, LoopInv, Runs, Shown
  <1> QED BY <1>1, ChangeStep, ObserveStep, SyncStep, AdvanceStep, ValueStep DEF OpeningNext

\* What the invariant says of the opening.
LEMMA OpeningGives == OpeningInv => OpeningTypeOK /\ ValueShowsTheDay /\ LoopRunsIfSeen
  <1> SUFFICES ASSUME OpeningInv PROVE OpeningTypeOK /\ ValueShowsTheDay /\ LoopRunsIfSeen
    OBVIOUS
  <1>0. OpeningTypes /\ ValueInv /\ LoopInv
    BY DEF OpeningInv
  <1>1. Shown(index) \in Coverage
    BY <1>0, DaysAre DEF OpeningTypes
  <1>2. OpeningTypeOK
    BY <1>0, <1>1 DEF OpeningTypeOK, OpeningTypes, ValueInv
  <1>3. ValueShowsTheDay
    BY <1>0 DEF ValueShowsTheDay, ValueInv
  <1>4. LoopRunsIfSeen
    <2> SUFFICES ASSUME queued = {}, reports = {}
                 PROVE  /\ holds = Signal => running
                        /\ running => holds = Signal \/ (mixed /\ holds = Signal \ {"seen"})
      BY DEF LoopRunsIfSeen
    <2>1. /\ running <=> observed /\ "moving" \in holds /\ "shown" \in holds
          /\ (observed <=> "seen" \in holds) \/ (observed /\ mixed)
      BY <1>0 DEF LoopInv, Runs
    <2>2. /\ (holds = Signal) <=> "seen" \in holds /\ "moving" \in holds /\ "shown" \in holds
          /\ "seen" \notin holds /\ "moving" \in holds /\ "shown" \in holds => holds = Signal \ {"seen"}
      BY <1>0 DEF OpeningTypes, Signal
    <2> QED BY <2>1, <2>2
  <1> QED BY <1>2, <1>3, <1>4
-----------------------------------------------------------------------------
(* The pinned chapter.                                                     *)

\* Where the buttons scroll to.
Offsets == {stepOffset(n) : n \in StageStep}

\* A trigger knows the scroll, pinned or not, and has told the step, unless nothing was
\* scrolled; before there is one, only a button moves the step; a button's scroll ends with
\* the pin.
StageInv ==
  /\ StageTypeOK
  /\ trigger # None => trigger = scroll
  /\ trigger = None => picked \/ step = 1
  /\ StepFollowsScroll
  /\ goal # None => pinned /\ goal \in Offsets

\* The steps of the scroll.
LEMMA StepsAre ==
  ASSUME NEW at \in 0 .. 100
  PROVE  /\ stepAt(at) \in StageStep
         /\ 5 * at > 105 => stepAt(at) >= 2
         /\ 5 * at > 205 => stepAt(at) >= 3
         /\ 5 * at > 405 => stepAt(at) >= 5
  BY DEF stepAt, StageStep, Steps

\* The middle of a step is in the step, and is where its button scrolls to.
LEMMA OffsetsAre ==
  ASSUME NEW at \in Offsets
  PROVE  at \in 0 .. 100 /\ at # 0 /\ stepOffset(stepAt(at)) = at
  <1>1. PICK n \in StageStep : at = stepOffset(n)
    BY DEF Offsets
  <1>2. n = 1 \/ n = 2 \/ n = 3 \/ n = 4 \/ n = 5
    BY DEF StageStep, Steps
  <1>3. at = 9 \/ at = 29 \/ at = 49 \/ at = 69 \/ at = 89
    BY <1>1, <1>2 DEF stepOffset, Steps
  <1> QED BY <1>3 DEF stepOffset, stepAt, Steps

\* The chapter is not pinned before its effect has run.
LEMMA StageStart == StageInit => StageInv
  <1> SUFFICES ASSUME StageInit PROVE StageInv
    OBVIOUS
  <1>1. StageTypeOK
    <2>1. matches \in [now: BOOLEAN, queued: BOOLEAN]
      BY DEF StageInit
    <2>2. step \in StageStep /\ scroll \in 0 .. 100
      BY StageAssumption DEF StageInit, StageStep, Steps
    <2>3. pinned => trigger # None
      BY DEF StageInit
    <2>4. pinned \in BOOLEAN /\ picked \in BOOLEAN
      BY DEF StageInit
    <2>5. scrubbed \in 0 .. 100
      BY DEF StageInit
    <2>6. trigger \in 0 .. 100 \cup {None} /\ goal \in 0 .. 100 \cup {None}
      BY Zenon DEF StageInit
    <2> QED BY <2>1, <2>2, <2>3, <2>4, <2>5, <2>6 DEF StageTypeOK
  <1> QED BY <1>1 DEF StageInit, StageInv, StepFollowsScroll

\* The screen changes before the page is told.
LEMMA ChangeScreenStep ==
  ASSUME StageInv, ChangeScreen
  PROVE  StageInv'
  <1>1. StageTypeOK'
    BY DEF StageInv, ChangeScreen, StageTypeOK
  <1> QED BY <1>1 DEF StageInv, ChangeScreen, StepFollowsScroll

\* A trigger that hears of the scroll tells its step.
LEMMA ToldStep ==
  ASSUME StageInv, scroll' \in 0 .. 100, Told(scroll'), goal' = None, scrubbed' = scrubbed,
         matches' \in [now: BOOLEAN, queued: BOOLEAN], pinned' \in BOOLEAN,
         pinned' => pinned
  PROVE  StageInv'
  <1> USE StageAssumption
  <1>0. StageTypeOK
    BY DEF StageInv
  <1>1. CASE trigger \in {None, scroll'}
    <2>1. step' = step /\ trigger' = trigger /\ picked' = picked
      BY <1>1 DEF Told
    <2>2. StageTypeOK'
      BY <1>0, <2>1 DEF StageTypeOK
    <2>3. trigger # None => scroll' = scroll
      BY <1>1 DEF StageInv
    <2>4. StepFollowsScroll'
      BY <2>1, <2>3 DEF StageInv, StepFollowsScroll, StageTypeOK
    <2> QED BY <1>1, <2>1, <2>2, <2>4 DEF StageInv
  <1>2. CASE trigger \notin {None, scroll'}
    <2>1. step' = stepAt(scroll') /\ trigger' = scroll' /\ picked' = FALSE
      BY <1>2 DEF Told
    <2>2. step' \in StageStep /\ scroll' # None
      BY <2>1, StepsAre
    <2>3. StageTypeOK'
      BY <1>0, <2>1, <2>2 DEF StageTypeOK
    <2> QED BY <2>1, <2>2, <2>3 DEF StageInv, StepFollowsScroll
  <1> QED BY <1>1, <1>2

\* The chapter is pinned or let go.
LEMMA SyncPinnedStep ==
  ASSUME StageInv, SyncPinned
  PROVE  StageInv'
  <1> USE StageAssumption
  <1>0. /\ StageTypeOK /\ matches' = [matches EXCEPT !.queued = FALSE] /\ pinned' = matches.now
    BY DEF StageInv, SyncPinned
  <1>1. matches' \in [now: BOOLEAN, queued: BOOLEAN] /\ matches.now \in BOOLEAN
    BY <1>0 DEF StageTypeOK
  <1>2. CASE matches.now = pinned
    <2>1. /\ pinned' = pinned /\ step' = step /\ scroll' = scroll /\ trigger' = trigger
          /\ scrubbed' = scrubbed /\ goal' = goal /\ picked' = picked
      BY <1>0, <1>2 DEF SyncPinned
    <2>2. StageTypeOK'
      BY <1>0, <1>1, <2>1 DEF StageTypeOK
    <2> QED BY <2>1, <2>2 DEF StageInv, StepFollowsScroll
  <1>3. CASE matches.now # pinned /\ matches.now
    <2>1. /\ scroll' \in ScrollAt /\ goal' = None /\ scrubbed' = scrubbed /\ PinnedAt(scroll')
      BY <1>3 DEF SyncPinned
    <2> DEFINE tells == scroll' > 0 \/ trigger \notin {None, scroll'}
               still == picked /\ ~tells
    <2>2. /\ trigger' = scroll' /\ step' = (IF tells THEN stepAt(scroll') ELSE step)
          /\ picked' = still /\ scroll' \in 0 .. 100 /\ trigger' # None
      BY <2>1 DEF PinnedAt, TellsOnPin
    <2>3. picked' \in BOOLEAN /\ pinned' /\ pinned' \in BOOLEAN
      BY <1>0, <1>1, <1>3, <2>2
    <2>4. step' \in StageStep
      BY <1>0, <2>2, StepsAre DEF StageTypeOK
    <2>5. step' = stepAt(scroll') \/ (picked' /\ scroll' = 0)
      <3>1. CASE tells
        BY <2>2, <3>1
      <3>2. CASE ~tells
        <4>0. picked => still
          BY <3>2
        <4>4. scroll' = 0 /\ trigger \in {None, 0}
          BY <2>2, <3>2
        <4>1. scroll' = 0 /\ trigger \in {None, 0} /\ step' = step /\ (picked => picked')
          <5> HIDE DEF tells, still
          <5> QED BY <2>2, <3>2, <4>0, <4>4
        <4>2. stepAt(0) = 1
          BY DEF stepAt, Steps
        <4>3. picked \/ step = 1
          BY <4>1, <4>2 DEF StageInv, StepFollowsScroll
        <4> QED BY <4>1, <4>2, <4>3
      <3> QED BY <3>1, <3>2
    <2>6. StageTypeOK'
      BY <1>0, <1>1, <2>1, <2>2, <2>3, <2>4 DEF StageTypeOK
    <2> QED BY <2>1, <2>2, <2>5, <2>6 DEF StageInv, StepFollowsScroll
  <1>4. CASE matches.now # pinned /\ ~matches.now
    <2>1. /\ scroll' \in 0 .. 100 /\ goal' = None /\ scrubbed' = scrubbed /\ Told(scroll')
          /\ ~pinned' /\ pinned' \in BOOLEAN
      BY <1>0, <1>1, <1>4 DEF SyncPinned
    <2> QED BY <1>1, <2>1, ToldStep
  <1> QED BY <1>1, <1>2, <1>3, <1>4

\* The window is scrolled, and the trigger told.
LEMMA ScrolledStep ==
  ASSUME StageInv, NEW at \in 0 .. 100, ScrolledTo(at), goal' = None
  PROVE  StageInv' /\ (pinned' /\ at # 0 => step' = stepAt(at))
  <1>1. /\ scroll' = at /\ matches' = matches /\ pinned' = pinned /\ scrubbed' = scrubbed
        /\ Told(scroll')
    BY DEF ScrolledTo
  <1>2. /\ pinned \in BOOLEAN /\ matches \in [now: BOOLEAN, queued: BOOLEAN]
    BY DEF StageInv, StageTypeOK
  <1>3. StageInv'
    BY <1>1, <1>2, ToldStep
  <1>4. pinned' => step' = stepAt(at) \/ at = 0
    BY <1>1, <1>3 DEF StageInv, StageTypeOK, StepFollowsScroll
  <1> QED BY <1>3, <1>4

\* The timeline catches up, or a button is pressed.
LEMMA ScrubOrGoToStep ==
  ASSUME StageInv, Scrub \/ \E n \in StageStep : goTo(n)
  PROVE  StageInv'
  <1>0. StageTypeOK
    BY DEF StageInv
  <1>1. CASE Scrub
    <2>1. StageTypeOK'
      BY <1>0, <1>1 DEF Scrub, StageTypeOK
    <2> QED BY <1>1, <2>1 DEF Scrub, StageInv, StepFollowsScroll
  <1>2. ASSUME NEW n \in StageStep, goTo(n)
        PROVE  StageInv'
    <2>0. /\ matches' = matches /\ pinned' = pinned /\ scroll' = scroll /\ trigger' = trigger
          /\ scrubbed' = scrubbed
      BY <1>2 DEF goTo
    <2>1. CASE pinned
      <3>1. goal' = stepOffset(n) /\ step' = step /\ picked' = picked
        BY <1>0, <1>2, <2>1 DEF goTo, StageTypeOK
      <3>2. goal' \in Offsets /\ goal' \in 0 .. 100
        BY <3>1, OffsetsAre DEF Offsets
      <3>3. StageTypeOK'
        BY <1>0, <2>0, <3>1, <3>2 DEF StageTypeOK
      <3> QED BY <2>0, <2>1, <3>1, <3>2, <3>3 DEF StageInv, StepFollowsScroll
    <2>2. CASE ~pinned
      <3>1. step' = n /\ goal' = goal /\ picked' = TRUE
        BY <1>2, <2>2 DEF goTo
      <3>2. StageTypeOK'
        BY <1>0, <2>0, <3>1 DEF StageTypeOK
      <3> QED BY <2>0, <2>2, <3>1, <3>2 DEF StageInv, StepFollowsScroll
    <2> QED BY <2>1, <2>2
  <1> QED BY <1>1, <1>2

\* Every step of the chapter preserves the invariant, and a button's scroll ends at its step.
LEMMA StageInvStep ==
  StageInv /\ [StageNext]_stageVars =>
    /\ StageInv'
    /\ goal # None /\ goal' = None /\ scroll' = goal /\ pinned' => stepOffset(step') = goal
  <1> SUFFICES ASSUME StageInv, [StageNext]_stageVars
               PROVE  /\ StageInv'
                      /\ goal # None /\ goal' = None /\ scroll' = goal /\ pinned' => stepOffset(step') = goal
    OBVIOUS
  <1> USE StageAssumption
  <1>1. CASE UNCHANGED stageVars
    BY <1>1 DEF stageVars, StageInv, StageTypeOK, StepFollowsScroll
  <1>2. CASE ChangeScreen
    BY <1>2, ChangeScreenStep DEF ChangeScreen
  <1>3. CASE SyncPinned
    <2>1. goal # None => pinned
      BY DEF StageInv
    <2>2. goal # None /\ goal' = None => ~pinned'
      BY <1>3, <2>1 DEF SyncPinned
    <2> QED BY <1>3, <2>2, SyncPinnedStep
  <1>4. CASE ScrollBy \/ Arrive
    <2>1. PICK at \in 0 .. 100 : ScrolledTo(at)
      BY <1>4 DEF ScrollBy, Arrive, StageInv, StageTypeOK
    <2>2. goal' = None /\ scroll' = at
      BY <1>4, <2>1 DEF ScrollBy, Arrive, ScrolledTo
    <2>3. StageInv' /\ (pinned' /\ at # 0 => step' = stepAt(at))
      BY <2>1, <2>2, ScrolledStep
    <2>4. goal # None => goal \in Offsets
      BY DEF StageInv
    <2> QED BY <2>2, <2>3, <2>4, OffsetsAre
  <1>5. CASE Scrub \/ \E n \in StageStep : goTo(n)
    <2>1. goal # None => goal' # None
      <3>1. CASE Scrub
        BY <3>1 DEF Scrub
      <3>2. ASSUME NEW n \in StageStep, goTo(n), goal # None
            PROVE  goal' # None
        BY <3>2, OffsetsAre DEF goTo, StageInv, StageTypeOK, Offsets
      <3> QED BY <1>5, <3>1, <3>2
    <2> QED BY <1>5, <2>1, ScrubOrGoToStep
  <1> QED BY <1>1, <1>2, <1>3, <1>4, <1>5 DEF StageNext

\* What the invariant says of the chapter.
LEMMA StageGives == StageInv => StageTypeOK /\ StepFollowsScroll /\ NothingBeforeItsStep
  <1> SUFFICES ASSUME StageInv PROVE StageTypeOK /\ StepFollowsScroll /\ NothingBeforeItsStep
    OBVIOUS
  <1>1. StageTypeOK /\ StepFollowsScroll /\ step \in 1 .. 5
    BY DEF StageInv, StageTypeOK, StageStep, Steps
  <1>2. step >= 5 => RingLabel = "VERIFIED"
    BY <1>1 DEF RingLabel
  <1>3. \A p \in Part : \/ PartStep[p] = 2 /\ Begins[p] >= 105
                        \/ PartStep[p] = 3 /\ Begins[p] >= 205
                        \/ PartStep[p] = 5 /\ Begins[p] >= 405
    <2>1. Part = {"tree_line", "node", "tree_caption", "proof_line", "proof_label",
                  "bar_label", "bar", "bar_mark", "record"}
      BY DEF Part, Begins
    <2>2. \A p \in {"tree_line", "node", "tree_caption"} : PartStep[p] = 2 /\ Begins[p] >= 105
      BY <2>1 DEF Begins, PartStep
    <2>3. \A p \in {"proof_line", "proof_label", "bar_label", "bar", "bar_mark"} :
            PartStep[p] = 3 /\ Begins[p] >= 205
      BY <2>1 DEF Begins, PartStep
    <2>4. PartStep["record"] = 5 /\ Begins["record"] >= 405
      BY <2>1 DEF Begins, PartStep
    <2> QED BY <2>1, <2>2, <2>3, <2>4
  <1>4. PartStep["record"] = 5 /\ \A p \in Part : Begins[p] \in Nat
    BY DEF PartStep, Part, Begins
  <1> SUFFICES ASSUME trigger = None \/ scrubbed = trigger
               PROVE  /\ \A p \in Seen : step >= PartStep[p] \/ (p = "record" /\ trigger # None /\ ~pinned /\ picked)
                      /\ "record" \in Seen => step >= 5 \/ (trigger # None /\ ~pinned /\ picked)
    BY <1>1, <1>2 DEF NothingBeforeItsStep
  <1>5. \A p \in AtStep : p \in Part /\ step >= PartStep[p]
    BY DEF AtStep
  <1>6. CASE trigger = None
    BY <1>4, <1>5, <1>6 DEF Seen
  <1>7. CASE trigger # None
    <2>1. scrubbed = scroll /\ scroll \in 0 .. 100
      BY <1>1, <1>7 DEF StageInv, StageTypeOK
    <2>2. \A p \in Drawn : p \in Part /\ scroll * 5 > Begins[p]
      BY <2>1 DEF Drawn, Steps
    <2>3. ASSUME NEW p \in Drawn, step = stepAt(scroll)
          PROVE  step >= PartStep[p]
      <3>1. /\ 5 * scroll > 105 => step >= 2
            /\ 5 * scroll > 205 => step >= 3
            /\ 5 * scroll > 405 => step >= 5
        BY <2>1, <2>3, StepsAre
      <3>2. 5 * scroll > Begins[p] /\ Begins[p] \in Nat /\ p \in Part
        BY <1>4, <2>1, <2>2
      <3> QED BY <1>1, <1>3, <2>1, <3>1, <3>2
    <2>4. Drawn # {} => scroll # 0
      BY <1>4, <2>2
    <2>5. CASE pinned
      <3>1. Seen = Drawn
        BY <1>7, <2>5 DEF Seen
      <3>2. Drawn # {} => step = stepAt(scroll)
        BY <1>1, <1>7, <2>4, <2>5 DEF StepFollowsScroll
      <3> QED BY <1>4, <2>3, <3>1, <3>2
    <2>6. CASE ~pinned
      <3>1. \A p \in Seen : p \in AtStep \/ (p = "record" /\ p \in Drawn)
        BY <1>7, <2>6 DEF Seen
      <3>2. step = stepAt(scroll) \/ picked
        BY <1>1, <1>7 DEF StepFollowsScroll
      <3> QED BY <1>4, <1>5, <1>7, <2>3, <2>6, <3>1, <3>2
    <2> QED BY <2>5, <2>6
  <1> QED BY <1>6, <1>7
-----------------------------------------------------------------------------
(* The example record.                                                     *)

DayType ==
  [state: {"covered", "short", "stale"}, owed: Nat \ {0}, held: Nat, ledger: Int \cup {None}]

\* Day i of the days s is what buildHistory makes of it.
DayOK(s, i, p) ==
  /\ i = DaysKept => s[i] = [state |-> stateOf(Owed, p.held), owed |-> Owed, held |-> p.held, ledger |-> 3412088]
  /\ i # DaysKept /\ i - 1 \in p.staleDays =>
       /\ s[i].state = "stale" /\ s[i].ledger = None
       /\ (\A j \in 1 .. i - 1 : s[j].ledger = None) => s[i].owed = Owed /\ s[i].held = p.held
       /\ \A j \in 1 .. i - 1 :
            s[j].ledger # None /\ (\A k \in 1 .. i - 1 : s[k].ledger # None => k <= j) =>
              s[i].owed = s[j].owed /\ s[i].held = s[j].held
  /\ i # DaysKept /\ i - 1 \notin p.staleDays =>
       /\ s[i].state = stateOf(s[i].owed, s[i].held)
       /\ s[i].ledger = 3412088 - (DaysKept - i) * LedgersPerDay - (((i - 1) * 37) % 211)

\* The first n days of the history of plan p.
HistoryOK(s, n, p) ==
  /\ s \in Seq(DayType) /\ Len(s) = n
  /\ \A i \in 1 .. n : DayOK(s, i, p)

\* The constants are numbers, something is owed on every day.
LEMMA RecordsNumbers ==
  /\ Owed \in Nat /\ Owed > 0 /\ DaysKept \in Nat /\ DaysKept > 0 /\ Growth \in Nat
  /\ Held \subseteq Nat /\ Reserves \subseteq Nat /\ None \notin Int
  /\ \A back \in 0 .. DaysKept : Owed - back * Growth \in Nat \ {0}
  <1>1. /\ Owed \in Nat /\ DaysKept \in Nat /\ DaysKept > 0 /\ Growth \in Nat /\ Growth * DaysKept < Owed
        /\ Held \subseteq Nat /\ Reserves \subseteq Nat /\ None \notin Int
    BY RecordsAssumption
  <1>2. ASSUME NEW back \in 0 .. DaysKept PROVE back * Growth \in Nat /\ back * Growth < Owed
    <2>1. back * Growth <= DaysKept * Growth /\ back * Growth \in Nat
      BY <1>1
    <2>2. DaysKept * Growth = Growth * DaysKept
      BY <1>1
    <2> QED BY <1>1, <2>1, <2>2
  <1>3. Owed > 0
    BY <1>1, <1>2
  <1> QED BY <1>1, <1>2, <1>3

\* A day that is made is one, and is what DayOK says of it.
LEMMA DayIs ==
  ASSUME NEW p \in Plan, NEW n \in Nat, n < DaysKept, NEW s, HistoryOK(s, n, p)
  PROVE  HistoryOK(Append(s, DayResult(s, n, p)), n + 1, p)
  <1> DEFINE d == DayResult(s, n, p)
             z == Append(s, d)
             i == n + 1
             proven == {j \in DOMAIN s : s[j].ledger # None}
             last == CHOOSE j \in proven : \A k \in proven : k <= j
             back == DaysKept - 1 - n
             owed == Owed - back * Growth
             points == IF n \in p.shortDays THEN 9940 ELSE Provable(n)
             held == (owed * points) \div 10000
  <1> USE RecordsNumbers
  <1>0. /\ s \in Seq(DayType) /\ Len(s) = n /\ DOMAIN s = 1 .. n /\ \A j \in 1 .. n : s[j] \in DayType
        /\ \A j \in 1 .. n : DayOK(s, j, p)
        /\ p.held \in Nat
    <2>1. /\ s \in Seq(DayType) /\ Len(s) = n /\ \A j \in 1 .. n : DayOK(s, j, p)
      BY DEF HistoryOK
    <2>2. DOMAIN s = 1 .. n /\ \A j \in 1 .. n : s[j] \in DayType
      BY <2>1
    <2>3. p.held \in Held
      BY DEF Plan
    <2> QED BY <2>1, <2>2, <2>3
  <1>1. back \in 0 .. DaysKept /\ owed \in Nat \ {0} /\ back = DaysKept - i
    <2>1. back \in 0 .. DaysKept /\ back = DaysKept - i
      OBVIOUS
    <2> HIDE DEF back
    <2> QED BY <2>1
  <1>2. points \in Nat
    BY DEF Provable
  <1>3. held \in Nat
    <2> HIDE DEF owed, points
    <2>1. owed * points \in Nat
      BY <1>1, <1>2
    <2> QED BY <2>1
  <1>4. \A o \in Nat, h \in Nat : stateOf(o, h) \in {"covered", "short"}
    BY DEF stateOf
  <1>5. d = IF back = 0
            THEN [state |-> stateOf(Owed, p.held), owed |-> Owed, held |-> p.held, ledger |-> 3412088]
            ELSE IF n \in p.staleDays
            THEN [state |-> "stale", owed |-> LastProven(s, p).owed, held |-> LastProven(s, p).held, ledger |-> None]
            ELSE [state |-> stateOf(owed, held), owed |-> owed, held |-> held,
                  ledger |-> 3412088 - back * LedgersPerDay - ((n * 37) % 211)]
    BY DEF DayResult
  <1>6. /\ LastProven(s, p) = IF proven = {} THEN [owed |-> Owed, held |-> p.held]
                             ELSE [owed |-> s[last].owed, held |-> s[last].held]
    BY DEF LastProven
  <1>7. proven # {} => last \in proven /\ \A k \in proven : k <= last
    <2> SUFFICES ASSUME proven # {} PROVE \E j \in proven : \A k \in proven : k <= j
      OBVIOUS
    <2> DEFINE T == {n - j : j \in proven}
    <2>1. T \subseteq Nat /\ T # {}
      BY <1>0
    <2>2. PICK x \in T : \A y \in T : x <= y
      <3> HIDE DEF T
      <3> QED BY <2>1, LeastNat
    <2>3. PICK j \in proven : x = n - j
      OBVIOUS
    <2>4. \A k \in proven : n - k \in T /\ k \in Int
      BY <1>0
    <2>5. j \in Int
      BY <1>0
    <2> HIDE DEF T, proven
    <2> QED BY <2>2, <2>3, <2>4, <2>5
  <1> HIDE DEF last
  <1>8. /\ proven = {} => LastProven(s, p).owed = Owed /\ LastProven(s, p).held = p.held
        /\ proven # {} => LastProven(s, p).owed = s[last].owed /\ LastProven(s, p).held = s[last].held
    <2> HIDE DEF proven
    <2> QED BY <1>6
  <1>9. /\ \A j \in 1 .. n : z[j] = s[j]
        /\ z[i] = d /\ Len(z) = i
        /\ d \in DayType => z \in Seq(DayType)
    <2> HIDE DEF d
    <2> QED BY <1>0
  <1>10. LastProven(s, p).owed \in Nat \ {0} /\ LastProven(s, p).held \in Nat
    <2>1. CASE proven = {}
      <3> HIDE DEF proven
      <3> QED BY <2>1, <1>8, <1>0
    <2>2. CASE proven # {}
      <3>1. last \in 1 .. n
        BY <2>2, <1>7, <1>0
      <3>2. s[last] \in DayType
        BY <3>1, <1>0
      <3>3. s[last].owed \in Nat \ {0} /\ s[last].held \in Nat
        BY <3>2 DEF DayType
      <3> HIDE DEF proven
      <3> QED BY <2>2, <1>8, <3>3
    <2> QED BY <2>1, <2>2
  <1>11. d \in DayType /\ DayOK(z, i, p)
    <2>1. CASE back = 0
      <3>1. d = [state |-> stateOf(Owed, p.held), owed |-> Owed, held |-> p.held, ledger |-> 3412088]
        BY <1>5, <2>1
      <3>2. i = DaysKept
        BY <1>1, <2>1
      <3> HIDE DEF d, back
      <3>3. d \in DayType
        BY <3>1, <1>4, <1>0 DEF DayType
      <3>4. DayOK(z, i, p)
        <4> HIDE DEF z, i
        <4> QED BY <3>1, <3>2, <1>9 DEF DayOK
      <3> QED BY <3>3, <3>4
    <2>2. CASE back # 0 /\ n \in p.staleDays
      <3> DEFINE lp == LastProven(s, p)
      <3> HIDE DEF lp
      <3>1. d = [state |-> "stale", owed |-> lp.owed, held |-> lp.held, ledger |-> None]
        BY <1>5, <2>2 DEF lp
      <3>2. i # DaysKept /\ i - 1 \in p.staleDays
        BY <1>1, <2>2
      <3>3. d.state = "stale" /\ d.ledger = None /\ d.owed = lp.owed /\ d.held = lp.held
        <4> HIDE DEF d
        <4> QED BY <3>1
      <3>4. d \in DayType
        <4> HIDE DEF d
        <4> QED BY <3>1, <1>10 DEF DayType, lp
      <3> HIDE DEF d, back
      <3>5. ASSUME \A j \in 1 .. i - 1 : z[j].ledger = None PROVE z[i].owed = Owed /\ z[i].held = p.held
        <4>1. \A j \in 1 .. n : s[j].ledger = None
          BY <3>5, <1>9
        <4>2. proven = {}
          BY <4>1, <1>0
        <4> HIDE DEF proven, z
        <4> QED BY <4>2, <1>8, <1>9, <3>3 DEF lp
      <3>6. ASSUME NEW j \in 1 .. i - 1, z[j].ledger # None, \A k \in 1 .. i - 1 : z[k].ledger # None => k <= j
            PROVE  z[i].owed = z[j].owed /\ z[i].held = z[j].held
        <4>1. j \in 1 .. n /\ z[j] = s[j] /\ s[j].ledger # None /\ \A k \in 1 .. n : s[k].ledger # None => k <= j
          BY <3>6, <1>9
        <4>2. j \in proven
          BY <4>1, <1>0
        <4>3. last \in 1 .. n /\ s[last].ledger # None /\ j <= last
          BY <4>2, <1>7, <1>0
        <4>4. last <= j
          BY <4>1, <4>3
        <4>5. last = j
          BY <4>1, <4>3, <4>4
        <4> HIDE DEF proven, z
        <4> QED BY <4>1, <4>2, <4>5, <1>8, <1>9, <3>3 DEF lp
      <3>7. z[i].state = "stale" /\ z[i].ledger = None
        <4> HIDE DEF z
        <4> QED BY <1>9, <3>3
      <3>8. DayOK(z, i, p)
        <4> HIDE DEF z, i
        <4> QED BY <3>2, <3>5, <3>6, <3>7 DEF DayOK
      <3> QED BY <3>4, <3>8
    <2>3. CASE back # 0 /\ n \notin p.staleDays
      <3> DEFINE ledger == 3412088 - back * LedgersPerDay - ((n * 37) % 211)
      <3>1. d = [state |-> stateOf(owed, held), owed |-> owed, held |-> held, ledger |-> ledger]
        BY <1>5, <2>3
      <3>2. i # DaysKept /\ i - 1 \notin p.staleDays
        BY <1>1, <2>3
      <3>3. ledger \in Int /\ ledger = 3412088 - (DaysKept - i) * LedgersPerDay - (((i - 1) * 37) % 211)
        BY <1>1 DEF LedgersPerDay
      <3> HIDE DEF ledger, owed, held
      <3>4. d \in DayType
        <4> HIDE DEF d
        <4> QED BY <3>1, <3>3, <1>1, <1>3, <1>4 DEF DayType
      <3>5. d.state = stateOf(d.owed, d.held) /\ d.ledger = ledger
        <4> HIDE DEF d
        <4> QED BY <3>1
      <3> HIDE DEF d, back
      <3>6. z[i].state = stateOf(z[i].owed, z[i].held) /\ z[i].ledger = ledger
        <4> HIDE DEF z
        <4> QED BY <1>9, <3>5
      <3>7. DayOK(z, i, p)
        <4> HIDE DEF z, i
        <4> QED BY <3>2, <3>3, <3>6 DEF DayOK
      <3> QED BY <3>4, <3>7
    <2> QED BY <2>1, <2>2, <2>3
  <1>12. \A j \in 1 .. n : DayOK(z, j, p)
    <2> SUFFICES ASSUME NEW j \in 1 .. n PROVE DayOK(z, j, p)
      OBVIOUS
    <2> HIDE DEF z
    <2>1. z[j] = s[j] /\ \A k \in 1 .. j - 1 : z[k] = s[k]
      BY <1>9
    <2>2. DayOK(s, j, p)
      BY <1>0
    <2> QED BY <2>1, <2>2 DEF DayOK
  <1>13. \A j \in 1 .. i : DayOK(z, j, p)
    <2> HIDE DEF z, d
    <2> QED BY <1>11, <1>12
  <1>14. z \in Seq(DayType) /\ Len(z) = i
    <2> HIDE DEF z, d
    <2> QED BY <1>9, <1>11
  <1> HIDE DEF z
  <1>15. HistoryOK(z, n + 1, p)
    BY <1>13, <1>14 DEF HistoryOK
  <1> QED BY <1>15 DEF z, d

\* h makes the first k days of the history of plan p, one by one.
HistoryTo(h, p, k) ==
  h = [n \in 0 .. k |-> IF n = 0 THEN << >> ELSE Append(h[n - 1], DayResult(h[n - 1], n - 1, p))]

\* The history can be made day by day.
LEMMA HistoryExists ==
  ASSUME NEW p
  PROVE  \E h : HistoryTo(h, p, DaysKept)
  <1> DEFINE T == {k \in Nat : \E h : HistoryTo(h, p, k)}
             Next(h, n) == IF n = 0 THEN << >> ELSE Append(h[n - 1], DayResult(h[n - 1], n - 1, p))
  <1> USE RecordsNumbers
  <1>1. 0 \in T
    <2> DEFINE h == [n \in 0 .. 0 |-> << >>]
               v == [n \in 0 .. 0 |-> Next(h, n)]
    <2>1. h = v
      OBVIOUS
    <2>2. HistoryTo(h, p, 0)
      <3> HIDE DEF h
      <3> QED BY <2>1 DEF HistoryTo
    <2> HIDE DEF h
    <2> QED BY <2>2
  <1>2. ASSUME NEW k \in Nat, k \in T
        PROVE  k + 1 \in T
    <2>1. PICK h : HistoryTo(h, p, k)
      BY <1>2
    <2> DEFINE g == [n \in 0 .. (k + 1) |-> Next(h, n)]
               v == [n \in 0 .. (k + 1) |-> Next(g, n)]
    <2>2. \A n \in 0 .. k : h[n] = Next(h, n)
      BY <2>1 DEF HistoryTo
    <2> HIDE DEF Next
    <2>3. \A n \in 0 .. k : g[n] = h[n]
      BY <2>2
    <2>4. \A n \in 0 .. (k + 1) : n # 0 => n - 1 \in 0 .. k
      OBVIOUS
    <2>5. \A n \in 0 .. (k + 1) : Next(g, n) = Next(h, n)
      <3> HIDE DEF g
      <3> QED BY <2>3, <2>4 DEF Next
    <2>6. g = v
      <3>1. \A n \in 0 .. (k + 1) : g[n] = v[n]
        <4>1. \A n \in 0 .. (k + 1) : g[n] = Next(h, n)
          OBVIOUS
        <4>2. \A n \in 0 .. (k + 1) : v[n] = Next(g, n)
          <5> HIDE DEF g
          <5> QED OBVIOUS
        <4> HIDE DEF g, v
        <4> QED BY <4>1, <4>2, <2>5
      <3>2. g = [n \in 0 .. (k + 1) |-> g[n]]
        OBVIOUS
      <3>3. v = [n \in 0 .. (k + 1) |-> v[n]]
        <4> HIDE DEF g
        <4> QED OBVIOUS
      <3> HIDE DEF g, v
      <3> QED BY <3>1, <3>2, <3>3
    <2>7. HistoryTo(g, p, k + 1)
      <3> HIDE DEF g
      <3> QED BY <2>6 DEF HistoryTo, Next
    <2> HIDE DEF g
    <2> QED BY <2>7
  <1>3. Nat \subseteq T
    <2> HIDE DEF T
    <2> QED BY <1>1, <1>2, SetInduction
  <1> QED BY <1>3

\* What buildHistory makes of a plan.
LEMMA HistoryIs ==
  ASSUME NEW p \in Plan
  PROVE  HistoryOK(buildHistory(p), DaysKept, p)
  <1> DEFINE h == CHOOSE h : HistoryTo(h, p, DaysKept)
             T == {k \in Nat : k <= DaysKept => HistoryOK(h[k], k, p)}
  <1> USE RecordsNumbers
  <1>1. HistoryTo(h, p, DaysKept)
    BY HistoryExists
  <1>2. buildHistory(p) = h[DaysKept]
    BY DEF buildHistory, HistoryTo
  <1> HIDE DEF h
  <1>3. \A n \in 0 .. DaysKept : h[n] = IF n = 0 THEN << >> ELSE Append(h[n - 1], DayResult(h[n - 1], n - 1, p))
    BY <1>1 DEF HistoryTo
  <1>4. 0 \in T
    <2>1. h[0] = << >>
      BY <1>3
    <2> DEFINE e == << >>
    <2>2. e \in Seq(DayType) /\ Len(e) = 0 /\ 1 .. 0 = {}
      OBVIOUS
    <2> HIDE DEF e
    <2>3. HistoryOK(e, 0, p)
      BY <2>2 DEF HistoryOK
    <2> QED BY <2>1, <2>3 DEF e
  <1>5. ASSUME NEW k \in Nat, k \in T PROVE k + 1 \in T
    <2> SUFFICES ASSUME k + 1 <= DaysKept PROVE HistoryOK(h[k + 1], k + 1, p)
      OBVIOUS
    <2>1. HistoryOK(h[k], k, p) /\ k < DaysKept
      BY <1>5
    <2> DEFINE n == k + 1
    <2>2. n \in 0 .. DaysKept /\ n # 0 /\ n - 1 = k
      OBVIOUS
    <2> HIDE DEF n
    <2>3. h[n] = Append(h[k], DayResult(h[k], k, p))
      BY <1>3, <2>2
    <2> QED BY <2>1, <2>3, DayIs DEF n
  <1>6. Nat \subseteq T
    <2> HIDE DEF T
    <2> QED BY <1>4, <1>5, SetInduction
  <1> QED BY <1>2, <1>6

\* countStates counts the stale days of a history.
LEMMA StaleIsCounted ==
  ASSUME NEW s, NEW p, HistoryOK(s, DaysKept, p)
  PROVE  \A i \in DOMAIN s : s[i].state = "stale" <=> s[i].ledger = None
  <1> USE RecordsNumbers
  <1> SUFFICES ASSUME NEW i \in DOMAIN s PROVE s[i].state = "stale" <=> s[i].ledger = None
    OBVIOUS
  <1>1. i \in 1 .. DaysKept /\ DayOK(s, i, p) /\ s[i] \in DayType
    BY DEF HistoryOK
  <1>2. CASE i = DaysKept
    <2>1. s[i] = [state |-> stateOf(Owed, p.held), owed |-> Owed, held |-> p.held, ledger |-> 3412088]
      BY <1>1, <1>2 DEF DayOK
    <2>2. s[i].ledger = 3412088 /\ s[i].state = stateOf(Owed, p.held)
      BY <2>1
    <2>3. s[i].state # "stale"
      BY <2>2 DEF stateOf
    <2> QED BY <2>2, <2>3
  <1>3. CASE i # DaysKept /\ i - 1 \in p.staleDays
    BY <1>1, <1>3 DEF DayOK
  <1>4. CASE i # DaysKept /\ i - 1 \notin p.staleDays
    <2>1. /\ s[i].state = stateOf(s[i].owed, s[i].held)
          /\ s[i].ledger = 3412088 - (DaysKept - i) * LedgersPerDay - (((i - 1) * 37) % 211)
      BY <1>1, <1>4 DEF DayOK
    <2>2. s[i].ledger \in Int
      BY <1>1, <2>1 DEF LedgersPerDay
    <2> QED BY <2>1, <2>2 DEF stateOf
  <1> QED BY <1>2, <1>3, <1>4

\* The percentage that is never rounded up.
LEMMA PercentIs ==
  ASSUME NEW owed \in Nat \ {0}, NEW held \in Nat
  PROVE  /\ coveragePercent(owed, held) \in Nat
         /\ coveragePercent(owed, held) >= 10000 <=> held >= owed
         /\ coverageShortfall(owed, held) = 0 <=> held >= owed
  <1>1. coveragePercent(owed, held) = (held * 10000) \div owed
    BY DEF coveragePercent, basisPoints
  <1>2. (held * 10000) \div owed \in Nat
    OBVIOUS
  <1>3. (held * 10000) \div owed >= 10000 <=> held >= owed
    OBVIOUS
  <1>4. coverageShortfall(owed, held) = 0 <=> held >= owed
    BY DEF coverageShortfall
  <1> QED BY <1>1, <1>2, <1>3, <1>4

\* The ledgers of a history's proofs grow.
LEMMA LedgersGrow ==
  ASSUME NEW s, NEW p, HistoryOK(s, DaysKept, p), NEW i \in DOMAIN s, s[i].ledger # None,
         NEW j \in 1 .. i - 1, s[j].ledger # None
  PROVE  s[j].ledger < s[i].ledger
  <1> USE RecordsNumbers
  <1>1. /\ i \in 1 .. DaysKept /\ j \in 1 .. DaysKept /\ j < i /\ j # DaysKept /\ DayOK(s, i, p) /\ DayOK(s, j, p)
    BY DEF HistoryOK
  <1>2. s[j].ledger = 3412088 - (DaysKept - j) * LedgersPerDay - (((j - 1) * 37) % 211)
    BY <1>1 DEF DayOK
  <1>3. ((j - 1) * 37) % 211 \in 0 .. 210 /\ ((i - 1) * 37) % 211 \in 0 .. 210
    <2>1. \A x \in Int : x % 211 \in 0 .. 210
      OBVIOUS
    <2>2. (j - 1) * 37 \in Int /\ (i - 1) * 37 \in Int
      BY <1>1
    <2> QED BY <2>1, <2>2
  <1>4. CASE i = DaysKept
    <2>1. s[i] = [state |-> stateOf(Owed, p.held), owed |-> Owed, held |-> p.held, ledger |-> 3412088]
      BY <1>1, <1>4 DEF DayOK
    <2>2. s[i].ledger = 3412088
      BY <2>1
    <2> QED BY <1>1, <1>2, <1>3, <1>4, <2>2 DEF LedgersPerDay
  <1>5. CASE i # DaysKept
    <2>1. s[i].ledger = 3412088 - (DaysKept - i) * LedgersPerDay - (((i - 1) * 37) % 211)
      BY <1>1, <1>5 DEF DayOK
    <2> QED BY <1>1, <1>2, <1>3, <2>1 DEF LedgersPerDay
  <1> QED BY <1>4, <1>5

\* A stale day shows the figures of the last proof before it, or else of the latest.
LEMMA StaleRepeats ==
  ASSUME NEW s, NEW p, HistoryOK(s, DaysKept, p), NEW i \in DOMAIN s, s[i].ledger = None,
         NEW before,
         LET proven == {j \in 1 .. i - 1 : s[j].ledger # None}
         IN before = IF proven = {} THEN DaysKept ELSE CHOOSE j \in proven : \A k \in proven : j >= k
  PROVE  s[i].owed = s[before].owed /\ s[i].held = s[before].held
  <1> USE RecordsNumbers
  <1> DEFINE proven == {j \in 1 .. i - 1 : s[j].ledger # None}
  <1>1. i \in 1 .. DaysKept /\ DayOK(s, i, p) /\ DayOK(s, DaysKept, p)
    BY DEF HistoryOK
  <1>2. i # DaysKept /\ i - 1 \in p.staleDays
    <2>1. CASE i = DaysKept
      <3>1. s[i] = [state |-> stateOf(Owed, p.held), owed |-> Owed, held |-> p.held, ledger |-> 3412088]
        BY <1>1, <2>1 DEF DayOK
      <3>2. s[i].ledger = 3412088
        BY <3>1
      <3> QED BY <3>2
    <2>2. CASE i # DaysKept /\ i - 1 \notin p.staleDays
      <3>1. s[i].ledger = 3412088 - (DaysKept - i) * LedgersPerDay - (((i - 1) * 37) % 211)
        BY <1>1, <2>2 DEF DayOK
      <3>2. s[i].ledger \in Int
        BY <1>1, <3>1 DEF LedgersPerDay
      <3> QED BY <3>2
    <2> QED BY <2>1, <2>2
  <1>3. CASE proven = {}
    <2>1. s[DaysKept] = [state |-> stateOf(Owed, p.held), owed |-> Owed, held |-> p.held, ledger |-> 3412088]
      BY <1>1 DEF DayOK
    <2>2. s[DaysKept].owed = Owed /\ s[DaysKept].held = p.held /\ before = DaysKept
      BY <1>3, <2>1
    <2>3. \A j \in 1 .. i - 1 : s[j].ledger = None
      BY <1>3
    <2> QED BY <1>1, <1>2, <2>2, <2>3 DEF DayOK
  <1>4. CASE proven # {}
    <2>1. \E j \in proven : \A k \in proven : j >= k
      <3> DEFINE T == {i - j : j \in proven}
      <3>1. T \subseteq Nat /\ T # {}
        BY <1>1, <1>4
      <3>2. PICK x \in T : \A y \in T : x <= y
        <4> HIDE DEF T
        <4> QED BY <3>1, LeastNat
      <3>3. PICK j \in proven : x = i - j
        OBVIOUS
      <3>4. \A k \in proven : i - k \in T /\ k \in Int
        OBVIOUS
      <3>5. j \in Int /\ i \in Int
        BY <1>1
      <3> HIDE DEF T, proven
      <3> QED BY <3>2, <3>3, <3>4, <3>5
    <2>2. before \in proven /\ \A k \in proven : before >= k
      BY <1>4, <2>1
    <2>3. before \in 1 .. i - 1 /\ s[before].ledger # None /\ \A k \in 1 .. i - 1 : s[k].ledger # None => k <= before
      BY <2>2
    <2> QED BY <1>1, <1>2, <2>3 DEF DayOK
  <1> QED BY <1>3, <1>4

\* The record's history, the one of its plan, is as HistoryIsConsistent says.
LEMMA HistoryGives ==
  ASSUME NEW p, HistoryOK(days, DaysKept, p)
  PROVE  /\ HistoryIsConsistent
         /\ Len(days) = DaysKept /\ days[1].held \in Nat
         /\ \A i \in DOMAIN days :
              (coveragePercent(days[i].owed, days[i].held) >= 10000)
                = (coverageShortfall(days[i].owed, days[i].held) = 0)
  <1> USE RecordsNumbers
  <1>1. /\ days \in Seq(DayType) /\ Len(days) = DaysKept /\ DOMAIN days = 1 .. DaysKept
        /\ \A i \in DOMAIN days : days[i] \in DayType
        /\ \A i \in DOMAIN days : days[i].owed \in Nat \ {0} /\ days[i].held \in Nat
    <2>1. days \in Seq(DayType) /\ Len(days) = DaysKept
      BY DEF HistoryOK
    <2>2. DOMAIN days = 1 .. DaysKept /\ \A i \in DOMAIN days : days[i] \in DayType
      BY <2>1
    <2> QED BY <2>1, <2>2 DEF DayType
  <1>2. \A i \in DOMAIN days : days[i].state = "stale" <=> days[i].ledger = None
    BY StaleIsCounted
  <1>3. countStates(days)["stale"] = Cardinality({i \in DOMAIN days : ~proofDays(days)[i]})
    <2>1. {i \in DOMAIN days : days[i].state = "stale"} = {i \in DOMAIN days : ~proofDays(days)[i]}
      BY <1>2 DEF proofDays
    <2> QED BY <2>1 DEF countStates
  <1>4. ASSUME NEW i \in DOMAIN days
        PROVE  /\ (coveragePercent(days[i].owed, days[i].held) >= 10000)
                    <=> (coverageShortfall(days[i].owed, days[i].held) = 0)
               /\ coveragePercent(days[i].owed, days[i].held) \in Nat
    <2> DEFINE o == days[i].owed
               h == days[i].held
    <2>1. o \in Nat \ {0} /\ h \in Nat
      BY <1>1
    <2> HIDE DEF o, h
    <2>2. /\ coveragePercent(o, h) >= 10000 <=> coverageShortfall(o, h) = 0
          /\ coveragePercent(o, h) \in Nat
      BY <2>1, PercentIs
    <2> QED BY <2>2 DEF o, h
  <1>5. ASSUME NEW i \in DOMAIN days
        PROVE  /\ (RecordsRow(days[i]).mark = "No proof") <=> (RecordsRow(days[i]).percent = None)
               /\ collateralDecision(days[i].state) => days[i].held >= days[i].owed /\ proofDays(days)[i]
    <2>1. days[i].state = "stale" <=> days[i].ledger = None
      BY <1>2
    <2>2. coveragePercent(days[i].owed, days[i].held) # None
      BY <1>4
    <2>3. days[i].state = "covered" => days[i].held >= days[i].owed
      <3>1. i \in 1 .. DaysKept /\ DayOK(days, i, p)
        BY <1>1 DEF HistoryOK
      <3>2. CASE i = DaysKept
        <4>1. days[i] = [state |-> stateOf(Owed, p.held), owed |-> Owed, held |-> p.held, ledger |-> 3412088]
          BY <3>1, <3>2 DEF DayOK
        <4>2. days[i].state = stateOf(Owed, p.held) /\ days[i].owed = Owed /\ days[i].held = p.held
          BY <4>1
        <4> QED BY <4>2 DEF stateOf
      <3>3. CASE i # DaysKept /\ i - 1 \in p.staleDays
        BY <3>1, <3>3 DEF DayOK
      <3>4. CASE i # DaysKept /\ i - 1 \notin p.staleDays
        BY <3>1, <3>4 DEF DayOK, stateOf
      <3> QED BY <3>2, <3>3, <3>4
    <2> QED BY <2>1, <2>2, <2>3 DEF RecordsRow, collateralDecision, proofDays
  <1>6. ASSUME NEW i \in DOMAIN days
        PROVE  LET proven == {j \in 1 .. i - 1 : days[j].ledger # None}
                   before == IF proven = {} THEN DaysKept ELSE CHOOSE j \in proven : \A k \in proven : j >= k
               IN /\ days[i].ledger # None => \A j \in proven : days[j].ledger < days[i].ledger
                  /\ days[i].ledger = None => days[i].owed = days[before].owed /\ days[i].held = days[before].held
    BY LedgersGrow, StaleRepeats
  <1>7. HistoryIsConsistent
    BY <1>2, <1>3, <1>5, <1>6 DEF HistoryIsConsistent
  <1> QED BY <1>1, <1>4, <1>7

Picker == [selected: Index, focus: Index \cup {None}, unfocused: BOOLEAN]
Query == Typed \cup {Empty}
Result ==
  [status: {"idle", "invalid", "counted", "not-found"}, reference: Customer \cup Stranger \cup {None}]

RecordsInv ==
  /\ plan \in Plan /\ HistoryOK(days, DaysKept, plan)
  /\ picker \in Picker /\ FocusIsOnTheDay
  /\ coverage \in [basisPoints: Reserves, fresh: BOOLEAN]
  /\ customer \in [query: Query, result: Result] /\ AnswerIsOfTheField

\* What is answered to a reference.
LEMMA CheckIs ==
  ASSUME NEW input \in Query
  PROVE  checkReference(input) \in Result /\ checkReference(input).status # "idle"
  <1>1. normalizeReference(input) \in Customer \cup Stranger \cup {None}
    BY DEF normalizeReference, Query, Typed, Empty
  <1> DEFINE r == normalizeReference(input)
  <1> HIDE DEF r
  <1>2. checkReference(input) = IF r = None THEN [status |-> "invalid", reference |-> None]
                                ELSE IF r \in Customer THEN [status |-> "counted", reference |-> r]
                                ELSE [status |-> "not-found", reference |-> r]
    <2>0. None \notin Customer
      BY RecordsAssumption
    <2>1. CASE r = None
      BY <2>0, <2>1, Zenon DEF checkReference, r
    <2>2. CASE r # None /\ r \in Customer
      BY <2>2, Zenon DEF checkReference, r
    <2>3. CASE r # None /\ r \notin Customer
      BY <2>3, Zenon DEF checkReference, r
    <2> QED BY <2>1, <2>2, <2>3
  <1>3. r \in Customer \cup Stranger \cup {None}
    BY <1>1 DEF r
  <1> DEFINE c == checkReference(input)
  <1> HIDE DEF c
  <1>4. c \in Result /\ c.status # "idle"
    <2>1. CASE r = None
      BY <2>1, <1>2 DEF Result, c
    <2>2. CASE r # None /\ r \in Customer
      BY <2>2, <1>2, <1>3 DEF Result, c
    <2>3. CASE r # None /\ r \notin Customer
      BY <2>3, <1>2, <1>3 DEF Result, c
    <2> QED BY <2>1, <2>2, <2>3
  <1> QED BY <1>4 DEF c

\* The pages start with the latest day, the fullest reserves and a customer that is counted.
LEMMA RecordsStart == RecordsInit => RecordsInv
  <1> SUFFICES ASSUME RecordsInit PROVE RecordsInv
    OBVIOUS
  <1> USE RecordsNumbers
  <1>1. plan \in Plan /\ HistoryOK(days, DaysKept, plan)
    BY HistoryIs DEF RecordsInit
  <1>2. picker \in Picker /\ picker.focus = None
    BY DEF RecordsInit, Picker, Index
  <1>3. coverage \in [basisPoints: Reserves, fresh: BOOLEAN]
    <2>0. \E p \in Reserves : \A other \in Reserves : p >= other
      BY RecordsAssumption
    <2>1. (CHOOSE p \in Reserves : \A other \in Reserves : p >= other) \in Reserves
      BY <2>0, Zenon
    <2> DEFINE most == CHOOSE p \in Reserves : \A other \in Reserves : p >= other
    <2>2. coverage = [basisPoints |-> most, fresh |-> TRUE]
      BY DEF RecordsInit
    <2> HIDE DEF most
    <2> QED BY <2>1, <2>2 DEF most
  <1>4. PICK r \in Customer : customer = [query |-> AsShown(r), result |-> checkReference(AsShown(r))]
    BY DEF RecordsInit
  <1>5. AsShown(r) \in Query
    BY DEF AsShown, Query, Typed
  <1> DEFINE q == AsShown(r)
             c == checkReference(q)
  <1>6. q \in Query /\ c \in Result
    BY <1>5, CheckIs
  <1> HIDE DEF c, q
  <1>7. customer = [query |-> q, result |-> c]
    BY <1>4 DEF c, q
  <1>8. customer \in [query: Query, result: Result] /\ customer.query = q /\ customer.result = c
    BY <1>6, <1>7
  <1>9. AnswerIsOfTheField
    BY <1>8 DEF AnswerIsOfTheField, c
  <1> QED BY <1>1, <1>2, <1>3, <1>8, <1>9 DEF RecordsInv, FocusIsOnTheDay

\* No key, click, move or keystroke breaks the invariant; the history stays.
LEMMA RecordsInvStep == RecordsInv /\ [RecordsNext]_recordsVars => RecordsInv'
  <1> SUFFICES ASSUME RecordsInv, [RecordsNext]_recordsVars PROVE RecordsInv'
    OBVIOUS
  <1> USE RecordsNumbers
  <1>0. /\ plan \in Plan /\ HistoryOK(days, DaysKept, plan)
        /\ picker \in Picker /\ FocusIsOnTheDay
        /\ coverage \in [basisPoints: Reserves, fresh: BOOLEAN]
        /\ customer \in [query: Query, result: Result] /\ AnswerIsOfTheField
    BY DEF RecordsInv
  <1>1. plan' = plan /\ days' = days
    BY DEF RecordsNext, recordsVars, Select, TabIn, TabOut, handleKeyDown, MoveReserves, SetFresh,
           Type, Pick, Submit
  <1>2. plan' \in Plan /\ HistoryOK(days', DaysKept, plan')
    BY <1>0, <1>1
  <1>3. picker' \in Picker /\ FocusIsOnTheDay'
    <2>1. CASE picker' = picker
      BY <2>1, <1>0 DEF FocusIsOnTheDay
    <2>2. CASE \E i \in Index : Select(i)
      <3>0. PICK i \in Index : Select(i)
        BY <2>2
      <3>1. PICK focus \in {i, picker.focus} :
              picker' = [selected |-> i, focus |-> focus, unfocused |-> focus \notin {i, None}]
        BY <3>0 DEF Select
      <3>2. focus \in Index \cup {None}
        BY <1>0 DEF Picker
      <3> DEFINE b == focus \notin {i, None}
      <3>3. b \in BOOLEAN
        OBVIOUS
      <3>4. (focus # None /\ focus # i) => b
        OBVIOUS
      <3> HIDE DEF b
      <3>5. picker' = [selected |-> i, focus |-> focus, unfocused |-> b]
        BY <3>1 DEF b
      <3>6. picker' \in Picker
        BY <3>2, <3>3, <3>5 DEF Picker
      <3>7. FocusIsOnTheDay'
        BY <3>4, <3>5 DEF FocusIsOnTheDay
      <3> QED BY <3>6, <3>7
    <2>3. CASE TabIn
      <3>1. picker' = [picker EXCEPT !.focus = picker.selected]
        BY <2>3 DEF TabIn
      <3> QED BY <3>1, <1>0 DEF Picker, FocusIsOnTheDay
    <2>4. CASE TabOut
      <3> DEFINE m == [picker EXCEPT !.focus = None]
                 b == [m EXCEPT !.unfocused = FALSE]
      <3>1. m \in Picker /\ m.focus = None
        BY <1>0 DEF Picker
      <3>2. picker' = b
        BY <2>4 DEF TabOut
      <3> HIDE DEF m
      <3>3. b \in Picker /\ b.focus = None
        BY <3>1 DEF Picker
      <3> HIDE DEF b
      <3> QED BY <3>2, <3>3 DEF FocusIsOnTheDay
    <2>5. CASE \E key \in {"ArrowRight", "ArrowLeft", "Home", "End"} : handleKeyDown(key)
      <3>1. PICK key \in {"ArrowRight", "ArrowLeft", "Home", "End"} : handleKeyDown(key)
        BY <2>5
      <3> DEFINE next == nextDayIndex(key, picker.focus)
      <3>2. picker' = [selected |-> next, focus |-> next, unfocused |-> FALSE] /\ picker.focus \in Index
        BY <3>1, <1>0 DEF handleKeyDown, Focused, Picker
      <3>3. next \in Index
        BY <3>2 DEF nextDayIndex, Index
      <3> HIDE DEF next
      <3> QED BY <3>2, <3>3 DEF Picker, FocusIsOnTheDay
    <2> QED BY <2>1, <2>2, <2>3, <2>4, <2>5 DEF RecordsNext, recordsVars, MoveReserves, SetFresh, Type, Pick, Submit
  <1>4. coverage' \in [basisPoints: Reserves, fresh: BOOLEAN]
    <2>1. CASE coverage' = coverage
      BY <2>1, <1>0
    <2>2. CASE MoveReserves
      BY <2>2, <1>0 DEF MoveReserves
    <2>3. CASE SetFresh
      <3>1. coverage' = [coverage EXCEPT !.fresh = ~coverage.fresh]
        BY <2>3 DEF SetFresh
      <3> QED BY <3>1, <1>0
    <2> QED BY <2>1, <2>2, <2>3 DEF RecordsNext, recordsVars, Select, TabIn, TabOut, handleKeyDown, Type, Pick, Submit
  <1>5. customer' \in [query: Query, result: Result] /\ AnswerIsOfTheField'
    <2>1. CASE customer' = customer
      <3>1. customer'.query = customer.query /\ customer'.result = customer.result
        BY <2>1
      <3> QED BY <2>1, <1>0 DEF AnswerIsOfTheField
    <2>2. ASSUME NEW q \in Query, NEW c \in Result, customer' = [query |-> q, result |-> c],
                 c.status = "idle" \/ c = checkReference(q)
          PROVE  customer' \in [query: Query, result: Result] /\ AnswerIsOfTheField'
      <3>1. customer' \in [query: Query, result: Result] /\ customer'.query = q /\ customer'.result = c
        BY <2>2
      <3> QED BY <2>2, <3>1 DEF AnswerIsOfTheField
    <2>3. CASE \E input \in Typed \cup {Empty} : Type(input)
      <3>1. PICK input \in Query : customer' = [query |-> input, result |-> AfterTyping]
        BY <2>3 DEF Type, Query
      <3> DEFINE c == AfterTyping
      <3>2. c \in Result /\ c.status = "idle"
        BY DEF AfterTyping, Result
      <3> HIDE DEF c
      <3> QED BY <2>2, <3>1, <3>2 DEF c
    <2>4. CASE \E r \in Customer : Pick(r)
      <3>1. PICK r \in Customer : customer' = [query |-> AsShown(r), result |-> checkReference(AsShown(r))]
        BY <2>4 DEF Pick
      <3>2. AsShown(r) \in Query
        BY DEF AsShown, Query, Typed
      <3> QED BY <2>2, <3>1, <3>2, CheckIs
    <2>5. CASE Submit
      <3> DEFINE q == customer.query
                 c == checkReference(q)
      <3>1. q \in Query /\ customer' = [customer EXCEPT !.result = c]
        BY <2>5, <1>0 DEF Submit
      <3>2. c \in Result
        BY <3>1, CheckIs
      <3> HIDE DEF c
      <3>3. customer' = [query |-> q, result |-> c]
        BY <3>1, <1>0
      <3> HIDE DEF q
      <3> QED BY <2>2, <3>1, <3>2, <3>3 DEF c
    <2> QED BY <2>1, <2>3, <2>4, <2>5 DEF RecordsNext, recordsVars, Select, TabIn, TabOut, handleKeyDown, MoveReserves, SetFresh
  <1> QED BY <1>2, <1>3, <1>4, <1>5 DEF RecordsInv

\* What the check shows, for any reserves.
LEMMA CheckGives ==
  ASSUME coverage \in [basisPoints: Reserves, fresh: BOOLEAN]
  PROVE  CheckTellsTheGap /\ ((Checked.percent >= 10000) = (Checked.shortfall = 0))
  <1> USE RecordsNumbers
  <1> DEFINE points == coverage.basisPoints
             fresh == coverage.fresh
             held == CheckHeld(points)
             covered == Covers(held)
             c == Checked
             lit == Lit(c.state, Owed, c.held, 72)
  <1>1. points \in Nat /\ fresh \in BOOLEAN
    OBVIOUS
  <1>2. held \in Nat /\ (held >= Owed <=> points >= 10000)
    <2> HIDE DEF points
    <2> QED BY <1>1 DEF CheckHeld
  <1>3. /\ c.state = IF ~fresh THEN "stale" ELSE IF covered THEN "covered" ELSE "short"
        /\ c.held = held /\ c.percent = coveragePercent(Owed, held)
        /\ c.shortfall = IF covered THEN 0 ELSE Owed - held
        /\ c.surplus = IF covered THEN held - Owed ELSE 0
    BY DEF Checked
  <1>4. covered <=> held >= Owed
    BY DEF Covers
  <1> HIDE DEF held, covered, c, points, fresh
  <1>5. coveragePercent(Owed, held) >= 10000 <=> held >= Owed
    BY <1>2, PercentIs
  <1>6. c.percent >= 10000 <=> c.shortfall = 0
    BY <1>2, <1>3, <1>4, <1>5
  <1>7. c.state = "covered" <=> (fresh /\ points >= 10000)
    BY <1>1, <1>2, <1>3, <1>4
  <1>8. c.state = "short" => c.shortfall > 0 /\ c.held + c.shortfall = Owed
    BY <1>1, <1>2, <1>3, <1>4
  <1>9. c.state = "covered" => c.held - c.surplus = Owed
    BY <1>1, <1>2, <1>3, <1>4
  <1>10. c.state = "stale" => lit = 0
    BY DEF Lit
  <1>11. c.state = "covered" => lit = 72
    <2> SUFFICES ASSUME c.state = "covered" PROVE lit = 72
      OBVIOUS
    <2>1. held >= Owed
      BY <1>1, <1>3, <1>4
    <2>2. (IF held > Owed THEN 10000 ELSE basisPoints(Owed, held)) = 10000
      BY <2>1, <1>2 DEF basisPoints
    <2> QED BY <2>2, <1>3 DEF Lit
  <1> QED BY <1>6, <1>7, <1>8, <1>9, <1>10, <1>11 DEF CheckTellsTheGap, c, points, fresh

\* The number of a few digits.
LEMMA NumberIs ==
  ASSUME NEW ds, NEW k \in 0 .. 3, ds \in [1 .. k -> 0 .. 9]
  PROVE  Number(ds) = IF k = 0 THEN 0 ELSE IF k = 1 THEN ds[1] ELSE IF k = 2 THEN 10 * ds[1] + ds[2]
                      ELSE 100 * ds[1] + 10 * ds[2] + ds[3]
  <1> DEFINE Of(f) == f = [n \in 0 .. k |-> IF n = 0 THEN 0 ELSE 10 * f[n - 1] + ds[n]]
             f == CHOOSE f : Of(f)
             g == [n \in 0 .. k |-> IF n = 0 THEN 0 ELSE IF n = 1 THEN ds[1]
                                    ELSE IF n = 2 THEN 10 * ds[1] + ds[2]
                                    ELSE 100 * ds[1] + 10 * ds[2] + ds[3]]
             h == [n \in 0 .. k |-> IF n = 0 THEN 0 ELSE 10 * g[n - 1] + ds[n]]
  <1>1. Len(ds) = k
    OBVIOUS
  <1>2. Number(ds) = f[k]
    BY <1>1 DEF Number
  <1>3. Of(g)
    <2>1. \A n \in 0 .. k : g[n] = h[n]
      <3> SUFFICES ASSUME NEW n \in 0 .. k PROVE g[n] = h[n]
        OBVIOUS
      <3>1. \A m \in 0 .. k : g[m] = IF m = 0 THEN 0 ELSE IF m = 1 THEN ds[1]
                                    ELSE IF m = 2 THEN 10 * ds[1] + ds[2]
                                    ELSE 100 * ds[1] + 10 * ds[2] + ds[3]
        OBVIOUS
      <3>2. h[n] = IF n = 0 THEN 0 ELSE 10 * g[n - 1] + ds[n]
        <4> HIDE DEF g
        <4> QED OBVIOUS
      <3>3. \A m \in 1 .. k : ds[m] \in Int
        OBVIOUS
      <3>4. n = 0 \/ n = 1 \/ n = 2 \/ n = 3
        OBVIOUS
      <3> HIDE DEF g, h
      <3>5. n # 0 => n - 1 \in 0 .. k
        OBVIOUS
      <3> QED BY <3>1, <3>2, <3>3, <3>4, <3>5
    <2>2. g = h
      <3>1. g = [n \in 0 .. k |-> g[n]]
        OBVIOUS
      <3>2. h = [n \in 0 .. k |-> h[n]]
        <4> HIDE DEF g
        <4> QED OBVIOUS
      <3> HIDE DEF g, h
      <3> QED BY <2>1, <3>1, <3>2
    <2> HIDE DEF g
    <2> QED BY <2>2
  <1>4. Of(f)
    <2> HIDE DEF Of, g
    <2> QED BY <1>3
  <1> HIDE DEF f
  <1>5. \A n \in 0 .. k : f[n] = IF n = 0 THEN 0 ELSE 10 * f[n - 1] + ds[n]
    BY <1>4
  <1>6. \A m \in 1 .. k : ds[m] \in Int
    OBVIOUS
  <1>7. f[0] = 0
    BY <1>5
  <1>8. k >= 1 => f[1] = ds[1]
    <2>1. k >= 1 => f[1] = 10 * f[1 - 1] + ds[1]
      BY <1>5
    <2>2. 1 - 1 = 0
      OBVIOUS
    <2> QED BY <1>6, <1>7, <2>1, <2>2
  <1>9. k >= 2 => f[2] = 10 * ds[1] + ds[2]
    <2>1. k >= 2 => f[2] = 10 * f[2 - 1] + ds[2]
      BY <1>5
    <2>2. 2 - 1 = 1
      OBVIOUS
    <2> QED BY <1>8, <2>1, <2>2
  <1>10. k >= 3 => f[3] = 100 * ds[1] + 10 * ds[2] + ds[3]
    <2>1. k >= 3 => f[3] = 10 * f[3 - 1] + ds[3]
      BY <1>5
    <2>2. 3 - 1 = 2
      OBVIOUS
    <2> QED BY <1>6, <1>9, <2>1, <2>2
  <1>11. k = 0 \/ k = 1 \/ k = 2 \/ k = 3
    OBVIOUS
  <1> QED BY <1>2, <1>7, <1>8, <1>9, <1>10, <1>11

\* The powers of ten of a few digits.
LEMMA Tens == 10 ^ 0 = 1 /\ 10 ^ 1 = 10 /\ 10 ^ 2 = 100 /\ 10 ^ 3 = 1000
  OBVIOUS

\* The digits of an amount at one scale, read at another.
DigitsOK(ds, m, from, to) ==
  /\ ds \in [1 .. to -> 0 .. 9]
  /\ \A i \in 1 .. to : ds[i] = IF i > from THEN 0 ELSE IF from - i = 0 THEN m % 10
       ELSE IF from - i = 1 THEN (m \div 10) % 10 ELSE (m \div 100) % 10

\* The digits written at one scale and read at another are those.
LEMMA DigitsAre ==
  ASSUME NEW m \in Nat, NEW from \in 0 .. 3, NEW to \in 0 .. 3
  PROVE  DigitsOK(Padded(Digits(m, from), to), m, from, to)
  <1> DEFINE fr == Digits(m, from)
             ds == Padded(fr, to)
  <1>1. \A i \in 1 .. from : 10 ^ (from - i) = IF from - i = 0 THEN 1 ELSE IF from - i = 1 THEN 10 ELSE 100
    <2> SUFFICES ASSUME NEW i \in 1 .. from
                 PROVE 10 ^ (from - i) = IF from - i = 0 THEN 1 ELSE IF from - i = 1 THEN 10 ELSE 100
      OBVIOUS
    <2> DEFINE k == from - i
    <2>1. k = 0 \/ k = 1 \/ k = 2
      OBVIOUS
    <2> HIDE DEF k
    <2>2. CASE k = 0
      <3>1. 10 ^ k = 10 ^ 0
        BY <2>2
      <3> QED BY <2>2, <3>1, Tens DEF k
    <2>3. CASE k = 1
      <3>1. 10 ^ k = 10 ^ 1
        BY <2>3
      <3> QED BY <2>3, <3>1, Tens DEF k
    <2>4. CASE k = 2
      <3>1. 10 ^ k = 10 ^ 2
        BY <2>4
      <3> QED BY <2>4, <3>1, Tens DEF k
    <2> QED BY <2>1, <2>2, <2>3, <2>4
  <1>2. fr = [i \in 1 .. from |-> (m \div (10 ^ (from - i))) % 10]
    BY DEF Digits
  <1> HIDE DEF fr
  <1>3. \A i \in 1 .. from : fr[i] = IF from - i = 0 THEN m % 10
              ELSE IF from - i = 1 THEN (m \div 10) % 10 ELSE (m \div 100) % 10
    <2> SUFFICES ASSUME NEW i \in 1 .. from
                 PROVE fr[i] = IF from - i = 0 THEN m % 10
                               ELSE IF from - i = 1 THEN (m \div 10) % 10 ELSE (m \div 100) % 10
      OBVIOUS
    <2>1. fr[i] = (m \div (10 ^ (from - i))) % 10
      BY <1>2
    <2>2. m \div 1 = m
      OBVIOUS
    <2> QED BY <1>1, <2>1, <2>2
  <1>4. \A i \in 1 .. from : fr[i] \in 0 .. 9
    <2>1. m % 10 \in 0 .. 9 /\ (m \div 10) % 10 \in 0 .. 9 /\ (m \div 100) % 10 \in 0 .. 9
      OBVIOUS
    <2> QED BY <1>3, <2>1
  <1>5. Len(fr) = from
    BY <1>2
  <1>6. ds = [i \in 1 .. to |-> IF i <= from THEN fr[i] ELSE 0]
    BY <1>5 DEF Padded
  <1> HIDE DEF ds
  <1>7. \A i \in 1 .. to : ds[i] = IF i <= from THEN fr[i] ELSE 0
    BY <1>6
  <1>8. \A i \in 1 .. to : i <= from => i \in 1 .. from
    OBVIOUS
  <1>9. \A i \in 1 .. to : ds[i] \in 0 .. 9
    BY <1>4, <1>7, <1>8
  <1>10. ds \in [1 .. to -> 0 .. 9]
    BY <1>6, <1>9
  <1>11. \A i \in 1 .. to : ds[i] = IF i > from THEN 0 ELSE IF from - i = 0 THEN m % 10
              ELSE IF from - i = 1 THEN (m \div 10) % 10 ELSE (m \div 100) % 10
    <2> SUFFICES ASSUME NEW i \in 1 .. to
                 PROVE ds[i] = IF i > from THEN 0 ELSE IF from - i = 0 THEN m % 10
                               ELSE IF from - i = 1 THEN (m \div 10) % 10 ELSE (m \div 100) % 10
      OBVIOUS
    <2> QED BY <1>3, <1>7, <1>8
  <1> QED BY <1>10, <1>11 DEF DigitsOK, ds, fr

\* Ten goes into a number, and leaves less than ten.
LEMMA TenIs ==
  /\ \A x \in Nat : x \div 10 \in Nat /\ x % 10 \in 0 .. 9 /\ x = 10 * (x \div 10) + (x % 10)
  /\ \A x \in 0 .. 9 : x % 10 = x
  /\ \A x \in Nat, a \in Nat : 10 * a <= x /\ x < 10 * a + 10 => x \div 10 = a
  /\ \A x \in Nat, a \in Nat : 100 * a <= x /\ x < 100 * a + 100 => x \div 100 = a
  <1>1. \A x \in Nat : x \div 10 \in Nat /\ x % 10 \in 0 .. 9
    OBVIOUS
  <1>2. ASSUME NEW x \in Nat PROVE x = 10 * (x \div 10) + (x % 10)
    OBVIOUS
  <1>3. \A x \in 0 .. 9 : x % 10 = x
    OBVIOUS
  <1>4. \A x \in Nat, a \in Nat : 10 * a <= x /\ x < 10 * a + 10 => x \div 10 = a
    OBVIOUS
  <1>5. \A x \in Nat, a \in Nat : 100 * a <= x /\ x < 100 * a + 100 => x \div 100 = a
    OBVIOUS
  <1> QED BY <1>1, <1>2, <1>3, <1>4, <1>5

\* Reading what was written, at another scale, cuts.
LEMMA CutIs ==
  ASSUME NEW units \in Nat, NEW from \in 0 .. 3, NEW to \in 0 .. 3
  PROVE  parseAmount(formatAmount(units, from), to)
           = IF to >= from THEN units * (10 ^ (to - from)) ELSE units \div (10 ^ (from - to))
  <1> DEFINE ten(k) == 10 ^ k
             p == ten(from)
             q == ten(to)
             k == IF to >= from THEN to - from ELSE from - to
             r == ten(k)
             w == units \div p
             m == units % p
             ds == Padded(Digits(m, from), to)
             written == formatAmount(units, from)
             n == Number(ds)
  <1>1. ten(0) = 1 /\ ten(1) = 10 /\ ten(2) = 100 /\ ten(3) = 1000
    BY Tens
  <1>2. ~written.negative /\ written.whole = w /\ written.fraction = Digits(m, from)
    <2>1. ~(units < 0)
      OBVIOUS
    <2> QED BY <2>1, Zenon DEF formatAmount
  <1>3. parseAmount(written, to) = w * q + n
    <2> HIDE DEF written
    <2> QED BY <1>2 DEF parseAmount
  <1>4. (IF to >= from THEN units * (10 ^ (to - from)) ELSE units \div (10 ^ (from - to)))
          = IF to >= from THEN units * r ELSE units \div r
    OBVIOUS
  <1> HIDE DEF ten, written
  <1>5. /\ p = IF from = 0 THEN 1 ELSE IF from = 1 THEN 10 ELSE IF from = 2 THEN 100 ELSE 1000
        /\ q = IF to = 0 THEN 1 ELSE IF to = 1 THEN 10 ELSE IF to = 2 THEN 100 ELSE 1000
    BY <1>1
  <1>6. k \in 0 .. 3 /\ r = IF k = 0 THEN 1 ELSE IF k = 1 THEN 10 ELSE IF k = 2 THEN 100 ELSE 1000
    <2>1. k \in 0 .. 3
      OBVIOUS
    <2> HIDE DEF k
    <2> QED BY <1>1, <2>1
  <1> HIDE DEF p, q, r
  <1>7. p \in Nat /\ p > 0
    BY <1>5
  <1>8. w \in Nat /\ m \in Nat /\ w = units \div p /\ m = units % p
    BY <1>7
  <1> HIDE DEF w, m
  <1>9. /\ ds \in [1 .. to -> 0 .. 9]
        /\ \A i \in 1 .. to : ds[i] = IF i > from THEN 0 ELSE IF from - i = 0 THEN m % 10
              ELSE IF from - i = 1 THEN (m \div 10) % 10 ELSE (m \div 100) % 10
    <2>1. DigitsOK(ds, m, from, to)
      BY <1>8, DigitsAre
    <2> HIDE DEF ds
    <2> QED BY <2>1 DEF DigitsOK
  <1> HIDE DEF ds
  <1>10. n = IF to = 0 THEN 0 ELSE IF to = 1 THEN ds[1] ELSE IF to = 2 THEN 10 * ds[1] + ds[2]
             ELSE 100 * ds[1] + 10 * ds[2] + ds[3]
    BY <1>9, NumberIs
  <1> HIDE DEF n
  <1>11. /\ to >= 1 => ds[1] = IF 1 > from THEN 0 ELSE IF from = 1 THEN m % 10
              ELSE IF from = 2 THEN (m \div 10) % 10 ELSE (m \div 100) % 10
         /\ to >= 2 => ds[2] = IF 2 > from THEN 0 ELSE IF from = 2 THEN m % 10 ELSE (m \div 10) % 10
         /\ to >= 3 => ds[3] = IF 3 > from THEN 0 ELSE m % 10
    BY <1>9
  <1>12. to = 0 \/ to = 1 \/ to = 2 \/ to = 3
    OBVIOUS
  <1>13. w * q + n = IF to >= from THEN units * r ELSE units \div r
    <2>1. CASE from = 0
      <3>1. p = 1
        BY <1>5, <2>1
      <3>2. w = units
        BY <1>8, <3>1
      <3>3. n = 0
        BY <1>10, <1>11, <2>1
      <3>4. q = r
        BY <1>5, <1>6, <2>1
      <3> QED BY <1>5, <2>1, <3>2, <3>3, <3>4
    <2>2. CASE from = 1
      <3>1. p = 10
        BY <1>5, <2>2
      <3>2. units = 10 * w + m /\ m \in 0 .. 9 /\ w = units \div 10
        BY <1>8, <3>1
      <3>3. m % 10 = m
        BY <3>2, TenIs
      <3>4. n = IF to = 0 THEN 0 ELSE IF to = 1 THEN m ELSE IF to = 2 THEN 10 * m ELSE 100 * m
        BY <1>10, <1>11, <2>2, <3>2, <3>3
      <3>5. r = IF to = 0 THEN 10 ELSE IF to = 1 THEN 1 ELSE IF to = 2 THEN 10 ELSE 100
        BY <1>6, <2>2
      <3> QED BY <1>5, <1>8, <1>12, <2>2, <3>2, <3>4, <3>5
    <2>3. CASE from = 2
      <3> DEFINE b == m \div 10
                 y == m % 10
      <3>1. p = 100
        BY <1>5, <2>3
      <3>2. units = 100 * w + m /\ m \in 0 .. 99 /\ w = units \div 100
        BY <1>8, <3>1
      <3>3. b \in Nat /\ y \in 0 .. 9 /\ m = 10 * b + y
        BY <1>8, TenIs
      <3>4. b % 10 = b
        <4>1. b \in 0 .. 9
          <5> HIDE DEF b, y
          <5> QED BY <3>2, <3>3
        <4> QED BY <4>1, TenIs
      <3>5. /\ to >= 1 => ds[1] = b
            /\ to >= 2 => ds[2] = y
            /\ to >= 3 => ds[3] = 0
        BY <1>11, <2>3, <3>4
      <3> HIDE DEF b, y
      <3>6. n = IF to = 0 THEN 0 ELSE IF to = 1 THEN b ELSE IF to = 2 THEN m ELSE 10 * m
        <4>1. CASE to = 0
          BY <1>10, <4>1
        <4>2. CASE to = 1
          BY <1>10, <3>5, <4>2
        <4>3. CASE to = 2
          BY <1>10, <3>3, <3>5, <4>3
        <4>4. CASE to = 3
          BY <1>10, <3>3, <3>5, <4>4
        <4> QED BY <1>12, <4>1, <4>2, <4>3, <4>4
      <3>7. units \div 10 = 10 * w + b
        <4>1. 10 * w + b \in Nat /\ 10 * (10 * w + b) <= units /\ units < 10 * (10 * w + b) + 10
          BY <1>8, <3>2, <3>3
        <4> QED BY <4>1, TenIs
      <3>8. r = IF to = 0 THEN 100 ELSE IF to = 1 THEN 10 ELSE IF to = 2 THEN 1 ELSE 10
        BY <1>6, <2>3
      <3>9. CASE to = 1
        BY <1>5, <1>8, <2>3, <3>3, <3>6, <3>7, <3>8, <3>9
      <3>10. CASE to # 1
        BY <1>5, <1>8, <1>12, <2>3, <3>2, <3>6, <3>8, <3>10
      <3> QED BY <3>9, <3>10
    <2>4. CASE from = 3
      <3> DEFINE a == m \div 100
                 b == m \div 10
                 y == m % 10
                 x == b % 10
      <3>1. p = 1000
        BY <1>5, <2>4
      <3>2. units = 1000 * w + m /\ m \in 0 .. 999 /\ w = units \div 1000
        BY <1>8, <3>1
      <3>3. b \in Nat /\ y \in 0 .. 9 /\ m = 10 * b + y
        BY <1>8, TenIs
      <3>4. a \in 0 .. 9 /\ 100 * a <= m /\ m < 100 * a + 100
        BY <3>2
      <3>5. a % 10 = a
        BY <3>4, TenIs
      <3>6. /\ to >= 1 => ds[1] = a
            /\ to >= 2 => ds[2] = x
            /\ to >= 3 => ds[3] = y
        BY <1>11, <2>4, <3>5
      <3> HIDE DEF a, b, y
      <3>7. b \div 10 = a /\ x \in 0 .. 9 /\ b = 10 * (b \div 10) + x
        <4>1. 10 * a <= b /\ b < 10 * a + 10 /\ a \in Nat
          BY <3>3, <3>4
        <4> QED BY <3>3, <4>1, TenIs
      <3> HIDE DEF x
      <3>8. b = 10 * a + x /\ x \in Nat /\ y \in Nat /\ a \in Nat /\ b \in Nat
        BY <3>3, <3>4, <3>7
      <3>9. n = IF to = 0 THEN 0 ELSE IF to = 1 THEN a ELSE IF to = 2 THEN b ELSE m
        BY <1>10, <1>12, <3>3, <3>6, <3>8
      <3>10. units \div 10 = 100 * w + b
        <4>1. 100 * w + b \in Nat /\ 10 * (100 * w + b) <= units /\ units < 10 * (100 * w + b) + 10
          BY <1>8, <3>2, <3>3
        <4> QED BY <4>1, TenIs
      <3>11. units \div 100 = 10 * w + a
        <4>1. 10 * w + a \in Nat /\ 100 * (10 * w + a) <= units /\ units < 100 * (10 * w + a) + 100
          BY <1>8, <3>2, <3>4
        <4> QED BY <4>1, TenIs
      <3>12. r = IF to = 0 THEN 1000 ELSE IF to = 1 THEN 100 ELSE IF to = 2 THEN 10 ELSE 1
        BY <1>6, <2>4
      <3>13. CASE to = 0
        BY <1>5, <1>8, <2>4, <3>2, <3>9, <3>12, <3>13
      <3>14. CASE to = 1
        BY <1>5, <1>8, <2>4, <3>8, <3>9, <3>11, <3>12, <3>14
      <3>15. CASE to = 2
        BY <1>5, <1>8, <2>4, <3>8, <3>9, <3>10, <3>12, <3>15
      <3>16. CASE to = 3
        BY <1>5, <1>8, <2>4, <3>2, <3>9, <3>12, <3>16
      <3> QED BY <1>12, <3>13, <3>14, <3>15, <3>16
    <2> QED BY <2>1, <2>2, <2>3, <2>4
  <1> QED BY <1>3, <1>4, <1>13 DEF written

\* What the runs check of the record's pages follows from the invariant.
LEMMA RecordsGives ==
  RecordsInv => /\ RecordsTypeOK /\ HistoryIsConsistent /\ PercentIsNeverRoundedUp /\ CheckTellsTheGap
                /\ FocusIsOnTheDay /\ AnswerIsOfTheField /\ AmountsAreCut
  <1> SUFFICES ASSUME RecordsInv
               PROVE  /\ RecordsTypeOK /\ HistoryIsConsistent /\ PercentIsNeverRoundedUp
                      /\ CheckTellsTheGap /\ AmountsAreCut
    BY DEF RecordsInv
  <1>1. /\ HistoryIsConsistent /\ Len(days) = DaysKept /\ days[1].held \in Nat
        /\ \A i \in DOMAIN days :
             (coveragePercent(days[i].owed, days[i].held) >= 10000)
               = (coverageShortfall(days[i].owed, days[i].held) = 0)
    BY HistoryGives DEF RecordsInv
  <1>2. CheckTellsTheGap /\ ((Checked.percent >= 10000) = (Checked.shortfall = 0))
    BY CheckGives DEF RecordsInv
  <1>3. RecordsTypeOK
    BY <1>1 DEF RecordsInv, RecordsTypeOK, Picker, Query, Result
  <1>4. AmountsAreCut
    <2> DEFINE u == days[1].held
    <2>1. u \in Nat
      BY <1>1
    <2> HIDE DEF u
    <2>2. \A from \in 0 .. 3, to \in 0 .. 3 :
            parseAmount(formatAmount(u, from), to)
              = IF to >= from THEN u * (10 ^ (to - from)) ELSE u \div (10 ^ (from - to))
      BY <2>1, CutIs
    <2> QED BY <2>2, Zenon DEF AmountsAreCut, u
  <1> QED BY <1>1, <1>2, <1>3, <1>4 DEF PercentIsNeverRoundedUp
-----------------------------------------------------------------------------
(* The site.                                                               *)

\* A step of the site is a step of one part, or leaves it alone.
LEMMA SiteStep ==
  ASSUME [SiteNext]_siteVars
  PROVE  /\ [ReadersNext]_readersVars /\ [LookupNext]_lookupVars /\ [ContactNext]_contactVars
         /\ [KybNext]_kybVars /\ [SupplyNext]_supplyVars /\ [PageNext]_pageVars
         /\ [RevealNext]_revealVars /\ [CountersNext]_countersVars /\ [OpeningNext]_openingVars
         /\ [StageNext]_stageVars /\ [RecordsNext]_recordsVars
  <1>1. CASE UNCHANGED siteVars
    BY <1>1 DEF siteVars
  <1>2. CASE OfReaders(ReadersNext)
    BY <1>2 DEF OfReaders
  <1>3. CASE OfLookup(LookupNext)
    BY <1>3 DEF OfLookup
  <1>4. CASE OfContact(ContactNext)
    BY <1>4 DEF OfContact
  <1>5. CASE OfKyb(KybNext)
    BY <1>5 DEF OfKyb
  <1>6. CASE OfSupply(SupplyNext)
    BY <1>6 DEF OfSupply
  <1>7. CASE OfPage(PageNext)
    BY <1>7 DEF OfPage
  <1>8. CASE OfReveal(RevealNext)
    BY <1>8 DEF OfReveal
  <1>9. CASE OfCounters(CountersNext)
    BY <1>9 DEF OfCounters
  <1>10. CASE OfOpening(OpeningNext)
    BY <1>10 DEF OfOpening
  <1>11. CASE OfStage(StageNext)
    BY <1>11 DEF OfStage
  <1>12. CASE OfRecords(RecordsNext)
    BY <1>12 DEF OfRecords
  <1> QED BY <1>1, <1>2, <1>3, <1>4, <1>5, <1>6, <1>7, <1>8, <1>9, <1>10, <1>11, <1>12 DEF SiteNext

\* The invariants of the eleven parts.
SiteInv ==
  /\ ReadersInv /\ LookupInv /\ ContactInv /\ KybInv /\ SupplyInv /\ PageInv /\ RevealInv
  /\ CountersInv /\ OpeningInv /\ StageInv /\ RecordsInv

\* Every part starts as it does alone.
LEMMA SiteStart == SiteInit => SiteInv
  BY ReadersStart, LookupStart, ContactStart, KybStart, SupplyStart, PageStart, RevealStart,
     CountersStart, OpeningStart, StageStart, RecordsStart
  DEF SiteInit, SiteInv

\* No step of one part breaks the invariant of any.
LEMMA SiteInvStep == SiteInv /\ [SiteNext]_siteVars => SiteInv'
  <1> SUFFICES ASSUME SiteInv, [SiteNext]_siteVars PROVE SiteInv'
    OBVIOUS
  <1>1. ReadersInv' /\ LookupInv' /\ ContactInv' /\ KybInv' /\ SupplyInv' /\ PageInv'
    BY SiteStep, ReadersInvStep, LookupInvStep, ContactInvStep, KybInvStep, SupplyInvStep, PageInvStep
    DEF SiteInv
  <1>2. RevealInv' /\ CountersInv' /\ OpeningInv' /\ StageInv' /\ RecordsInv'
    BY SiteStep, RevealInvStep, CountersInvStep, OpeningInvStep, StageInvStep, RecordsInvStep
    DEF SiteInv
  <1> QED BY <1>1, <1>2 DEF SiteInv

\* The invariant of the site: that of each of its parts.
THEOREM SiteInvariant == SiteSpec => []SiteInv
  BY SiteStart, SiteInvStep, PTL DEF SiteSpec

\* What holds of the readers and of the lookups holds of the site.
THEOREM SiteAnswers == SiteSpec => [](AnswersAreOfTheRecord /\ SettledIsAsked)
  <1>1. SiteInv => AnswersAreOfTheRecord /\ SettledIsAsked
    BY InvAnswers DEF SiteInv, LookupInv
  <1> QED BY <1>1, SiteInvariant, PTL

\* Every part keeps its types.
THEOREM SiteTypeOKAlways == SiteSpec => []SiteTypeOK
  <1>1. ReadersInv => ReadersTypeOK
    BY DEF ReadersInv
  <1>2. LookupInv => LookupTypeOK
    BY DEF LookupInv
  <1>3. SiteInv => SiteTypeOK
    BY <1>1, <1>2, ContactGives, KybGives, SupplyGives, PageGives, RevealGives, CountersGives,
       OpeningGives, StageGives, RecordsGives
    DEF SiteInv, SiteTypeOK
  <1> QED BY <1>3, SiteInvariant, PTL

\* Whatever the mail service refuses or loses, and however the submissions of one address
\* race, a form that says "sent" has stored or delivered it, a second confirmation is of
\* a race and a missing one of a refusal; the review route admits no longer burst than
\* two windows allow, and answers 200 only when the applicant was mailed.
THEOREM MailsAreHonestAlways == SiteSpec => []MailsAreHonest
  <1>1. ContactInv => SentIsStored /\ UnconfirmedOnlyIfFault
    BY DEF ContactInv
  <1>2. SiteInv => MailsAreHonest
    BY <1>1, ContactGives, KybGives DEF SiteInv, MailsAreHonest
  <1> QED BY <1>2, SiteInvariant, PTL

\* The figures the website shows are true to what they are computed from, for every
\* history, reserves, reference and order of answers.
THEOREM FiguresAreTrueAlways == SiteSpec => []FiguresAreTrue
  <1>1. SiteInv => FiguresAreTrue
    BY RecordsGives, SupplyGives DEF SiteInv, FiguresAreTrue
  <1> QED BY <1>1, SiteInvariant, PTL

\* Whatever order the browser's events, frames, timers and preferences come in, the page
\* is locked only behind its menu, nothing stays hidden or half counted, and the chapter
\* and the opening show the step and the day they are at.
THEOREM PageSettlesAlways == SiteSpec => []PageSettles
  <1>1. SiteInv => PageSettles
    BY PageGives, RevealGives, CountersGives, OpeningGives, StageGives DEF SiteInv, PageSettles
  <1> QED BY <1>1, SiteInvariant, PTL

\* A step caches an older supply only if two reads overlapped, moves no page behind an
\* open menu, and ends a button's scroll at the button's step.
THEOREM SiteStepsAlways == SiteSpec => SiteSteps
  <1>1. SiteInv /\ [SiteNext]_siteVars =>
          [cached # None /\ cached'.snapshot.ledger < cached.snapshot.ledger =>
             \E i \in DOMAIN reads :
               reads[i].since # None /\ reads'[i].since = None /\ reads[i].since <= cached.at]_supplyVars
    BY SiteStep, SupplyInvStep DEF SiteInv
  <1>2. SiteInv /\ [SiteNext]_siteVars =>
          [lock.class /\ lock'.class /\ page'.y # page.y =>
             glide = "native" \/ page'.viewport # page.viewport \/ page'.y = 0]_pageVars
    BY SiteStep, PageKept DEF SiteInv
  <1>3. SiteInv /\ [SiteNext]_siteVars =>
          [goal # None /\ goal' = None /\ scroll' = goal /\ pinned' => stepOffset(step') = goal]_stageVars
    BY SiteStep, StageInvStep DEF SiteInv
  <1> QED BY <1>1, <1>2, <1>3, SiteInvariant, PTL
          DEF SiteSpec, SiteSteps, OlderOnlyIfOverlapped, LockedPageStays, ArrivesAtItsStep
=============================================================================
