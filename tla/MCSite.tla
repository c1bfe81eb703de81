------------------------------- MODULE MCSite -------------------------------
(* The readers of proofs, the mails and the pages of the website for TLC.     *)
(* They share no state, so a behaviour is one of theirs; the others rest in   *)
(* one of their initial states.                                               *)
EXTENDS Readers, Lookup, Contact, KybMail, Supply, PageScroll, Reveal, Counters, Opening,
  Stage, Records

VARIABLE part

siteVars ==
  <<part, readersVars, lookupVars, contactVars, kybVars, supplyVars, pageVars, revealVars,
    countersVars, openingVars, stageVars, recordsVars>>

OfReaders(A) ==
  /\ part = "readers" /\ A
  /\ UNCHANGED <<part, lookupVars, contactVars, kybVars, supplyVars, pageVars, revealVars,
                 countersVars, openingVars, stageVars, recordsVars>>

OfLookup(A) ==
  /\ part = "lookup" /\ A
  /\ UNCHANGED <<part, readersVars, contactVars, kybVars, supplyVars, pageVars,
                 revealVars, countersVars, openingVars, stageVars, recordsVars>>

OfContact(A) ==
  /\ part = "contact" /\ A
  /\ UNCHANGED <<part, readersVars, lookupVars, kybVars, supplyVars, pageVars, revealVars,
                 countersVars, openingVars, stageVars, recordsVars>>

OfKyb(A) ==
  /\ part = "kyb" /\ A
  /\ UNCHANGED <<part, readersVars, lookupVars, contactVars, supplyVars, pageVars,
                 revealVars, countersVars, openingVars, stageVars, recordsVars>>

OfSupply(A) ==
  /\ part = "supply" /\ A
  /\ UNCHANGED <<part, readersVars, lookupVars, contactVars, kybVars, pageVars,
                 revealVars, countersVars, openingVars, stageVars, recordsVars>>

OfPage(A) ==
  /\ part = "page" /\ A
  /\ UNCHANGED <<part, readersVars, lookupVars, contactVars, kybVars, supplyVars,
                 revealVars, countersVars, openingVars, stageVars, recordsVars>>

OfReveal(A) ==
  /\ part = "reveal" /\ A
  /\ UNCHANGED <<part, readersVars, lookupVars, contactVars, kybVars, supplyVars,
                 pageVars, countersVars, openingVars, stageVars, recordsVars>>

OfCounters(A) ==
  /\ part = "counters" /\ A
  /\ UNCHANGED <<part, readersVars, lookupVars, contactVars, kybVars, supplyVars,
                 pageVars, revealVars, openingVars, stageVars, recordsVars>>

OfOpening(A) ==
  /\ part = "opening" /\ A
  /\ UNCHANGED <<part, readersVars, lookupVars, contactVars, kybVars, supplyVars,
                 pageVars, revealVars, countersVars, stageVars, recordsVars>>

OfStage(A) ==
  /\ part = "stage" /\ A
  /\ UNCHANGED <<part, readersVars, lookupVars, contactVars, kybVars, supplyVars,
                 pageVars, revealVars, countersVars, openingVars, recordsVars>>

OfRecords(A) ==
  /\ part = "records" /\ A
  /\ UNCHANGED <<part, readersVars, lookupVars, contactVars, kybVars, supplyVars,
                 pageVars, revealVars, countersVars, openingVars, stageVars>>

Parts == {"readers", "lookup", "contact", "kyb", "supply", "page", "reveal", "counters",
          "opening", "stage", "records"}

\* What fixes the initial state of a part that rests.
Resting ==
  /\ part = "readers" \/ endpoint = None
  /\ part = "contact" \/ mailEnv = [key |-> TRUE, segment |-> TRUE]
  /\ part = "page" \/ page = CHOOSE p \in Page : p.y = 0
  /\ part = "reveal" \/ doc = CHOOSE d \in Documents : TRUE
  /\ part = "opening" \/ (holds = {} /\ percent = CHOOSE c \in [Day -> Coverage] : TRUE)
  /\ part = "stage" \/ scroll = 0
  /\ part = "records" \/ (shownPage = "home" /\ plan = CHOOSE p \in Plan : p.shortDays = {})

SiteInit ==
  /\ part \in Parts /\ Resting
  /\ ReadersInit /\ LookupInit /\ KybInit /\ SupplyInit /\ CountersInit /\ ContactInit
  /\ PageInit /\ (part = "page" \/ media.reduced)
  /\ RevealInit /\ (part = "reveal" \/ motion.reduced)
  /\ OpeningInit
  /\ StageInit /\ (part = "stage" \/ ~matches.now)
  /\ RecordsInit
  /\ part = "records" \/ customer.query.reference = CHOOSE c \in Customer : TRUE

SiteNext ==
  \/ OfReaders(ReadersNext)
  \/ OfLookup(LookupNext)
  \/ OfContact(ContactNext)
  \/ OfKyb(KybNext)
  \/ OfSupply(SupplyNext)
  \/ OfPage(PageNext)
  \/ OfReveal(RevealNext)
  \/ OfCounters(CountersNext)
  \/ OfOpening(OpeningNext)
  \/ OfStage(StageNext)
  \/ OfRecords(RecordsNext)

SiteSpec == SiteInit /\ [][SiteNext]_siteVars

\* No part names an institution.
Interchangeable == Permutations(Org)
-----------------------------------------------------------------------------
\* The types of the eleven parts.
SiteTypeOK ==
  /\ ReadersTypeOK /\ LookupTypeOK /\ ContactTypeOK /\ KybTypeOK /\ SupplyTypeOK
  /\ PageTypeOK /\ RevealTypeOK /\ CountersTypeOK /\ OpeningTypeOK /\ StageTypeOK
  /\ RecordsTypeOK

\* What a form says about the mail and the list is so, although the mail service may
\* refuse or lose any call and submissions of one address race; and the throttle of the
\* review route holds over every window.
MailsAreHonest ==
  /\ SentIsStored /\ ConfirmedTwiceOnlyIfRaced /\ UnconfirmedOnlyIfFault
  /\ BurstIsBounded /\ OkIsConfirmed

\* The figures the website shows (the record's days, coverage and amounts, and the
\* supply on Stellar) are true to what they are computed from, and recent.
FiguresAreTrue ==
  /\ HistoryIsConsistent /\ PercentIsNeverRoundedUp /\ CheckTellsTheGap
  /\ FocusIsOnTheDay /\ AnswerIsOfTheField /\ AmountsAreCut /\ ShownIsRecent

\* Whatever order the browser's events, frames, timers and preferences come in, the
\* page settles: it is locked only behind its menu, nothing stays hidden or half
\* counted, and the chapter and the opening show the step and day they are at, but for
\* what each part names: what the directors of several routes left stuck, the record of a
\* chapter that was unpinned, and a loop that was told "seen" and "no longer seen" at once.
PageSettles ==
  /\ LockFollowsMenu /\ ButtonFollowsPage
  /\ AutoMarkIsOutermost /\ HiddenOnlyIfWaiting
  /\ CountSettles /\ CalendarReadsWhole /\ UnseenSweepEndedUnseen
  /\ ValueShowsTheDay /\ LoopRunsIfSeen
  /\ StepFollowsScroll /\ NothingBeforeItsStep

\* What a step may never do: put an older supply in the cache unless two reads
\* overlapped, move the page behind an open menu, or end a button's scroll elsewhere.
SiteSteps == OlderOnlyIfOverlapped /\ LockedPageStays /\ ArrivesAtItsStep
=============================================================================
