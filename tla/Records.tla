------------------------------ MODULE Records ------------------------------
(***************************************************************************)
(* The example record of the website: its history of days, the picker of a *)
(* day, the check that moves the reserves, the lending rule and the        *)
(* customer's check.  All of it is arithmetic and local state; amounts are *)
(* in base units, as small as the tests of their rounding need.            *)
(***************************************************************************)
EXTENDS Integers, FiniteSets, Sequences, Absent

CONSTANTS
  Owed,       \* what the latest record owes
  Held,       \* what it may hold
  Growth,     \* SUPPLY_GROWTH_PER_DAY
  DaysKept,   \* the days of the history
  Reserves,   \* the basis points the reserves are moved to
  Customer,   \* the references of the snapshot
  Stranger    \* well-formed references that are not in it

ASSUME RecordsAssumption ==
  /\ Owed \in Nat /\ Held \subseteq Nat /\ Growth \in Nat /\ Growth * DaysKept < Owed
  /\ DaysKept \in Nat \ {0} /\ Reserves \subseteq Nat /\ 10000 \in Reserves
  /\ \E most \in Reserves : \A other \in Reserves : most >= other
  /\ Customer # {} /\ Customer \cap Stranger = {}
  /\ None \notin Int \cup Customer \cup Stranger

VARIABLES
  shownPage,  \* the page that is open: the record, the home page or custodial apps
  plan,      \* HistoryPlan: the held amount of the latest day, the short and the stale days
  days,      \* buildHistory
  picker,    \* useDayPicker: the day selected, and the button with the focus
  coverage,   \* useCoverageCheck
  customer    \* useInclusionCheck

recordsVars == <<shownPage, plan, days, picker, coverage, customer>>
-----------------------------------------------------------------------------
(* Amounts.                                                                *)

basisPoints_rounded(owed, held) == (held * 10000 + owed \div 2) \div owed

\* coveragePercent and heldShare, before they are written as a percentage or a share.
basisPoints(owed, held) == (held * 10000) \div owed

coveragePercent(owed, held) == IF owed <= 0 THEN None ELSE basisPoints(owed, held)

coverageShortfall(owed, held) == IF held >= owed THEN 0 ELSE owed - held

stateOf(owed, held) == IF held >= owed THEN "covered" ELSE "short"

\* The digits of a fraction, most significant first.
Digits(n, decimals) == [i \in 1 .. decimals |-> (n \div (10 ^ (decimals - i))) % 10]

formatAmount(units, decimals) ==
  LET absolute == IF units < 0 THEN -units ELSE units IN
  [negative |-> units < 0, whole |-> absolute \div (10 ^ decimals),
   fraction |-> Digits(absolute % (10 ^ decimals), decimals)]

Number(digits) ==
  LET number[n \in 0 .. Len(digits)] == IF n = 0 THEN 0 ELSE 10 * number[n - 1] + digits[n]
  IN number[Len(digits)]

Padded_front(fraction, decimals) ==
  LET zeros == IF Len(fraction) < decimals THEN decimals - Len(fraction) ELSE 0
  IN [i \in 1 .. decimals |-> IF i > zeros THEN fraction[i - zeros] ELSE 0]

\* Padded with zeros, then cut.
Padded(fraction, decimals) ==
  [i \in 1 .. decimals |-> IF i <= Len(fraction) THEN fraction[i] ELSE 0]

parseAmount(text, decimals) ==
  IF text.negative THEN None
  ELSE text.whole * (10 ^ decimals) + Number(Padded(text.fraction, decimals))

\* The ticks of the Seal a meter lights (tickStyle), of count.
Lit(state, owed, held, count) ==
  LET share == IF held > owed THEN 10000 ELSE basisPoints(owed, held)
  IN IF state = "stale" THEN 0 ELSE (share * count + 5000) \div 10000
-----------------------------------------------------------------------------
(* The history.                                                            *)

LedgersPerDay == 15840

Provable(index) == 10200 + ((index * 37) % 41) * 10

LastProven_latest(results, p) == [owed |-> Owed, held |-> p.held]

\* The figures of the last day with a proof, or else of the latest.
LastProven(results, p) ==
  LET proven == {i \in DOMAIN results : results[i].ledger # None}
      last == CHOOSE i \in proven : \A j \in proven : j <= i
  IN IF proven = {} THEN [owed |-> Owed, held |-> p.held]
     ELSE [owed |-> results[last].owed, held |-> results[last].held]

\* A day of the history, the first being 0; `back` days before the latest.
DayResult(results, index, p) ==
  LET back == DaysKept - 1 - index
      owed == Owed - back * Growth
      points == IF index \in p.shortDays THEN 9940 ELSE Provable(index)
      held == (owed * points) \div 10000
      last == LastProven(results, p)
  IN IF back = 0
     THEN [state |-> stateOf(Owed, p.held), owed |-> Owed, held |-> p.held, ledger |-> 3412088]
     ELSE IF index \in p.staleDays
     THEN [state |-> "stale", owed |-> last.owed, held |-> last.held, ledger |-> None]
     ELSE [state |-> stateOf(owed, held), owed |-> owed, held |-> held,
           ledger |-> 3412088 - back * LedgersPerDay - ((index * 37) % 211)]

buildHistory(p) ==
  LET results[n \in 0 .. DaysKept] ==
        IF n = 0 THEN << >> ELSE Append(results[n - 1], DayResult(results[n - 1], n - 1, p))
  IN results[DaysKept]

countStates(history) ==
  [s \in {"covered", "short", "stale"} |-> Cardinality({i \in DOMAIN history : history[i].state = s})]

proofDays(history) == [i \in DOMAIN history |-> history[i].ledger # None]

\* The coverage RecordsTable writes for a day, and its mark.
RecordsRow(day) ==
  [percent |-> IF day.state = "stale" THEN None ELSE coveragePercent(day.owed, day.held),
   mark |-> IF day.ledger # None THEN "Verified" ELSE "No proof"]

\* The lending rule.
collateralDecision(state) == state = "covered"
-----------------------------------------------------------------------------
(* The picker of a day.                                                    *)

Index == 0 .. DaysKept - 1

nextDayIndex_past(key, index) ==
  CASE key = "ArrowRight" -> index + 1
    [] key = "ArrowLeft" -> index - 1
    [] key = "Home" -> 0
    [] key = "End" -> DaysKept - 1

nextDayIndex(key, index) ==
  CASE key = "ArrowRight" -> IF index + 1 < DaysKept THEN index + 1 ELSE DaysKept - 1
    [] key = "ArrowLeft" -> IF index > 0 THEN index - 1 ELSE 0
    [] key = "Home" -> 0
    [] key = "End" -> DaysKept - 1

\* A click; not every browser gives a clicked button the focus.
Select(i) ==
  /\ shownPage = "record"
  /\ \E focus \in {i, picker.focus} :
       picker' = [selected |-> i, focus |-> focus, unfocused |-> focus \notin {i, None}]
  /\ UNCHANGED <<shownPage, plan, days, coverage, customer>>

\* Only the selected day can be reached with the tab key.
TabIn ==
  /\ shownPage = "record" /\ picker.focus = None
  /\ picker' = [picker EXCEPT !.focus = picker.selected]
  /\ UNCHANGED <<shownPage, plan, days, coverage, customer>>

TabOut ==
  /\ picker.focus # None
  /\ picker' = [picker EXCEPT !.focus = None, !.unfocused = FALSE]
  /\ UNCHANGED <<shownPage, plan, days, coverage, customer>>

Focused_kept(next) == picker.focus

Focused(next) == next

handleKeyDown(key) ==
  /\ picker.focus # None
  /\ LET next == nextDayIndex(key, picker.focus)
     IN picker' = [selected |-> next, focus |-> Focused(next), unfocused |-> FALSE]
  /\ UNCHANGED <<shownPage, plan, days, coverage, customer>>
-----------------------------------------------------------------------------
(* The coverage check.                                                        *)

CheckHeld(points) == (Owed * points) \div 10000

Covers_more(held) == held > Owed

Covers(held) == held >= Owed

Checked ==
  LET held == CheckHeld(coverage.basisPoints)
      covered == Covers(held)
      state == IF ~coverage.fresh THEN "stale" ELSE IF covered THEN "covered" ELSE "short"
  IN [state |-> state, held |-> held, percent |-> coveragePercent(Owed, held),
      shortfall |-> IF covered THEN 0 ELSE Owed - held,
      surplus |-> IF covered THEN held - Owed ELSE 0]

MoveReserves ==
  /\ shownPage = "home"
  /\ \E p \in Reserves : coverage' = [coverage EXCEPT !.basisPoints = p]
  /\ UNCHANGED <<shownPage, plan, days, picker, customer>>

SetFresh ==
  /\ shownPage = "home"
  /\ coverage' = [coverage EXCEPT !.fresh = ~@]
  /\ UNCHANGED <<shownPage, plan, days, picker, customer>>
-----------------------------------------------------------------------------
(* The customer's check.                                                      *)

\* What may be typed: a reference as it is shown, with other case, blanks or no dash,
\* or something else.
Typed == [reference: Customer \cup Stranger, form: {"shown", "loose"}]
Empty == [reference |-> None, form |-> "malformed"]

AsShown(r) == [reference |-> r, form |-> "shown"]

normalizeReference(input) == IF input.form = "malformed" THEN None ELSE input.reference

checkReference(input) ==
  LET reference == normalizeReference(input) IN
  CASE reference = None -> [status |-> "invalid", reference |-> None]
    [] reference \in Customer -> [status |-> "counted", reference |-> reference]
    [] OTHER -> [status |-> "not-found", reference |-> reference]

AfterTyping_kept == customer.result

AfterTyping == [status |-> "idle", reference |-> None]

Type(input) ==
  /\ shownPage = "custody"
  /\ input # customer.query
  /\ customer' = [query |-> input, result |-> AfterTyping]
  /\ UNCHANGED <<shownPage, plan, days, picker, coverage>>

Pick(r) ==
  /\ shownPage = "custody"
  /\ customer' = [query |-> AsShown(r), result |-> checkReference(AsShown(r))]
  /\ UNCHANGED <<shownPage, plan, days, picker, coverage>>

Submit ==
  /\ shownPage = "custody"
  /\ customer' = [customer EXCEPT !.result = checkReference(customer.query)]
  /\ UNCHANGED <<shownPage, plan, days, picker, coverage>>

Plan == [held: Held, shortDays: SUBSET Index, staleDays: SUBSET Index]

RecordsInit ==
  /\ shownPage \in {"record", "home", "custody"}
  /\ plan \in Plan
  /\ shownPage # "record" => plan.shortDays = {} /\ plan.staleDays = {}
  /\ days = buildHistory(plan)
  /\ picker = [selected |-> DaysKept - 1, focus |-> None, unfocused |-> FALSE]
  /\ coverage = [basisPoints |-> CHOOSE p \in Reserves : \A other \in Reserves : p >= other,
              fresh |-> TRUE]
  /\ \E r \in Customer :
       customer = [query |-> AsShown(r), result |-> checkReference(AsShown(r))]

RecordsNext ==
  \/ (\E i \in Index : Select(i)) \/ TabIn \/ TabOut
  \/ \E key \in {"ArrowRight", "ArrowLeft", "Home", "End"} : handleKeyDown(key)
  \/ MoveReserves \/ SetFresh
  \/ (\E input \in Typed \cup {Empty} : Type(input)) \/ (\E r \in Customer : Pick(r)) \/ Submit

RecordsSpec == RecordsInit /\ [][RecordsNext]_recordsVars
-----------------------------------------------------------------------------
\* The types of the pages' state.
RecordsTypeOK ==
  /\ Len(days) = DaysKept
  /\ picker.selected \in Index /\ picker.focus \in Index \cup {None}
  /\ coverage.basisPoints \in Reserves /\ coverage.fresh \in BOOLEAN
  /\ customer.query \in Typed \cup {Empty}
  /\ customer.result.status \in {"idle", "invalid", "counted", "not-found"}

\* buildHistory: a day has a ledger unless it is stale, the ledgers of the proofs grow,
\* a stale day repeats the last proof (the latest, before the first), lending accepts no
\* day whose reserves fell short or were not proven, and the proofs that the Seal counts
\* (the days without the stale ones) are the ticks that it draws solid.
HistoryIsConsistent ==
  shownPage = "record" =>
    /\ countStates(days)["stale"] = Cardinality({i \in DOMAIN days : ~proofDays(days)[i]})
    /\ \A i \in DOMAIN days :
         LET day == days[i]
             proven == {j \in 1 .. i - 1 : days[j].ledger # None}
             before == IF proven = {} THEN DaysKept ELSE CHOOSE j \in proven : \A k \in proven : j >= k
         IN /\ (day.state = "stale") = (day.ledger = None)
            /\ (RecordsRow(day).mark = "No proof") = (RecordsRow(day).percent = None)
            /\ day.ledger # None => \A j \in proven : days[j].ledger < day.ledger
            /\ day.ledger = None => day.owed = days[before].owed /\ day.held = days[before].held
            /\ collateralDecision(day.state) => day.held >= day.owed /\ proofDays(days)[i]

\* "Held divided by owed, never rounded up": a percentage reaches 100.00 exactly if the
\* reserves cover what is owed, for the days of the history and for the check.
PercentIsNeverRoundedUp ==
  /\ \A i \in DOMAIN days :
       (coveragePercent(days[i].owed, days[i].held) >= 10000)
         = (coverageShortfall(days[i].owed, days[i].held) = 0)
  /\ (Checked.percent >= 10000) = (Checked.shortfall = 0)

\* The coverage check: covered from exactly what is owed on, the gap or the surplus in
\* full, and a meter that is full when covered and empty when stale.
CheckTellsTheGap ==
  /\ (Checked.state = "covered") = (coverage.fresh /\ coverage.basisPoints >= 10000)
  /\ Checked.state = "short" => Checked.shortfall > 0 /\ Checked.held + Checked.shortfall = Owed
  /\ Checked.state = "covered" => Checked.held - Checked.surplus = Owed
  /\ LET lit == Lit(Checked.state, Owed, Checked.held, 72)
     IN (Checked.state = "covered" => lit = 72) /\ (Checked.state = "stale" => lit = 0)

\* useDayPicker's roving tab index: the arrow keys go on from the day that is shown,
\* except after a click in a browser that left the focus where it was.
FocusIsOnTheDay == picker.focus # None => picker.focus = picker.selected \/ picker.unfocused

\* The reducer of the customer's check: an answer on the screen is the one of what the
\* field says, whatever was typed, picked and submitted before.
AnswerIsOfTheField ==
  customer.result.status # "idle" => customer.result = checkReference(customer.query)

\* parseAmount takes back what formatAmount wrote for the record page, also at another
\* scale, cut and never rounded (supplyFromRecord reads Horizon's amounts with it).
AmountsAreCut ==
  shownPage = "record" => LET units == days[1].held IN
  \A from \in 0 .. 3, to \in 0 .. 3 :
    parseAmount(formatAmount(units, from), to)
      = IF to >= from THEN units * (10 ^ (to - from)) ELSE units \div (10 ^ (from - to))
=============================================================================
