------------------------------ MODULE Figures ------------------------------
(***************************************************************************)
(* The figures the console and the oracle compute from published proofs:   *)
(* the anomaly flags (packages/shared-types/src/anomaly.ts) and the margin *)
(* in basis points (apps/web/src/lib/format.ts).  Both divide BigInts,     *)
(* which truncates towards zero.                                           *)
(*                                                                         *)
(* A history is fetched proof by proof, in no particular order.  Times are *)
(* in hours.                                                               *)
(***************************************************************************)
EXTENDS Integers, Sequences, SequencesExt

CONSTANTS
  Total,         \* totals a proof may state
  Published,     \* times of publication
  MaxHistory     \* bound: proofs in a history

ASSUME FiguresAssumption == Total \subseteq Nat /\ Published \subseteq Nat /\ MaxHistory \in Nat

VARIABLE history

PublishedProof == [reserves: Total, liabilities: Total, at: Published]

FiguresTypeOK == history \in Seq(PublishedProof)

\* The division of BigInts.
Div(a, b) == IF a >= 0 THEN a \div b ELSE -((-a) \div b)

\* Number.POSITIVE_INFINITY: above every threshold.
Infinity == 1000000000

\* In hundredths of a percent.
percentChange_floor(prev, curr) ==
  IF prev = 0 THEN IF curr = 0 THEN 0 ELSE Infinity
  ELSE ((curr - prev) * 10000) \div prev
percentChange(prev, curr) ==
  IF prev = 0 THEN IF curr = 0 THEN 0 ELSE Infinity
  ELSE Div((curr - prev) * 10000, prev)

\* DEFAULT_THRESHOLDS: 10 and 15 percent, 26 hours.
reserveDriftPct == 1000
liabilitySpikePct == 1500
cycleTimingGap == 26

severityFor(magnitude, threshold) ==
  IF magnitude >= threshold * 2 THEN "critical"
  ELSE IF magnitude >= threshold THEN "warning" ELSE "info"

Flag(kind, severity, at) == [kind |-> kind, severity |-> severity, at |-> at]

\* The flags of a cycle against the one before it.
FlagsOf(prev, curr) ==
  LET drift == percentChange(prev.reserves, curr.reserves)
      spike == percentChange(prev.liabilities, curr.liabilities)
      gap == curr.at - prev.at
  IN (IF drift <= -reserveDriftPct
      THEN {Flag("reserve_drift", severityFor(-drift, reserveDriftPct), curr.at)} ELSE {})
     \cup
     (IF spike >= liabilitySpikePct
      THEN {Flag("liability_spike", severityFor(spike, liabilitySpikePct), curr.at)} ELSE {})
     \cup
     (IF gap > cycleTimingGap
      THEN {Flag("cycle_timing_gap", severityFor(gap, cycleTimingGap), curr.at)} ELSE {})

\* The proofs from the first to the last; the times of a history differ, so it has one
\* order.
IsInOrder(ordered, proofs) ==
  /\ Range(ordered) = Range(proofs)
  /\ \A i, j \in DOMAIN ordered : i < j => ordered[i].at < ordered[j].at

Ordered(proofs) == CHOOSE ordered \in [DOMAIN proofs -> Range(proofs)] : IsInOrder(ordered, proofs)

detectAnomalies(proofs) ==
  LET ordered == Ordered(proofs)
  IN UNION {FlagsOf(ordered[i - 1], ordered[i]) : i \in 2..Len(proofs)}

marginBps_rounded(reserves, liabilities) ==
  IF liabilities <= 0 THEN 0
  ELSE Div((reserves - liabilities) * 10000 + liabilities \div 2, liabilities)
marginBps(reserves, liabilities) ==
  IF liabilities <= 0 THEN 0 ELSE Div((reserves - liabilities) * 10000, liabilities)

\* toProofs: a history as the panel or the oracle has it.
Fetched_numbered(p) == [reserves |-> p.reserves, liabilities |-> p.liabilities]
Fetched(p) == p

fetchProof(p) ==
  /\ Len(history) < MaxHistory
  /\ \A i \in DOMAIN history : history[i].at # p.at
  /\ history' = Append(history, Fetched(p))

FiguresInit == history = << >>
FiguresNext == \E p \in PublishedProof : fetchProof(p)
-----------------------------------------------------------------------------
(* Properties.                                                             *)

\* The cycle before this one, whatever the order of arrival.
Before(proofs, curr) ==
  {p \in Range(proofs) : /\ p.at < curr.at
                         /\ \A q \in Range(proofs) : q.at < curr.at => q.at <= p.at}

\* How far a change is past a threshold in percent, without dividing.
Past(change, base, pct) ==
  IF base = 0 THEN IF change > 0 THEN {"critical"} ELSE {}
  ELSE IF 100 * change >= 2 * pct * base THEN {"critical"}
  ELSE IF 100 * change >= pct * base THEN {"warning"} ELSE {}

\* The flags of detectAnomalies are exactly the ones its thresholds ask for, with the
\* exact percentages and whatever order the proofs came in: truncation neither hides a
\* fall of 10 percent nor flags one just below it.
FlagsAreExact ==
  detectAnomalies(history) =
    UNION {UNION {
        {Flag("reserve_drift", s, c.at) :
           s \in IF p.reserves = 0 THEN {} ELSE Past(p.reserves - c.reserves, p.reserves, 10)}
        \cup {Flag("liability_spike", s, c.at) : s \in Past(c.liabilities - p.liabilities, p.liabilities, 15)}
        \cup (IF c.at - p.at <= 26 THEN {}
              ELSE {Flag("cycle_timing_gap", IF c.at - p.at >= 52 THEN "critical" ELSE "warning",
                         c.at)})
      : p \in Before(history, c)} : c \in Range(history)}

\* The margin shown is never above the true one when reserves cover liabilities; when
\* they do not, it is never positive and less than one basis point off.
MarginIsSafe ==
  \A i \in DOMAIN history :
    LET r == history[i].reserves
        l == history[i].liabilities
        exact == (r - l) * 10000
        shown == marginBps(r, l) * l
    IN l > 0 => IF r >= l THEN shown <= exact /\ exact < shown + l
                ELSE shown <= 0 /\ exact <= shown /\ shown < exact + l
\* detectAnomalies and coverageMargin truncate, and the figures stand nevertheless.
FiguresAreExact == FlagsAreExact /\ MarginIsSafe
=============================================================================
