------------------------------- MODULE Lookup -------------------------------
(***************************************************************************)
(* The two public pages of the console: verify (a proof by its id) and     *)
(* inclusion (a customer's reference).  A lookup may be started while      *)
(* another is awaited: by a sample button or a link with ?id=, which no    *)
(* state disables.                                                         *)
(*                                                                         *)
(* Both pages read mocks that answer after a fixed delay, so the lookups   *)
(* of a page return in the order they were started.                        *)
(***************************************************************************)
EXTENDS Naturals, Sequences, SequencesExt, Absent

CONSTANTS
  RecordId,     \* the ids in RECORDS; they are the samples as well
  OtherId,      \* ids nothing is published under
  Included,     \* INCLUDED, the references of the latest proof
  OtherRef,     \* references that are not
  Sample,       \* EXAMPLE_REFERENCE
  MaxLookups    \* bound: lookups of one page

ASSUME LookupAssumption ==
  /\ RecordId \cap OtherId = {} /\ Included \cap OtherRef = {} /\ Sample \in Included
  /\ None \notin RecordId \cup OtherId \cup Included \cup OtherRef \cup BOOLEAN
  /\ MaxLookups \in Nat

\* What people paste: an id as it is, or with the prefix "prf_".
Pasted == [id: RecordId \cup OtherId, prefixed: BOOLEAN]
Plain(id) == [id |-> id, prefixed |-> FALSE]
Reference == Included \cup OtherRef

VARIABLES
  verify,      \* VerifyClient
  lookups,     \* its lookups in flight
  inclusion,   \* InclusionClient
  checks,      \* its checks in flight
  started      \* history: the lookups of each page and the last of them

lookupVars == <<verify, lookups, inclusion, checks, started>>

LookupInit ==
  /\ verify = [query |-> None, state |-> "idle", proof |-> None, missed |-> None, check |-> "idle"]
  /\ lookups = << >>
  /\ inclusion = [field |-> None, state |-> "idle", result |-> None, checked |-> None]
  /\ checks = << >>
  /\ started = [verify |-> [n |-> 0, last |-> None], inclusion |-> [n |-> 0, last |-> None]]
-----------------------------------------------------------------------------
(* The verify page.                                                        *)

typeQuery(q) ==
  /\ verify' = [verify EXCEPT !.query = q]
  /\ UNCHANGED <<lookups, inclusion, checks, started>>

\* lookUp clears what is shown and asks.
lookUp(q) ==
  /\ started.verify.n < MaxLookups
  /\ verify' = [verify EXCEPT !.query = q, !.state = "loading", !.proof = None, !.check = "idle"]
  /\ lookups' = Append(lookups, q)
  /\ started' = [started EXCEPT !.verify = [n |-> @.n + 1, last |-> q]]
  /\ UNCHANGED <<inclusion, checks>>

submitQuery == verify.state # "loading" /\ verify.query # None /\ lookUp(verify.query)

sampleProof(id) == lookUp(Plain(id))

openLink(q) == lookUp(q)

\* lookupProof: the prefix is taken off, and then the id is looked for.
lookupProof_raw(q) == IF q.prefixed \/ q.id \notin RecordId THEN None ELSE q.id
lookupProof_unchecked(q) == q.id
lookupProof(q) == IF q.id \in RecordId THEN q.id ELSE None

\* Every lookup has a timer of its own.
Due(pending) == pending # << >>

\* The answer of the oldest lookup; a miss leaves the proof that was set where it is.
LookupReturns ==
  /\ Due(lookups)
  /\ LET q == Head(lookups)
         found == lookupProof(q)
     IN verify' = [verify EXCEPT !.state = IF found = None THEN "notfound" ELSE "found",
                                 !.proof = IF found = None THEN @ ELSE found,
                                 !.missed = IF found = None THEN q ELSE @]
  /\ lookups' = Tail(lookups)
  /\ UNCHANGED <<inclusion, checks, started>>

\* runClientCheck, whose stub answers at once that it cannot verify.
runClientCheck ==
  /\ verify.state = "found" /\ verify.proof # None
  /\ verify' = [verify EXCEPT !.check = "unavailable"]
  /\ UNCHANGED <<lookups, inclusion, checks, started>>
-----------------------------------------------------------------------------
(* The inclusion page.                                                     *)

typeReference(r) ==
  /\ inclusion' = [inclusion EXCEPT !.field = r]
  /\ UNCHANGED <<verify, lookups, checks, started>>

check(r) ==
  /\ started.inclusion.n < MaxLookups
  /\ inclusion' = [field |-> r, state |-> "checking", result |-> None, checked |-> r]
  /\ checks' = Append(checks, r)
  /\ started' = [started EXCEPT !.inclusion = [n |-> @.n + 1, last |-> r]]
  /\ UNCHANGED <<verify, lookups>>

submitReference ==
  inclusion.state # "checking" /\ inclusion.field # None /\ check(inclusion.field)

sampleReference == check(Sample)

checkInclusion(r) == r \in Included

\* An answer replaces the one that is shown, whichever check it is of.
Replaces_first(shown, next) == IF shown = None THEN next ELSE shown
Replaces(shown, next) == next

CheckReturns ==
  /\ Due(checks)
  /\ inclusion' = [inclusion EXCEPT
       !.state = "done", !.result = Replaces(@, checkInclusion(Head(checks)))]
  /\ checks' = Tail(checks)
  /\ UNCHANGED <<verify, lookups, started>>
-----------------------------------------------------------------------------
LookupNext ==
  \/ \E q \in Pasted : typeQuery(q)
  \/ \E id \in RecordId : sampleProof(id)
  \/ \E q \in Pasted : openLink(q)
  \/ submitQuery \/ LookupReturns \/ runClientCheck
  \/ \E r \in Reference : typeReference(r)
  \/ submitReference \/ sampleReference \/ CheckReturns

LookupSpec == LookupInit /\ [][LookupNext]_lookupVars
-----------------------------------------------------------------------------
LookupTypeOK ==
  /\ verify.query \in Pasted \cup {None}
  /\ verify.state \in {"idle", "loading", "found", "notfound"}
  /\ verify.proof \in RecordId \cup {None} /\ (verify.state = "found" => verify.proof # None)
  /\ lookups \in Seq(Pasted) /\ checks \in Seq(Reference)
  /\ inclusion.state \in {"idle", "checking", "done"}
  /\ inclusion.result \in BOOLEAN \cup {None} /\ (inclusion.state = "done" => inclusion.result # None)

\* Once the verify page has settled it shows the answer to the last lookup, with or
\* without the prefix, however the lookups overlapped.
SettledProofIsAsked ==
  lookups = << >> /\ started.verify.last # None =>
    LET last == started.verify.last IN
    IF last.id \in RecordId THEN verify.state = "found" /\ verify.proof = last.id
    ELSE verify.state = "notfound" /\ verify.missed = last

\* Once the inclusion page has settled, the yes or no it shows is the one of the
\* reference it names, which is the last one that was checked.
SettledAnswerIsAsked ==
  checks = << >> /\ started.inclusion.last # None =>
    /\ inclusion.state = "done" /\ inclusion.checked = started.inclusion.last
    /\ inclusion.result = (started.inclusion.last \in Included)
\* With overlapping lookups the public pages settle on the answer to what was asked.
SettledIsAsked == SettledProofIsAsked /\ SettledAnswerIsAsked
=============================================================================
