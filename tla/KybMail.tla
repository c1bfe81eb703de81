------------------------------ MODULE KybMail ------------------------------
(***************************************************************************)
(* The console's POST /api/kyb: its per-instance throttle, which counts in *)
(* fixed windows, and the two mails of a submission.  One instance and one *)
(* caller's address; time is in ticks.                                     *)
(***************************************************************************)
EXTENDS Naturals, FiniteSets, Sequences, Absent

CONSTANTS
  Window,        \* WINDOW_MS in ticks
  MaxPerWindow,  \* MAX_PER_WINDOW
  MaxClock,      \* bound: ticks
  MaxPosts       \* bound: requests

ASSUME KybAssumption ==
  /\ None \notin Nat /\ None \notin [count: Nat, resetAt: Nat]
  /\ Window \in Nat \ {0} /\ MaxPerWindow \in Nat \ {0} /\ MaxClock \in Nat /\ MaxPosts \in Nat

VARIABLES
  clock,
  hits,        \* the entry of the caller, or None
  requests     \* every request: when it came, what it awaits, its answer and its mails

kybVars == <<clock, hits, requests>>

KybInit == clock = 0 /\ hits = None /\ requests = << >>

Tick ==
  /\ clock < MaxClock /\ clock' = clock + 1
  /\ UNCHANGED <<hits, requests>>

\* rateLimited: the first request opens a window; a later one counts in it, also when it
\* is refused, until the window is over.
WindowOver_always == TRUE
WindowOver == hits = None \/ clock > hits.resetAt

Hit_zero == IF WindowOver THEN [count |-> 0, resetAt |-> clock + Window]
            ELSE [hits EXCEPT !.count = @ + 1]
Hit == IF WindowOver THEN [count |-> 1, resetAt |-> clock + Window]
       ELSE [hits EXCEPT !.count = @ + 1]

rateLimited(hit) == hit.count > MaxPerWindow

\* POST up to its first mail.
Received(at, status) ==
  requests' = Append(requests, [time |-> clock, at |-> at, status |-> status,
                                applicant |-> FALSE, team |-> FALSE])

sameOrigin(origin) == origin = "same"

POST(origin, valid) ==
  /\ Len(requests) < MaxPosts
  /\ \/ ~sameOrigin(origin) /\ Received("done", 403) /\ UNCHANGED hits
     \/ /\ sameOrigin(origin) /\ hits' = Hit
        /\ \/ rateLimited(Hit) /\ Received("done", 429)
           \/ ~rateLimited(Hit) /\ ~valid /\ Received("done", 400)
           \/ ~rateLimited(Hit) /\ valid /\ Received("applicant", None)
  /\ UNCHANGED clock

Request(i, r) == requests' = [requests EXCEPT ![i] = r]

\* The two mails: what is known of them is whether they were accepted.
kybReceived(r) == [r EXCEPT !.applicant = TRUE]
kybNotification(r, accepted) == [r EXCEPT !.team = accepted]
Answered(r, status) == [r EXCEPT !.at = "done", !.status = status]

\* sendKybSubmitted: the applicant's confirmation has to land.
AfterRefusal_team(i) == Request(i, [requests[i] EXCEPT !.at = "team"])
AfterRefusal(i) == Request(i, Answered(requests[i], 500))

mailApplicant(i) ==
  /\ requests[i].at = "applicant"
  /\ Request(i, [kybReceived(requests[i]) EXCEPT !.at = "team"]) \/ AfterRefusal(i)
  /\ UNCHANGED <<clock, hits>>

\* The team's notification may fail.
notifyTeam(i) ==
  /\ requests[i].at = "team"
  /\ \E ok \in BOOLEAN : Request(i, Answered(kybNotification(requests[i], ok), 200))
  /\ UNCHANGED <<clock, hits>>

KybNext ==
  \/ Tick
  \/ \E origin \in {"same", "other"}, valid \in BOOLEAN : POST(origin, valid)
  \/ \E i \in DOMAIN requests : mailApplicant(i) \/ notifyTeam(i)

KybSpec == KybInit /\ [][KybNext]_kybVars
-----------------------------------------------------------------------------
Status == {200, 400, 403, 429, 500}

KybTypeOK ==
  /\ clock \in 0..MaxClock
  /\ hits \in [count: 1..MaxPosts, resetAt: Nat] \cup {None}
  /\ \A i \in DOMAIN requests : requests[i].at = "done" <=> requests[i].status \in Status

Admitted(x) == {i \in DOMAIN requests : requests[i].time \in x..(x + Window - 1)
                                         /\ requests[i].status \notin {403, 429}}

\* A fixed window is not a sliding one: across the end of a window nearly twice the limit
\* may pass within one window's length, and never more.
BurstIsBounded == \A x \in 0..MaxClock : Cardinality(Admitted(x)) < 2 * MaxPerWindow

\* The applicant is told ok only when the confirmation was accepted, and the team hears of
\* no submission whose applicant was not written to.
OkIsConfirmed ==
  \A i \in DOMAIN requests :
    requests[i].status = 200 \/ requests[i].team => requests[i].applicant
=============================================================================
