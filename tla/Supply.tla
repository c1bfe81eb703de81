------------------------------- MODULE Supply -------------------------------
(***************************************************************************)
(* The supplies the website reads from Horizon: one snapshot for all       *)
(* visitors of a server, kept for five minutes.  Pages that find it too    *)
(* old read Horizon at once, each for itself, and the last to finish       *)
(* leaves its snapshot.                                                    *)
(*                                                                         *)
(* Horizon is external: it answers with the ledger of the moment or fails. *)
(* A ledger closes in every tick of the clock.                            *)
(***************************************************************************)
EXTENDS Naturals, Sequences, Absent

CONSTANTS
  Asset,      \* watchedAssets
  Ttl,        \* TTL_MS in ticks
  Timeout,    \* TIMEOUT_MS in ticks
  MaxSupplyClock,   \* bound: ticks
  MaxReads    \* bound: reads of Horizon

ASSUME SupplyAssumption ==
  /\ Asset # {} /\ Ttl \in Nat \ {0} /\ Timeout \in Nat \ {0} /\ MaxSupplyClock \in Nat /\ MaxReads \in Nat /\ "ledger" \notin Asset
  /\ None \notin Nat

VARIABLES
  time,
  cached,   \* the snapshot and when it was kept, or None
  reads,    \* readSupplySnapshot past the cache: since when, and what was answered:
            \* when Horizon gave it, or None
  shown     \* what the page that was answered last shows, and when

supplyVars == <<time, cached, reads, shown>>

Fetch == Asset \cup {"ledger"}
Answer == 0 .. MaxSupplyClock

\* getJson gives up after TIMEOUT_MS.
Expired(read) == time >= read.since + Timeout

Fresh_always(at) == TRUE

Fresh(at) == time - at < Ttl

Snapshot(read) ==
  [ledger |-> read.answers["ledger"],
   rows |-> [a \in {a \in Asset : read.answers[a] # None} |-> read.answers[a]]]

Readable_any(read) == read.answers["ledger"] # None

\* A ledger, and at least one asset.
Readable(read) ==
  read.answers["ledger"] # None /\ \E a \in Asset : read.answers[a] # None

ShowFigures(snapshot) == shown' = [at |-> time, snapshot |-> snapshot]
-----------------------------------------------------------------------------
OpenFromCache ==
  /\ cached # None /\ Fresh(cached.at)
  /\ ShowFigures(cached.snapshot)
  /\ UNCHANGED <<time, cached, reads>>

Open ==
  /\ cached # None => ~Fresh(cached.at)
  /\ Len(reads) < MaxReads
  /\ reads' = Append(reads, [since |-> time, answers |-> << >>])
  /\ UNCHANGED <<time, cached, shown>>

HorizonAnswers(i, r) ==
  /\ reads[i].since # None /\ r \notin DOMAIN reads[i].answers
  /\ \E a \in (IF Expired(reads[i]) THEN {} ELSE {time}) \cup {None} :
       reads' = [reads EXCEPT ![i].answers =
                   [q \in DOMAIN @ \cup {r} |-> IF q = r THEN a ELSE @[q]]]
  /\ UNCHANGED <<time, cached, shown>>

Kept_since(read) == [at |-> read.since, snapshot |-> Snapshot(read)]

Kept(read) == [at |-> time, snapshot |-> Snapshot(read)]

\* Promise.all has every answer.
Finish(i) ==
  /\ reads[i].since # None
  /\ DOMAIN reads[i].answers = Fetch
  /\ IF Readable(reads[i])
     THEN cached' = Kept(reads[i]) /\ ShowFigures(Snapshot(reads[i]))
     ELSE ShowFigures(None) /\ UNCHANGED cached
  /\ reads' = [reads EXCEPT ![i] = [since |-> None, answers |-> << >>]]
  /\ UNCHANGED time

\* No request is awaited when its time is over.
SupplyTick ==
  /\ time < MaxSupplyClock
  /\ \A i \in DOMAIN reads : reads[i].since # None => ~Expired(reads[i])
  /\ time' = time + 1
  /\ UNCHANGED <<cached, reads, shown>>

SupplyInit ==
  time = 0 /\ cached = None /\ reads = << >> /\ shown = [at |-> 0, snapshot |-> None]

SupplyNext ==
  \/ OpenFromCache \/ Open \/ SupplyTick
  \/ \E i \in DOMAIN reads : Finish(i) \/ \E r \in Fetch : HorizonAnswers(i, r)

SupplySpec == SupplyInit /\ [][SupplyNext]_supplyVars
-----------------------------------------------------------------------------
\* The types of the snapshot: it has a ledger and at least one row (SupplyFigure and
\* StatSentence show the first).
SupplyTypeOK ==
  /\ time \in 0 .. MaxSupplyClock
  /\ \A s \in {shown.snapshot} \cup (IF cached = None THEN {} ELSE {cached.snapshot}) :
       s # None => /\ s.ledger \in Answer
                   /\ DOMAIN s.rows \subseteq Asset /\ DOMAIN s.rows # {}
                   /\ \A a \in DOMAIN s.rows : s.rows[a] \in Answer

\* TTL_MS and TIMEOUT_MS: no page shows figures Horizon gave longer ago than the time
\* to live and one read, although the time is taken when the read is over.
ShownIsRecent ==
  shown.snapshot # None =>
    \A t \in {shown.snapshot.ledger} \cup {shown.snapshot.rows[a] : a \in DOMAIN shown.snapshot.rows} :
      shown.at - t < Ttl + Timeout

\* The snapshot goes back to an older ledger only if a read that was started before
\* the kept one was over finishes after it.
OlderOnlyIfOverlapped ==
  [][cached # None /\ cached'.snapshot.ledger < cached.snapshot.ledger =>
       \E i \in DOMAIN reads :
         reads[i].since # None /\ reads'[i].since = None /\ reads[i].since <= cached.at]_supplyVars
=============================================================================
