----------------------------- MODULE Publisher -----------------------------
(***************************************************************************)
(* The orchestrator's Stellar publisher                                    *)
(* (services/orchestrator/internal/infrastructure/stellar/publisher.go)    *)
(* and the part of the network it drives: the signer's account sequence,   *)
(* the transactions waiting for a ledger, and the registries they write.   *)
(*                                                                         *)
(* A call of PublishProof makes up to MaxAttempts attempts.  Each attempt  *)
(* loads the account, simulates, submits and polls; every RPC is a step,   *)
(* since ledgers close and other calls run between any two of them.  All   *)
(* calls sign with the one configured key, whatever tenant they are for.   *)
(***************************************************************************)
EXTENDS Solvency, Sequences, FiniteSets

CONSTANTS
  Call,           \* invocations of PublishProof
  Contract,       \* proof-registry contracts
  Amount,         \* totals that are tried
  MaxAttempts,    \* Publisher.maxAttempts
  NoContract,     \* the target of a call that has not started
  NetworkFaults,  \* whether an RPC may fail, its request having arrived or not,
                  \* and a transaction may stay unanswered past pollTimeout
  Cancels         \* whether a caller may cancel its context

ASSUME PublisherAssumption ==
  /\ Amount \subseteq Nat
  /\ NoContract \notin Contract
  /\ MaxAttempts \in Nat \ {0}
  /\ NetworkFaults \in BOOLEAN /\ Cancels \in BOOLEAN

VARIABLES
  seq,            \* sequence number of the signer's account on the ledger
  chain,          \* per contract, the published proofs, oldest first
  mempool,        \* submitted transactions that may still enter a ledger
  results,        \* what GetTransaction knows: transactions that did
  stage,          \* where each call is
  request,        \* the public inputs and target of each call
  attempt,        \* the attempt each call is in, from 1
  loaded,         \* the sequence number LoadAccount returned
  polled,         \* the attempt whose transaction hash is polled
  returned,       \* the proof id a successful call returned
  cancelled       \* calls whose context is done

ledgerVars == <<seq, chain, mempool, results>>
callVars   == <<stage, request, attempt, loaded, polled, returned, cancelled>>
pubVars    == <<seq, chain, mempool, results,
                stage, request, attempt, loaded, polled, returned, cancelled>>

Request == [contract: Contract \cup {NoContract}, reserves_total: Nat,
            liabilities_total: Nat, prev_reserves: Nat]

NoRequest == [contract |-> NoContract, reserves_total |-> 0,
              liabilities_total |-> 0, prev_reserves |-> 0]

Active   == {"load", "simulate", "send", "poll"}
Terminal == {"ok", "rejected", "bad_seq", "failed_on_chain", "gave_up"}

\* One entry of a registry, with the call that published it (a history field).
Entry == [r: Nat, l: Nat, call: Call]

\* A transaction is identified by the attempt that built it: its time bounds, whole
\* seconds, and so its hash are fresh in every attempt.  Two attempts within one
\* second and with one sequence number build the same one: see SendDuplicate.
Tx     == [call: Call, attempt: Nat, seq: Nat]
Result == [call: Call, attempt: Nat, id: Nat]     \* id 0: it failed on chain

PubTypeOK ==
  /\ seq \in Nat
  /\ chain \in [Contract -> Seq(Entry)]
  /\ mempool \subseteq Tx
  /\ results \subseteq Result
  /\ stage \in [Call -> {"idle"} \cup Active \cup Terminal]
  /\ request \in [Call -> Request]
  /\ attempt \in [Call -> Nat]
  /\ loaded \in [Call -> Nat]
  /\ polled \in [Call -> Nat]
  /\ returned \in [Call -> Nat]
  /\ cancelled \in [Call -> BOOLEAN]

PubInit ==
  /\ seq = 0
  /\ chain = [k \in Contract |-> << >>]
  /\ mempool = {}
  /\ results = {}
  /\ stage = [c \in Call |-> "idle"]
  /\ request = [c \in Call |-> NoRequest]
  /\ attempt = [c \in Call |-> 0]
  /\ loaded = [c \in Call |-> 0]
  /\ polled = [c \in Call |-> 0]
  /\ returned = [c \in Call |-> 0]
  /\ cancelled = [c \in Call |-> FALSE]
-----------------------------------------------------------------------------
(* The network.                                                            *)

ChainReserves(k) == IF chain[k] = << >> THEN 0 ELSE chain[k][Len(chain[k])].r

\* What publish_proof of the target contract answers, in the current ledger.
Accepted(q) ==
  /\ Circuit(q)
  /\ enforce_growth_baseline(Len(chain[q.contract]), ChainReserves(q.contract),
                             q.prev_reserves, q.reserves_total)

\* A ledger closes with tx in it.  A transaction enters a ledger only with the
\* account's next sequence number, and uses it up even when the contract refuses.
Apply(tx) ==
  LET q == request[tx.call]
      k == q.contract
  IN /\ tx \in mempool
     /\ tx.seq = seq + 1
     /\ seq' = seq + 1
     /\ mempool' = mempool \ {tx}
     /\ IF Accepted(q)
        THEN /\ chain' = [chain EXCEPT ![k] =
                  Append(@, [r |-> q.reserves_total, l |-> q.liabilities_total,
                             call |-> tx.call])]
             /\ results' = results \cup
                  {[call |-> tx.call, attempt |-> tx.attempt, id |-> Len(chain[k]) + 1]}
        ELSE /\ chain' = chain
             /\ results' = results \cup
                  {[call |-> tx.call, attempt |-> tx.attempt, id |-> 0]}
     /\ UNCHANGED callVars

\* A transaction is evicted, or its time bounds pass.
Expire(tx) ==
  /\ tx \in mempool
  /\ NetworkFaults \/ tx.seq <= seq
  /\ mempool' = mempool \ {tx}
  /\ UNCHANGED <<seq, chain, results, callVars>>
-----------------------------------------------------------------------------
(* The publisher.                                                          *)

\* PublishProof: encode the arguments and enter invokeWithRetry.
PublishProof(c, q) ==
  /\ stage[c] = "idle"
  /\ stage' = [stage EXCEPT ![c] = "load"]
  /\ request' = [request EXCEPT ![c] = q]
  /\ attempt' = [attempt EXCEPT ![c] = 1]
  /\ UNCHANGED <<ledgerVars, loaded, polled, returned, cancelled>>

TransientError_unbounded(c) ==
  IF ~cancelled[c]
  THEN attempt' = attempt /\ stage' = [stage EXCEPT ![c] = "load"]
  ELSE attempt' = attempt /\ stage' = [stage EXCEPT ![c] = "gave_up"]

\* invokeWithRetry on a transientError: another attempt, unless the attempts are
\* used up or the context is done.
TransientError(c) ==
  IF attempt[c] < MaxAttempts /\ ~cancelled[c]
  THEN /\ attempt' = [attempt EXCEPT ![c] = @ + 1]
       /\ stage' = [stage EXCEPT ![c] = "load"]
  ELSE /\ attempt' = attempt
       /\ stage' = [stage EXCEPT ![c] = "gave_up"]

\* An RPC other than SendTransaction fails: the network's fault, or because the
\* context is done.
RpcError(c) ==
  /\ stage[c] \in {"load", "simulate", "poll"}
  /\ NetworkFaults \/ cancelled[c]
  /\ TransientError(c)
  /\ UNCHANGED <<ledgerVars, request, loaded, polled, returned, cancelled>>

LoadAccount(c) ==
  /\ stage[c] = "load"
  /\ ~cancelled[c]
  /\ loaded' = [loaded EXCEPT ![c] = seq]
  /\ stage' = [stage EXCEPT ![c] = "simulate"]
  /\ UNCHANGED <<ledgerVars, request, attempt, polled, returned, cancelled>>

\* SimulateTransaction runs the contract against the current ledger; an error it
\* reports is permanent.  So is its asking for archived entries to be restored, which
\* leaves what giving up leaves (RpcError) and is not a case of its own.  Attaching
\* footprint, fee and authorization, and the second simulation of a smart-wallet owner,
\* change no state.
Simulate(c) ==
  /\ stage[c] = "simulate"
  /\ ~cancelled[c]
  /\ stage' = [stage EXCEPT ![c] =
                 IF Accepted(request[c]) THEN "send" ELSE "rejected"]
  /\ UNCHANGED <<ledgerVars, request, attempt, loaded, polled, returned, cancelled>>

\* The transaction this attempt signs: sequence loaded + 1.
TxOf(c) == [call |-> c, attempt |-> attempt[c], seq |-> loaded[c] + 1]

HashToPoll_first(c) == IF polled[c] = 0 THEN attempt[c] ELSE polled[c]

\* The hash handed to pollResult is that of the transaction just signed.
HashToPoll(c) == attempt[c]

\* SendTransaction, status PENDING.
SendPending(c) ==
  /\ stage[c] = "send"
  /\ ~cancelled[c]
  /\ loaded[c] = seq
  /\ mempool' = mempool \cup {TxOf(c)}
  /\ polled' = [polled EXCEPT ![c] = HashToPoll(c)]
  /\ stage' = [stage EXCEPT ![c] = "poll"]
  /\ UNCHANGED <<seq, chain, results, request, attempt, loaded, returned, cancelled>>

\* SendTransaction, status DUPLICATE: the network holds this very transaction, sent
\* by an earlier attempt of this call with the same sequence and time bounds.
SendDuplicate(c) ==
  /\ stage[c] = "send"
  /\ ~cancelled[c]
  /\ \E tx \in mempool :
       /\ tx.call = c /\ tx.seq = loaded[c] + 1
       /\ polled' = [polled EXCEPT ![c] = tx.attempt]
  /\ stage' = [stage EXCEPT ![c] = "poll"]
  /\ UNCHANGED <<ledgerVars, request, attempt, loaded, returned, cancelled>>

\* SendTransaction, status TRY_AGAIN_LATER: a transaction of this account waits.
SendTryAgainLater(c) ==
  /\ stage[c] = "send"
  /\ ~cancelled[c]
  /\ mempool # {}
  /\ TransientError(c)
  /\ UNCHANGED <<ledgerVars, request, loaded, polled, returned, cancelled>>

\* SendTransaction, status ERROR: the sequence number was used since LoadAccount.
SendBadSeq(c) ==
  /\ stage[c] = "send"
  /\ ~cancelled[c]
  /\ loaded[c] # seq
  /\ stage' = [stage EXCEPT ![c] = "bad_seq"]
  /\ UNCHANGED <<ledgerVars, request, attempt, loaded, polled, returned, cancelled>>

\* SendTransaction fails without an answer; the transaction arrived or did not.
SendError(c) ==
  /\ stage[c] = "send"
  /\ NetworkFaults \/ cancelled[c]
  /\ mempool' \in {mempool, mempool \cup {TxOf(c)}}
  /\ TransientError(c)
  /\ UNCHANGED <<seq, chain, results, request, loaded, polled, returned, cancelled>>

ResultsFor_account(c) == results

\* What GetTransaction answers for the polled hash; nothing means NOT_FOUND.
ResultsFor(c) == {res \in results : res.call = c /\ res.attempt = polled[c]}

\* pollResult, status SUCCESS or FAILED.
PollResult(c) ==
  /\ stage[c] = "poll"
  /\ ~cancelled[c]
  /\ \E res \in ResultsFor(c) :
       /\ returned' = [returned EXCEPT ![c] = res.id]
       /\ stage' = [stage EXCEPT ![c] =
                      IF res.id > 0 THEN "ok" ELSE "failed_on_chain"]
  /\ UNCHANGED <<ledgerVars, request, attempt, loaded, polled, cancelled>>

\* pollResult gives up after pollTimeout with the status still NOT_FOUND: the
\* transaction can no longer enter a ledger, or the network is slow.
PollTimeout(c) ==
  /\ stage[c] = "poll"
  /\ ResultsFor(c) = {}
  /\ \/ NetworkFaults
     \/ ~ \E tx \in mempool :
            tx.call = c /\ tx.attempt = polled[c] /\ tx.seq > seq
  /\ TransientError(c)
  /\ UNCHANGED <<ledgerVars, request, loaded, polled, returned, cancelled>>

\* The caller's context is done: the client went away, or the process stops.
Cancel(c) ==
  /\ Cancels
  /\ stage[c] \in {"idle"} \cup Active
  /\ ~cancelled[c]
  /\ cancelled' = [cancelled EXCEPT ![c] = TRUE]
  /\ UNCHANGED <<ledgerVars, stage, request, attempt, loaded, polled, returned>>

PublisherStep(c) ==
  \/ RpcError(c)
  \/ LoadAccount(c)
  \/ Simulate(c)
  \/ SendPending(c)
  \/ SendDuplicate(c)
  \/ SendTryAgainLater(c)
  \/ SendBadSeq(c)
  \/ SendError(c)
  \/ PollResult(c)
  \/ PollTimeout(c)

Network == \E tx \in mempool : Apply(tx) \/ Expire(tx)
-----------------------------------------------------------------------------
(* The publisher by itself, called as the proof cycle calls it: with public *)
(* inputs the prover made a proof for, one call per contract at a time.     *)

Requests ==
  {q \in [contract: Contract, reserves_total: Amount,
          liabilities_total: Amount, prev_reserves: Amount] : Circuit(q)}

CallPublish(c) ==
  \E q \in Requests :
    /\ \A d \in Call : stage[d] \in Active => request[d].contract # q.contract
    /\ PublishProof(c, q)

PubNext ==
  \/ \E c \in Call : CallPublish(c) \/ PublisherStep(c) \/ Cancel(c)
  \/ Network

PubSpec == PubInit /\ [][PubNext]_pubVars
-----------------------------------------------------------------------------
(* Properties.                                                             *)

\* The ids under which the call's totals stand on its contract.
Published(c) ==
  IF stage[c] = "idle" THEN {}
  ELSE {i \in DOMAIN chain[request[c].contract] :
          chain[request[c].contract][i].call = c}

\* The entry under id on the call's contract is the one the call asked for.
OnChain(c, id) ==
  LET q == request[c] IN
    /\ id \in DOMAIN chain[q.contract]
    /\ chain[q.contract][id] =
         [r |-> q.reserves_total, l |-> q.liabilities_total, call |-> c]

\* A call that succeeds returns the id under which its own totals stand on its
\* own contract, whichever attempt's transaction it was that landed.
OkNamesOwnProof == \A c \in Call : stage[c] = "ok" => OnChain(c, returned[c])

\* Once a call has returned an id, none of its attempts can publish any more.
NothingLandsAfterOk ==
  [][\A c \in Call : stage[c] = "ok" => Published(c)' = Published(c)]_pubVars

\* A retry publishes the same totals a second time only when they repeat the
\* previous total: otherwise the contract's baseline check refuses the repeat.
RepublishesOnlyIfFlat ==
  \A c \in Call :
    Cardinality(Published(c)) > 1 =>
      request[c].reserves_total = request[c].prev_reserves

\* What the comment in invokeWithRetry says of permanent failures: bad proof,
\* insolvent, malformed result.  A call the contract would accept as it stands is
\* none of these, so losing the sequence number to another call is not permanent.
PermanentOnlyIfRefused ==
  \A c \in Call : stage[c] = "bad_seq" => ~Accepted(request[c])
-----------------------------------------------------------------------------
(* The inductive invariants of module PublisherProofs.                     *)

\* What is known of a call's request follows its transactions on to the ledger.
Traced ==
  /\ \A c \in Call : stage[c] # "idle" => request[c].contract \in Contract
  /\ \A tx \in mempool : stage[tx.call] # "idle"
  /\ \A k \in Contract : \A i \in DOMAIN chain[k] : stage[chain[k][i].call] # "idle"
  /\ \A res \in results :
       stage[res.call] # "idle" /\ (res.id > 0 => OnChain(res.call, res.id))

LedgerInv == PubTypeOK /\ Traced /\ OkNamesOwnProof

\* An attempt signs one transaction, after the last of its earlier steps.
OneTxPerAttempt ==
  /\ \A tx \in mempool \cup results :
       /\ tx.attempt <= attempt[tx.call]
       /\ tx.attempt = attempt[tx.call] => stage[tx.call] \notin {"load", "simulate", "send"}
  /\ \A tx, ty \in mempool : tx.call = ty.call /\ tx.attempt = ty.attempt => tx = ty
  /\ \A tx \in mempool, res \in results :
       ~(tx.call = res.call /\ tx.attempt = res.attempt)

\* No transaction of a call is ahead of the sequence its latest attempt loaded;
\* the one it polls has exactly the next number; once that is used up, all of the
\* call's transactions are dead.
SequenceBound ==
  /\ \A c \in Call : loaded[c] <= seq
  /\ \A tx \in mempool : tx.seq <= loaded[tx.call] + 1
  /\ \A c \in Call : stage[c] = "poll" =>
       /\ \A tx \in mempool :
            tx.call = c /\ tx.attempt = polled[c] => tx.seq = loaded[c] + 1
       /\ ResultsFor(c) # {} => loaded[c] < seq
  /\ \A c \in Call, tx \in mempool : stage[c] = "ok" /\ tx.call = c => tx.seq <= seq

SequenceInv == OneTxPerAttempt /\ SequenceBound
=============================================================================
