--------------------------- MODULE PublisherProofs ---------------------------
(***************************************************************************)
(* Theorems about the Stellar publisher, for every number of calls,        *)
(* contracts, amounts and attempts, whatever the network loses, delays or  *)
(* leaves unanswered and whichever contexts are cancelled.                 *)
(***************************************************************************)
EXTENDS Publisher, FiniteSetTheorems, SequenceTheorems, TLAPS

\* The caller's context ends, in Publisher and in the modules that extend it.
OnlyCancels(c) ==
  /\ cancelled' = [cancelled EXCEPT ![c] = TRUE]
  /\ UNCHANGED <<ledgerVars, stage, request, attempt, loaded, polled, returned>>

\* Every step that touches the publisher or the ledger, in every specification
\* that composes the publisher with its callers.
AnyStep ==
  \/ \E c \in Call, q \in Request : q.contract \in Contract /\ PublishProof(c, q)
  \/ \E c \in Call : PublisherStep(c) \/ OnlyCancels(c)
  \/ Network
  \/ UNCHANGED pubVars

\* A step of the publisher other than reading a final status: it leaves the
\* ledger alone, submits at most the transaction it signed, and neither starts a
\* call nor makes one succeed.
LEMMA QuietStep ==
  ASSUME PubTypeOK, NEW c \in Call, PublisherStep(c), ~PollResult(c)
  PROVE  /\ UNCHANGED <<seq, chain, results, request, returned, cancelled>>
         /\ mempool' \subseteq mempool \cup {TxOf(c)}
         /\ stage[c] \in Active
         /\ \E s \in (Active \cup Terminal) \ {"ok"} : stage' = [stage EXCEPT ![c] = s]
         /\ attempt' \in [Call -> Nat]
         /\ loaded' \in [Call -> Nat]
         /\ polled' \in [Call -> Nat]
  <1> USE DEF PubTypeOK, Active, Terminal, ledgerVars
  <1>0. ASSUME stage[c] \in Active, TransientError(c)
        PROVE  /\ attempt' \in [Call -> Nat]
               /\ \E s \in (Active \cup Terminal) \ {"ok"} : stage' = [stage EXCEPT ![c] = s]
    <2>1. CASE attempt[c] < MaxAttempts /\ ~cancelled[c]
      <3>1. attempt' = [attempt EXCEPT ![c] = attempt[c] + 1] /\ stage' = [stage EXCEPT ![c] = "load"]
        BY <1>0, <2>1 DEF TransientError
      <3>2. attempt[c] + 1 \in Nat
        OBVIOUS
      <3> QED BY <3>1, <3>2
    <2>2. CASE ~(attempt[c] < MaxAttempts /\ ~cancelled[c])
      <3>1. attempt' = attempt /\ stage' = [stage EXCEPT ![c] = "gave_up"]
        BY <1>0, <2>2 DEF TransientError
      <3> QED BY <3>1
    <2> QED BY <2>1, <2>2
  <1>1. CASE RpcError(c)
    BY <1>0, <1>1 DEF RpcError
  <1>2. CASE LoadAccount(c)
    BY <1>2 DEF LoadAccount
  <1>3. CASE Simulate(c)
    BY <1>3 DEF Simulate
  <1>4. CASE SendPending(c)
    BY <1>4 DEF SendPending, HashToPoll
  <1>5. CASE SendDuplicate(c)
    BY <1>5 DEF SendDuplicate, Tx
  <1>6. CASE SendTryAgainLater(c)
    BY <1>0, <1>6 DEF SendTryAgainLater
  <1>7. CASE SendBadSeq(c)
    BY <1>7 DEF SendBadSeq
  <1>8. CASE SendError(c)
    BY <1>0, <1>8 DEF SendError
  <1>9. CASE PollTimeout(c)
    BY <1>0, <1>9 DEF PollTimeout
  <1> QED
    BY <1>1, <1>2, <1>3, <1>4, <1>5, <1>6, <1>7, <1>8, <1>9 DEF PublisherStep

\* What a ledger close does: the chain is extended at most by the call's own
\* entry, under the id the result reports.
LEMMA ApplyEffect ==
  ASSUME LedgerInv, NEW tx \in mempool, Apply(tx)
  PROVE  /\ UNCHANGED callVars
         /\ mempool' = mempool \ {tx}
         /\ seq' = seq + 1 /\ tx.seq = seq + 1
         /\ chain' \in [Contract -> Seq(Entry)]
         /\ \A k \in Contract : \A i \in DOMAIN chain[k] :
              i \in DOMAIN chain'[k] /\ chain'[k][i] = chain[k][i]
         /\ \A k \in Contract : \A i \in DOMAIN chain'[k] :
              i \in DOMAIN chain[k] \/ chain'[k][i].call = tx.call
         /\ \E n \in Nat :
              /\ results' = results \cup {[call |-> tx.call, attempt |-> tx.attempt, id |-> n]}
              /\ n > 0 => OnChain(tx.call, n)'
  <1> DEFINE q == request[tx.call]
             k == q.contract
             e == [r |-> q.reserves_total, l |-> q.liabilities_total, call |-> tx.call]
  <1>1. tx.call \in Call /\ k \in Contract /\ e \in Entry
    BY DEF LedgerInv, PubTypeOK, Traced, Tx, Request, Entry
  <1>2. chain \in [Contract -> Seq(Entry)]
    BY DEF LedgerInv, PubTypeOK
  <1>3. /\ UNCHANGED callVars
        /\ mempool' = mempool \ {tx}
        /\ seq' = seq + 1 /\ tx.seq = seq + 1
        /\ request' = request
    BY DEF Apply, callVars
  <1>4. CASE Accepted(q)
    <2>1. /\ chain' = [chain EXCEPT ![k] = Append(@, e)]
          /\ results' = results \cup
               {[call |-> tx.call, attempt |-> tx.attempt, id |-> Len(chain[k]) + 1]}
      BY <1>4 DEF Apply
    <2> HIDE DEF e
    <2>2. Append(chain[k], e) \in Seq(Entry)
      BY <1>1, <1>2
    <2>3. chain' \in [Contract -> Seq(Entry)] /\ chain'[k] = Append(chain[k], e)
      BY <1>1, <1>2, <2>1, <2>2
    <2>4. \A j \in Contract : j # k => chain'[j] = chain[j]
      BY <1>2, <2>1
    <2>5. PICK n \in Nat : n = Len(chain[k]) + 1
      BY <1>1, <1>2
    <2>6. /\ \A i \in DOMAIN chain[k] :
               i \in DOMAIN chain'[k] /\ chain'[k][i] = chain[k][i]
          /\ \A i \in DOMAIN chain'[k] : i \in DOMAIN chain[k] \/ chain'[k][i] = e
          /\ n \in DOMAIN chain'[k]
          /\ chain'[k][n] = e
      <3> DEFINE old == chain[k]
                 new == chain'[k]
      <3>1. old \in Seq(Entry) /\ new = Append(old, e) /\ n = Len(old) + 1
        BY <1>1, <1>2, <2>3, <2>5
      <3> HIDE DEF old, new
      <3>2. DOMAIN old = 1..Len(old) /\ DOMAIN new = 1..(Len(old) + 1) /\ Len(old) \in Nat
        BY <1>1, <3>1
      <3>3. \A i \in 1..Len(old) : new[i] = old[i]
        BY <1>1, <3>1
      <3>4. new[n] = e
        BY <1>1, <3>1
      <3> QED BY SMTT(30), <3>1, <3>2, <3>3, <3>4 DEF old, new
    <2>8. OnChain(tx.call, n)'
      BY <1>3, <2>6 DEF OnChain, e
    <2>7. e.call = tx.call
      BY DEF e
    <2> QED
      BY <1>3, <2>1, <2>3, <2>4, <2>5, <2>6, <2>7, <2>8
  <1>5. CASE ~Accepted(q)
    <2>1. chain' = chain
      BY <1>5 DEF Apply
    <2>2. results' = results \cup {[call |-> tx.call, attempt |-> tx.attempt, id |-> 0]}
      BY <1>5 DEF Apply
    <2>3. 0 \in Nat /\ ~(0 > 0)
      OBVIOUS
    <2> QED
      BY <1>2, <1>3, <2>1, <2>2, <2>3
  <1> QED
    BY <1>4, <1>5

\* Published entries stay: only a ledger close touches a chain, and it appends.
LEMMA ChainGrows ==
  ASSUME LedgerInv, AnyStep
  PROVE  \A k \in Contract : \A i \in DOMAIN chain[k] :
           i \in DOMAIN chain'[k] /\ chain'[k][i] = chain[k][i]
  <1>1. ASSUME NEW tx \in mempool, Apply(tx)
        PROVE  \A k \in Contract : \A i \in DOMAIN chain[k] :
                 i \in DOMAIN chain'[k] /\ chain'[k][i] = chain[k][i]
    BY <1>1, ApplyEffect
  <1>2. CASE \E c \in Call : PublisherStep(c)
    BY <1>2, QuietStep DEF PollResult, ledgerVars, LedgerInv
  <1>3. CASE \/ \E c \in Call, q \in Request : PublishProof(c, q)
             \/ \E c \in Call : OnlyCancels(c)
             \/ \E tx \in mempool : Expire(tx)
             \/ UNCHANGED pubVars
    BY <1>3 DEF PublishProof, OnlyCancels, Expire, ledgerVars, pubVars
  <1> QED
    BY <1>1, <1>2, <1>3 DEF AnyStep, Network

\* The trace from a call's request to its entry is kept by every step.
LEMMA LedgerStep == LedgerInv /\ AnyStep => LedgerInv'
  <1> SUFFICES ASSUME LedgerInv, AnyStep PROVE LedgerInv'
    OBVIOUS
  <1>0. PubTypeOK /\ Traced /\ OkNamesOwnProof
    BY DEF LedgerInv
  <1>a. \A k \in Contract : \A i \in DOMAIN chain[k] : chain[k][i].call \in Call
    <2> SUFFICES ASSUME NEW k \in Contract, NEW i \in DOMAIN chain[k]
                 PROVE  chain[k][i].call \in Call
      OBVIOUS
    <2>1. chain[k] \in Seq(Entry)
      BY <1>0 DEF PubTypeOK
    <2>2. chain[k][i] \in Entry
      BY <2>1
    <2> QED
      BY <2>2 DEF Entry
  <1>b. ASSUME chain' = chain, \A d \in Call : stage[d] # "idle" => stage'[d] # "idle"
        PROVE  \A k \in Contract : \A i \in DOMAIN chain'[k] : stage'[chain'[k][i].call] # "idle"
    BY <1>0, <1>a, <1>b DEF Traced
  <1>1. ASSUME NEW c \in Call, NEW q \in Request, q.contract \in Contract, PublishProof(c, q)
        PROVE  LedgerInv'
    <2>1. /\ stage[c] = "idle"
          /\ UNCHANGED <<seq, chain, mempool, results, loaded, polled, returned, cancelled>>
          /\ stage' = [stage EXCEPT ![c] = "load"]
          /\ request' = [request EXCEPT ![c] = q]
          /\ attempt' = [attempt EXCEPT ![c] = 1]
      BY <1>1 DEF PublishProof, ledgerVars
    <2>2. PubTypeOK'
      BY <1>0, <1>1, <2>1 DEF PubTypeOK, Active
    <2>3. \A d \in Call : stage[d] # "idle" => d # c /\ request'[d] = request[d] /\ stage'[d] = stage[d]
      BY <1>0, <2>1 DEF PubTypeOK
    <2>4. Traced'
      <3>1. \A k \in Contract : \A i \in DOMAIN chain'[k] : stage'[chain'[k][i].call] # "idle"
        BY <1>b, <2>1, <2>3
      <3> QED
        BY ZenonT(40), <1>0, <1>1, <2>1, <2>3, <3>1 DEF PubTypeOK, Traced, OnChain, Tx, Result
    <2>5. OkNamesOwnProof'
      BY <1>0, <2>1, <2>3 DEF PubTypeOK, OkNamesOwnProof, OnChain
    <2> QED
      BY <2>2, <2>4, <2>5 DEF LedgerInv
  <1>2. ASSUME NEW c \in Call, PublisherStep(c), ~PollResult(c) PROVE LedgerInv'
    <2>1. TxOf(c) \in Tx
      BY <1>0 DEF TxOf, Tx, PubTypeOK
    <2>2. PICK s \in (Active \cup Terminal) \ {"ok"} : stage' = [stage EXCEPT ![c] = s]
      BY <1>0, <1>2, QuietStep
    <2>3. s # "idle" /\ s # "ok" /\ stage[c] # "idle"
      BY <1>0, <1>2, <2>2, QuietStep DEF Active, Terminal
    <2>4. /\ UNCHANGED <<seq, chain, results, request, returned, cancelled>>
          /\ mempool' \subseteq mempool \cup {TxOf(c)}
          /\ attempt' \in [Call -> Nat] /\ loaded' \in [Call -> Nat] /\ polled' \in [Call -> Nat]
      BY <1>0, <1>2, QuietStep
    <2>5. PubTypeOK'
      BY <1>0, <2>1, <2>2, <2>4 DEF PubTypeOK
    <2>6. \A d \in Call : /\ stage'[d] = "idle" <=> stage[d] = "idle"
                          /\ stage'[d] = "ok" => stage[d] = "ok"
      BY <1>0, <2>2, <2>3 DEF PubTypeOK
    <2>7. TxOf(c).call = c
      BY DEF TxOf
    <2>8. \A d, id : OnChain(d, id)' <=> OnChain(d, id)
      BY <2>4 DEF OnChain
    <2>9. Traced'
      <3>1. \A k \in Contract : \A i \in DOMAIN chain'[k] : stage'[chain'[k][i].call] # "idle"
        BY <1>b, <2>4, <2>6
      <3> QED
        BY <1>0, <2>3, <2>4, <2>6, <2>7, <2>8, <3>1 DEF PubTypeOK, Traced, Tx, Result
    <2>10. OkNamesOwnProof'
      BY <1>0, <2>4, <2>6, <2>8 DEF OkNamesOwnProof
    <2> QED
      BY <2>5, <2>9, <2>10 DEF LedgerInv
  <1>3. ASSUME NEW c \in Call, PollResult(c) PROVE LedgerInv'
    <2>1. PICK res \in ResultsFor(c) :
            /\ returned' = [returned EXCEPT ![c] = res.id]
            /\ stage' = [stage EXCEPT ![c] = IF res.id > 0 THEN "ok" ELSE "failed_on_chain"]
      BY <1>3 DEF PollResult
    <2>2. /\ UNCHANGED <<seq, chain, mempool, results, request, attempt, loaded, polled, cancelled>>
          /\ stage[c] = "poll"
      BY <1>3 DEF PollResult, ledgerVars
    <2>3. res \in results /\ res.call = c /\ res.id \in Nat
      BY <1>0, <2>1 DEF ResultsFor, PubTypeOK, Result
    <2>4. PubTypeOK'
      BY <1>0, <2>1, <2>2, <2>3 DEF PubTypeOK, Terminal
    <2>5. \A d, id : OnChain(d, id)' <=> OnChain(d, id)
      BY <2>2 DEF OnChain
    <2>6. \A d \in Call : /\ stage[d] # "idle" => stage'[d] # "idle"
                          /\ d # c => stage'[d] = stage[d] /\ returned'[d] = returned[d]
      BY <1>0, <2>1, <2>2 DEF PubTypeOK
    <2>7. Traced'
      <3>1. \A d \in Call : stage'[d] # "idle" => request'[d].contract \in Contract
        BY <1>0, <2>2, <2>6 DEF Traced, PubTypeOK
      <3>2. \A k \in Contract : \A i \in DOMAIN chain'[k] : stage'[chain'[k][i].call] # "idle"
        BY <1>b, <2>2, <2>6
      <3> QED
        BY <1>0, <2>2, <2>5, <2>6, <3>1, <3>2 DEF Traced, PubTypeOK, Tx, Result
    <2>8. OkNamesOwnProof'
      <3>1. stage'[c] = "ok" => OnChain(c, returned'[c])
        BY <1>0, <2>1, <2>3 DEF Traced, PubTypeOK
      <3> QED
        BY <1>0, <2>5, <2>6, <3>1 DEF OkNamesOwnProof
    <2> QED
      BY <2>4, <2>7, <2>8 DEF LedgerInv
  <1>4. ASSUME NEW c \in Call, OnlyCancels(c) PROVE LedgerInv'
    <2>1. PubTypeOK'
      BY <1>0, <1>4 DEF OnlyCancels, ledgerVars, PubTypeOK
    <2> QED
      BY <1>0, <1>4, <2>1 DEF OnlyCancels, ledgerVars, LedgerInv, Traced, OkNamesOwnProof, OnChain
  <1>5. ASSUME NEW tx \in mempool, Apply(tx) PROVE LedgerInv'
    <2>1. /\ UNCHANGED <<stage, request, attempt, loaded, polled, returned, cancelled>>
          /\ mempool' = mempool \ {tx}
          /\ seq' = seq + 1
          /\ chain' \in [Contract -> Seq(Entry)]
          /\ \A k \in Contract : \A i \in DOMAIN chain[k] :
               i \in DOMAIN chain'[k] /\ chain'[k][i] = chain[k][i]
      BY <1>5, ApplyEffect DEF callVars
    <2>2. PICK n \in Nat :
            /\ results' = results \cup {[call |-> tx.call, attempt |-> tx.attempt, id |-> n]}
            /\ n > 0 => OnChain(tx.call, n)'
      BY <1>5, ApplyEffect
    <2>3. tx.call \in Call /\ tx.attempt \in Nat /\ stage[tx.call] # "idle"
      BY <1>0 DEF PubTypeOK, Tx, Traced
    <2>4. PubTypeOK'
      BY <1>0, <2>1, <2>2, <2>3 DEF PubTypeOK, Result
    <2>5. \A d \in Call : \A id : stage[d] # "idle" /\ OnChain(d, id) => OnChain(d, id)'
      BY <1>0, <2>1 DEF OnChain, Traced
    <2>6. Traced'
      <3>1. \A res \in results' : \/ res \in results
                                  \/ res.call = tx.call /\ res.id = n
        BY <2>2
      <3>2. \A res \in results : res.call \in Call
        BY <1>0 DEF PubTypeOK, Result
      <3>3. \A res \in results' :
              stage'[res.call] # "idle" /\ (res.id > 0 => OnChain(res.call, res.id)')
        BY <1>0, <2>1, <2>2, <2>3, <2>5, <3>1, <3>2 DEF Traced
      <3>4. \A k \in Contract : \A i \in DOMAIN chain'[k] :
              i \in DOMAIN chain[k] \/ chain'[k][i].call = tx.call
        BY <1>5, ApplyEffect
      <3>5. \A k \in Contract : \A i \in DOMAIN chain'[k] : stage'[chain'[k][i].call] # "idle"
        BY <1>0, <2>1, <2>3, <3>4 DEF Traced
      <3> QED
        BY <1>0, <2>1, <3>3, <3>5 DEF Traced
    <2>7. OkNamesOwnProof'
      BY <1>0, <2>1, <2>5 DEF OkNamesOwnProof
    <2> QED
      BY <2>4, <2>6, <2>7 DEF LedgerInv
  <1>6. ASSUME NEW tx \in mempool, Expire(tx) PROVE LedgerInv'
    <2>1. /\ UNCHANGED <<seq, chain, results, stage, request, attempt, loaded, polled, returned, cancelled>>
          /\ mempool' \subseteq mempool
      BY <1>6 DEF Expire, callVars
    <2>2. PubTypeOK'
      BY <1>0, <2>1 DEF PubTypeOK
    <2> QED
      BY <1>0, <2>1, <2>2 DEF LedgerInv, Traced, OkNamesOwnProof, OnChain
  <1>7. CASE UNCHANGED pubVars
    BY <1>0, <1>7 DEF pubVars, LedgerInv, PubTypeOK, Traced, OkNamesOwnProof, OnChain
  <1> QED
    BY <1>1, <1>2, <1>3, <1>4, <1>5, <1>6, <1>7 DEF AnyStep, Network

\* Used with LedgerInv: the sequence numbers of a call's transactions stay where
\* they cannot land once the call has an answer.
LEMMA SequenceStep == LedgerInv /\ SequenceInv /\ AnyStep => SequenceInv'
  <1> SUFFICES ASSUME LedgerInv, SequenceInv, AnyStep PROVE SequenceInv'
    OBVIOUS
  <1>0. /\ PubTypeOK /\ Traced /\ OneTxPerAttempt /\ SequenceBound
        /\ \A tx \in mempool : tx.call \in Call /\ tx.attempt \in Nat /\ tx.seq \in Nat
        /\ \A res \in results : res.call \in Call /\ res.attempt \in Nat
        /\ seq \in Nat
        /\ \A c \in Call : attempt[c] \in Nat /\ loaded[c] \in Nat
    BY DEF LedgerInv, SequenceInv, PubTypeOK, Tx, Result
  <1>1. ASSUME NEW c \in Call, NEW q \in Request, PublishProof(c, q)
        PROVE  SequenceInv'
    <2>1. /\ stage[c] = "idle"
          /\ UNCHANGED <<seq, mempool, results, loaded, polled>>
          /\ \A d \in Call : d # c => stage'[d] = stage[d] /\ attempt'[d] = attempt[d]
          /\ stage'[c] = "load"
      BY <1>0, <1>1 DEF PublishProof, ledgerVars, PubTypeOK
    <2>2. \A tx \in mempool \cup results : tx.call # c
      BY <1>0, <2>1 DEF Traced
    <2>3. OneTxPerAttempt'
      BY <1>0, <2>1, <2>2 DEF OneTxPerAttempt
    <2>4. SequenceBound'
      BY <1>0, <2>1, <2>2 DEF SequenceBound, ResultsFor
    <2> QED
      BY <2>3, <2>4 DEF SequenceInv
  <1>2. ASSUME NEW c \in Call, LoadAccount(c) PROVE SequenceInv'
    <2>1. /\ stage[c] = "load" /\ stage'[c] = "simulate" /\ loaded'[c] = seq
          /\ UNCHANGED <<seq, mempool, results, attempt, polled>>
          /\ \A d \in Call : d # c => stage'[d] = stage[d] /\ loaded'[d] = loaded[d]
      BY <1>0, <1>2 DEF LoadAccount, ledgerVars, PubTypeOK
    <2>2. OneTxPerAttempt'
      BY <1>0, <2>1 DEF OneTxPerAttempt
    <2>3. SequenceBound'
      BY <1>0, <2>1 DEF SequenceBound, ResultsFor
    <2> QED
      BY <2>2, <2>3 DEF SequenceInv
  <1>3. ASSUME NEW c \in Call, Simulate(c) \/ SendBadSeq(c) PROVE SequenceInv'
    <2>1. /\ stage[c] \in {"simulate", "send"} /\ stage'[c] \in {"send", "rejected", "bad_seq"}
          /\ UNCHANGED <<seq, mempool, results, attempt, loaded, polled>>
          /\ \A d \in Call : d # c => stage'[d] = stage[d]
      BY <1>0, <1>3 DEF Simulate, SendBadSeq, ledgerVars, PubTypeOK
    <2>2. OneTxPerAttempt'
      BY <1>0, <2>1 DEF OneTxPerAttempt
    <2>3. SequenceBound'
      BY <1>0, <2>1 DEF SequenceBound, ResultsFor
    <2> QED
      BY <2>2, <2>3 DEF SequenceInv
  <1>4. ASSUME NEW c \in Call, TransientError(c)
        PROVE  /\ \/ stage'[c] = "load" /\ attempt'[c] = attempt[c] + 1
                  \/ stage'[c] = "gave_up" /\ attempt'[c] = attempt[c]
               /\ \A d \in Call : d # c => stage'[d] = stage[d] /\ attempt'[d] = attempt[d]
    BY <1>0, <1>4 DEF TransientError, PubTypeOK
  <1>5. ASSUME NEW c \in Call, RpcError(c) \/ SendTryAgainLater(c) \/ PollTimeout(c)
        PROVE  SequenceInv'
    <2>1. /\ TransientError(c)
          /\ UNCHANGED <<seq, mempool, results, loaded, polled>>
      BY <1>5 DEF RpcError, SendTryAgainLater, PollTimeout, ledgerVars
    <2>2. OneTxPerAttempt'
      BY <1>0, <1>4, <2>1 DEF OneTxPerAttempt
    <2>3. SequenceBound'
      BY <1>0, <1>4, <2>1 DEF SequenceBound, ResultsFor
    <2> QED
      BY <2>2, <2>3 DEF SequenceInv
  <1>6. ASSUME NEW c \in Call, stage[c] = "send"
        PROVE  /\ \A tx \in mempool : tx.call = c => tx.attempt < attempt[c]
               /\ \A res \in results : res.call = c => res.attempt < attempt[c]
               /\ TxOf(c).call = c /\ TxOf(c).attempt = attempt[c] /\ TxOf(c).seq = loaded[c] + 1
    BY <1>0, <1>6 DEF OneTxPerAttempt, TxOf
  <1>7. ASSUME NEW c \in Call, SendPending(c) PROVE SequenceInv'
    <2>1. /\ stage[c] = "send" /\ stage'[c] = "poll"
          /\ mempool' = mempool \cup {TxOf(c)}
          /\ polled'[c] = attempt[c]
          /\ UNCHANGED <<seq, results, attempt, loaded>>
          /\ \A d \in Call : d # c => stage'[d] = stage[d] /\ polled'[d] = polled[d]
      BY <1>0, <1>7 DEF SendPending, HashToPoll, PubTypeOK
    <2>2. OneTxPerAttempt'
      BY <1>0, <1>6, <2>1 DEF OneTxPerAttempt
    <2>3. ResultsFor(c)' = {}
      BY <1>0, <1>6, <2>1 DEF ResultsFor
    <2>4. SequenceBound'
      BY <1>0, <1>6, <2>1, <2>3 DEF SequenceBound, ResultsFor
    <2> QED
      BY <2>2, <2>4 DEF SequenceInv
  <1>8. ASSUME NEW c \in Call, SendDuplicate(c) PROVE SequenceInv'
    <2>1. PICK tx \in mempool : /\ tx.call = c /\ tx.seq = loaded[c] + 1
                                /\ polled' = [polled EXCEPT ![c] = tx.attempt]
      BY <1>8 DEF SendDuplicate
    <2>2. /\ stage[c] = "send" /\ stage'[c] = "poll" /\ polled'[c] = tx.attempt
          /\ UNCHANGED <<seq, mempool, results, attempt, loaded>>
          /\ \A d \in Call : d # c => stage'[d] = stage[d] /\ polled'[d] = polled[d]
      BY <1>0, <1>8, <2>1 DEF SendDuplicate, ledgerVars, PubTypeOK
    <2>3. OneTxPerAttempt'
      BY <1>0, <1>6, <2>2 DEF OneTxPerAttempt
    <2>4. ResultsFor(c)' = {}
      BY <1>0, <2>1, <2>2 DEF ResultsFor, OneTxPerAttempt
    <2>5. \A ty \in mempool' : ty.call = c /\ ty.attempt = polled'[c] => ty.seq = loaded'[c] + 1
      BY <1>0, <2>1, <2>2 DEF OneTxPerAttempt
    <2>6. SequenceBound'
      BY <1>0, <2>2, <2>4, <2>5 DEF SequenceBound, ResultsFor
    <2> QED
      BY <2>3, <2>6 DEF SequenceInv
  <1>9. ASSUME NEW c \in Call, SendError(c) PROVE SequenceInv'
    <2>1. /\ stage[c] = "send" /\ TransientError(c)
          /\ mempool' \subseteq mempool \cup {TxOf(c)}
          /\ UNCHANGED <<seq, results, loaded, polled>>
      BY <1>9 DEF SendError
    <2>2. OneTxPerAttempt'
      BY <1>0, <1>4, <1>6, <2>1 DEF OneTxPerAttempt
    <2>3. SequenceBound'
      BY <1>0, <1>4, <1>6, <2>1 DEF SequenceBound, ResultsFor
    <2> QED
      BY <2>2, <2>3 DEF SequenceInv
  <1>10. ASSUME NEW c \in Call, PollResult(c) PROVE SequenceInv'
    <2>1. /\ stage[c] = "poll" /\ stage'[c] \in {"ok", "failed_on_chain"}
          /\ ResultsFor(c) # {}
          /\ UNCHANGED <<seq, mempool, results, attempt, loaded, polled>>
          /\ \A d \in Call : d # c => stage'[d] = stage[d]
      BY <1>0, <1>10 DEF PollResult, ledgerVars, PubTypeOK
    <2>2. OneTxPerAttempt'
      BY <1>0, <2>1 DEF OneTxPerAttempt
    <2>3. SequenceBound'
      BY <1>0, <2>1 DEF SequenceBound, ResultsFor
    <2> QED
      BY <2>2, <2>3 DEF SequenceInv
  <1>11. ASSUME NEW tx \in mempool, Apply(tx) PROVE SequenceInv'
    <2>1. /\ UNCHANGED <<stage, request, attempt, loaded, polled, returned, cancelled>>
          /\ mempool' = mempool \ {tx}
          /\ seq' = seq + 1
      BY <1>11, ApplyEffect DEF callVars
    <2>2. PICK n \in Nat :
            results' = results \cup {[call |-> tx.call, attempt |-> tx.attempt, id |-> n]}
      BY <1>11, ApplyEffect
    <2>3. \A res \in results' : \/ res \in results
                                \/ res.call = tx.call /\ res.attempt = tx.attempt
      BY <2>2
    <2>4. OneTxPerAttempt'
      <3>1. \A res \in results' :
              /\ res.attempt <= attempt[res.call]
              /\ res.attempt = attempt[res.call] => stage[res.call] \notin {"load", "simulate", "send"}
        BY <1>0, <2>3 DEF OneTxPerAttempt
      <3>2. \A ty \in mempool', res \in results' :
              ~(ty.call = res.call /\ ty.attempt = res.attempt)
        BY <1>0, <2>1, <2>3 DEF OneTxPerAttempt
      <3> QED
        BY <1>0, <2>1, <3>1, <3>2 DEF OneTxPerAttempt
    <2>5. SequenceBound'
      BY <1>0, <2>1 DEF SequenceBound
    <2> QED
      BY <2>4, <2>5 DEF SequenceInv
  <1>12. ASSUME NEW tx \in mempool, Expire(tx) PROVE SequenceInv'
    <2>1. /\ UNCHANGED <<seq, results, stage, attempt, loaded, polled>>
          /\ mempool' \subseteq mempool
      BY <1>12 DEF Expire, callVars
    <2> QED
      BY <1>0, <2>1 DEF SequenceInv, OneTxPerAttempt, SequenceBound, ResultsFor
  <1>13. ASSUME UNCHANGED <<seq, results, mempool, stage, attempt, loaded, polled>>
         PROVE  SequenceInv'
    BY <1>0, <1>13 DEF SequenceInv, OneTxPerAttempt, SequenceBound, ResultsFor
  <1>14. ASSUME NEW c \in Call, OnlyCancels(c) PROVE SequenceInv'
    BY <1>13, <1>14 DEF OnlyCancels, ledgerVars
  <1>15. CASE UNCHANGED pubVars
    BY <1>13, <1>15 DEF pubVars
  <1> QED
    BY <1>1, <1>2, <1>3, <1>5, <1>7, <1>8, <1>9, <1>10, <1>11, <1>12, <1>14, <1>15
    DEF AnyStep, Network, PublisherStep

\* Nothing has been sent before the first call.
LEMMA PubInitial == PubInit => LedgerInv /\ SequenceInv
  <1> SUFFICES ASSUME PubInit PROVE LedgerInv /\ SequenceInv
    OBVIOUS
  <1>1. PubTypeOK
    BY DEF PubInit, PubTypeOK, NoRequest, Request
  <1>2. Traced /\ OkNamesOwnProof /\ OneTxPerAttempt /\ SequenceBound
    BY DEF PubInit, Traced, OkNamesOwnProof, OneTxPerAttempt, SequenceBound
  <1> QED
    BY <1>1, <1>2 DEF LedgerInv, SequenceInv

\* The publisher's own specification takes no other steps than AnyStep.
LEMMA PubSteps == [PubNext]_pubVars => AnyStep
  <1> SUFFICES ASSUME [PubNext]_pubVars PROVE AnyStep
    OBVIOUS
  <1>1. ASSUME NEW c \in Call, CallPublish(c) PROVE AnyStep
    <2>1. PICK q \in Requests : PublishProof(c, q)
      BY <1>1 DEF CallPublish
    <2>2. q \in Request /\ q.contract \in Contract
      BY PublisherAssumption DEF Requests, Request
    <2> QED
      BY <2>1, <2>2 DEF AnyStep
  <1>2. ASSUME NEW c \in Call, Cancel(c) PROVE AnyStep
    BY <1>2 DEF Cancel, AnyStep, OnlyCancels
  <1> QED
    BY <1>1, <1>2 DEF PubNext, AnyStep

\* Both invariants hold in every behaviour of the publisher.
LEMMA PubInductive == PubSpec => [](LedgerInv /\ SequenceInv)
  <1>1. (LedgerInv /\ SequenceInv) /\ [PubNext]_pubVars => (LedgerInv /\ SequenceInv)'
    BY PubSteps, LedgerStep, SequenceStep
  <1> QED
    BY <1>1, PubInitial, PTL DEF PubSpec

\* PublishProof returns the id of the proof it was asked to publish: whatever was
\* lost, repeated or answered late, and whichever of its attempts landed, the
\* entry under that id on that contract holds the call's totals.
THEOREM OkAlwaysNamesOwnProof == PubSpec => []OkNamesOwnProof
  <1>1. LedgerInv /\ SequenceInv => OkNamesOwnProof
    BY DEF LedgerInv
  <1> QED
    BY <1>1, PubInductive, PTL

\* Once PublishProof has returned an id, no transaction it left behind in the
\* network publishes its totals again.
THEOREM NoLatePublication == PubSpec => NothingLandsAfterOk
  <1> DEFINE Kept == \A c \in Call : stage[c] = "ok" => Published(c)' = Published(c)
  <1>1. (LedgerInv /\ SequenceInv) /\ [PubNext]_pubVars => [Kept]_pubVars
    <2> SUFFICES ASSUME LedgerInv, SequenceInv, [PubNext]_pubVars,
                        NEW c \in Call, stage[c] = "ok"
                 PROVE  Published(c)' = Published(c)
      OBVIOUS
    <2>0. AnyStep /\ PubTypeOK /\ request[c].contract \in Contract
      BY PubSteps DEF LedgerInv, Traced
    <2>1. ASSUME UNCHANGED <<chain, request, stage>> PROVE Published(c)' = Published(c)
      BY <2>1 DEF Published
    <2>2. ASSUME UNCHANGED chain, stage'[c] = "ok", request'[c] = request[c]
          PROVE  Published(c)' = Published(c)
      BY <2>2 DEF Published
    <2>3. ASSUME NEW d \in Call, NEW q, PublishProof(d, q) PROVE Published(c)' = Published(c)
      <3>1. d # c
        BY <2>3 DEF PublishProof
      <3> QED
        BY <2>0, <2>2, <2>3, <3>1 DEF PublishProof, ledgerVars, PubTypeOK
    <2>4. ASSUME NEW d \in Call, PublisherStep(d) PROVE Published(c)' = Published(c)
      <3>1. CASE PollResult(d)
        <4>1. d # c
          BY <3>1 DEF PollResult
        <4> QED
          BY <2>0, <2>2, <3>1, <4>1 DEF PollResult, ledgerVars, PubTypeOK
      <3>2. CASE ~PollResult(d)
        <4>1. d # c
          BY <2>0, <2>4, <3>2, QuietStep DEF Active
        <4> QED
          BY <2>0, <2>2, <2>4, <3>2, <4>1, QuietStep DEF PubTypeOK
      <3> QED
        BY <3>1, <3>2
    <2>5. ASSUME NEW tx \in mempool, Apply(tx) PROVE Published(c)' = Published(c)
      <3> DEFINE k == request[c].contract
      <3>1. tx.seq = seq + 1 /\ seq \in Nat /\ UNCHANGED <<stage, request>>
        BY <2>0, <2>5, ApplyEffect DEF PubTypeOK, callVars
      <3>2. tx.call # c
        BY <3>1 DEF SequenceInv, SequenceBound
      <3>3. /\ \A i \in DOMAIN chain[k] : i \in DOMAIN chain'[k] /\ chain'[k][i] = chain[k][i]
            /\ \A i \in DOMAIN chain'[k] : i \in DOMAIN chain[k] \/ chain'[k][i].call = tx.call
        BY <2>0, <2>5, ApplyEffect
      <3> QED
        BY <3>1, <3>2, <3>3 DEF Published
    <2>6. ASSUME NEW tx \in mempool, Expire(tx) PROVE Published(c)' = Published(c)
      BY <2>1, <2>6 DEF Expire, callVars
    <2>7. ASSUME NEW d \in Call, OnlyCancels(d) PROVE Published(c)' = Published(c)
      BY <2>1, <2>7 DEF OnlyCancels, ledgerVars
    <2>8. CASE UNCHANGED pubVars
      BY <2>1, <2>8 DEF pubVars
    <2> QED
      BY <2>0, <2>3, <2>4, <2>5, <2>6, <2>7, <2>8 DEF AnyStep, Network
  <1>2. PubSpec => [][Kept]_pubVars
    BY <1>1, PubInductive, PTL DEF PubSpec
  <1> QED
    BY <1>2 DEF NothingLandsAfterOk
-----------------------------------------------------------------------------
\* A call that may still put an entry on its contract's chain.
Live(c) ==
  \/ stage[c] \in Active
  \/ \E tx \in mempool : tx.call = c /\ tx.seq > seq

\* A ledger close kills every transaction then in the network, since none is ahead
\* of the account.  So while a call that has an entry is live, no other call of its
\* contract can land, and its entry stays the latest; a second entry then repeats
\* the total it declares as the previous one.
FlatInv ==
  /\ \A c, d \in Call : c # d /\ stage[c] \in Active /\ stage[d] \in Active
       => request[c].contract # request[d].contract
  /\ \A k \in Contract : \A i \in DOMAIN chain[k] :
       /\ request[chain[k][i].call].contract = k
       /\ chain[k][i].r = request[chain[k][i].call].reserves_total
  /\ \A k \in Contract : \A i \in DOMAIN chain[k] :
       Live(chain[k][i].call) => chain[k][Len(chain[k])].call = chain[k][i].call
  /\ \A k \in Contract : \A i \in DOMAIN chain[k] : \A tx \in mempool :
       stage[chain[k][i].call] \in Active /\ tx.seq > seq /\ request[tx.call].contract = k
         => tx.call = chain[k][i].call
  /\ \A k \in Contract : \A i, j \in DOMAIN chain[k] :
       chain[k][i].call = chain[k][j].call /\ i # j
         => request[chain[k][i].call].reserves_total = request[chain[k][i].call].prev_reserves

\* A ledger close leaves the chains alone, or appends the call's totals to its own,
\* which the contract then accepts.
LEMMA ApplyAppends ==
  ASSUME LedgerInv, NEW tx \in mempool, Apply(tx), chain' # chain
  PROVE  LET q == request[tx.call]
             k == q.contract
         IN /\ Accepted(q) /\ k \in Contract /\ Len(chain[k]) \in Nat
            /\ \A j \in Contract : DOMAIN chain[j] = 1..Len(chain[j])
            /\ \A j \in Contract \ {k} : chain'[j] = chain[j]
            /\ Len(chain'[k]) = Len(chain[k]) + 1 /\ DOMAIN chain'[k] = 1..(Len(chain[k]) + 1)
            /\ \A i \in 1..Len(chain[k]) : chain'[k][i] = chain[k][i]
            /\ chain'[k][Len(chain[k]) + 1].call = tx.call
            /\ chain'[k][Len(chain[k]) + 1].r = q.reserves_total
  <1> DEFINE q == request[tx.call]
             k == q.contract
             e == [r |-> q.reserves_total, l |-> q.liabilities_total, call |-> tx.call]
             old == chain[k]
             new == Append(old, e)
  <1>1. /\ Accepted(q) /\ k \in Contract /\ e \in Entry
        /\ chain' = [chain EXCEPT ![k] = new]
        /\ chain \in [Contract -> Seq(Entry)]
    BY DEF Apply, LedgerInv, PubTypeOK, Traced, Tx, Request, Entry
  <1>2. e.call = tx.call /\ e.r = q.reserves_total
    OBVIOUS
  <1> HIDE DEF e
  <1>3. \A j \in Contract : chain[j] \in Seq(Entry) /\ DOMAIN chain[j] = 1..Len(chain[j])
    BY SMTT(30), <1>1
  <1>4. old \in Seq(Entry)
    BY <1>1
  <1> HIDE DEF old
  <1>5. /\ Len(old) \in Nat /\ Len(new) = Len(old) + 1 /\ DOMAIN new = 1..(Len(old) + 1)
        /\ \A i \in 1..Len(old) : new[i] = old[i]
        /\ new[Len(old) + 1] = e
    BY <1>1, <1>4
  <1>6. chain'[k] = new /\ \A j \in Contract \ {k} : chain'[j] = chain[j]
    BY <1>1
  <1> QED BY <1>1, <1>2, <1>3, <1>5, <1>6 DEF old

\* Nothing is left alive by a ledger close.
LEMMA ApplyKills ==
  ASSUME LedgerInv, SequenceInv, NEW tx \in mempool, Apply(tx)
  PROVE  \A ty \in mempool' : ~(ty.seq > seq')
  <1>1. seq \in Nat /\ \A ty \in mempool : ty.seq \in Nat /\ loaded[ty.call] \in Nat
    BY DEF LedgerInv, PubTypeOK, Tx
  <1>2. \A ty \in mempool : ty.call \in Call
    BY DEF LedgerInv, PubTypeOK, Tx
  <1>3. \A ty \in mempool : ty.seq <= loaded[ty.call] + 1 /\ loaded[ty.call] <= seq
    BY <1>2 DEF SequenceInv, SequenceBound
  <1>4. mempool' \subseteq mempool /\ seq' = seq + 1
    BY ApplyEffect
  <1> QED BY <1>1, <1>3, <1>4

LEMMA FlatStep ==
  LedgerInv /\ SequenceInv /\ FlatInv /\ [PubNext]_pubVars => FlatInv'
  <1> SUFFICES ASSUME LedgerInv, SequenceInv, FlatInv, [PubNext]_pubVars PROVE FlatInv'
    OBVIOUS
  <1>0. /\ PubTypeOK /\ Traced
        /\ \A tx \in mempool : tx.call \in Call /\ stage[tx.call] # "idle"
        /\ \A k \in Contract : \A i \in DOMAIN chain[k] :
             chain[k][i].call \in Call /\ stage[chain[k][i].call] # "idle"
    <2>1. ASSUME NEW k \in Contract, NEW i \in DOMAIN chain[k] PROVE chain[k][i].call \in Call
      <3>1. chain[k] \in Seq(Entry)
        BY DEF LedgerInv, PubTypeOK
      <3>2. chain[k][i] \in Entry
        BY <3>1
      <3> QED BY <3>2 DEF Entry
    <2> QED BY <2>1 DEF LedgerInv, PubTypeOK, Traced, Tx
  \* No chain and no request changes, no transaction is sent, and no call is made.
  <1>1. ASSUME UNCHANGED <<seq, chain, request>>, mempool' \subseteq mempool,
               \A c \in Call : stage'[c] \in Active => stage[c] \in Active
        PROVE  FlatInv'
    <2>1. \A c \in Call : Live(c)' => Live(c)
      BY <1>1 DEF Live
    <2> QED BY <1>0, <1>1, <2>1 DEF FlatInv
  <1>2. ASSUME NEW c \in Call, CallPublish(c) PROVE FlatInv'
    <2>1. PICK q \in Requests :
            /\ \A d \in Call : stage[d] \in Active => request[d].contract # q.contract
            /\ PublishProof(c, q)
      BY <1>2 DEF CallPublish
    <2>2. /\ UNCHANGED <<seq, chain, mempool>> /\ stage[c] = "idle"
          /\ request'[c] = q
          /\ \A d \in Call \ {c} : stage'[d] = stage[d] /\ request'[d] = request[d]
      BY <1>0, <2>1 DEF PublishProof, ledgerVars, PubTypeOK
    <2>3. \A tx \in mempool : tx.call \in Call \ {c}
      BY <1>0, <2>2
    <2>4. \A k \in Contract : \A i \in DOMAIN chain[k] : chain[k][i].call \in Call \ {c}
      BY <1>0, <2>2
    <2>5. \A d \in Call \ {c} : Live(d)' => Live(d)
      BY <2>2 DEF Live
    <2>6. \A d, e \in Call : d # e /\ stage'[d] \in Active /\ stage'[e] \in Active
            => request'[d].contract # request'[e].contract
      BY <2>1, <2>2 DEF FlatInv
    <2>7. \A k \in Contract : \A i \in DOMAIN chain[k] :
            /\ request'[chain[k][i].call] = request[chain[k][i].call]
            /\ stage'[chain[k][i].call] = stage[chain[k][i].call]
            /\ Live(chain[k][i].call)' => Live(chain[k][i].call)
      BY <2>2, <2>4, <2>5
    <2>8. \A tx \in mempool : request'[tx.call] = request[tx.call]
      BY <2>2, <2>3
    <2>9. chain' = chain /\ mempool' = mempool /\ seq' = seq
      BY <2>2
    <2> QED BY <2>6, <2>7, <2>8, <2>9 DEF FlatInv, Live
  <1>3. ASSUME NEW c \in Call, PublisherStep(c), ~PollResult(c) PROVE FlatInv'
    <2>1. /\ UNCHANGED <<seq, chain, request>>
          /\ mempool' \subseteq mempool \cup {TxOf(c)} /\ stage[c] \in Active
          /\ \A d \in Call : stage'[d] \in Active => stage[d] \in Active
      <3>1. \A d \in Call \ {c} : stage'[d] = stage[d]
        BY <1>0, <1>3, QuietStep DEF PubTypeOK
      <3> QED BY <1>0, <1>3, <3>1, QuietStep
    <2>2. TxOf(c).call = c
      BY DEF TxOf
    <2>3. \A d \in Call : Live(d)' => Live(d)
      BY <2>1, <2>2 DEF Live
    <2>4. ASSUME NEW k \in Contract, NEW i \in DOMAIN chain[k], NEW tx \in mempool',
                 stage'[chain[k][i].call] \in Active, tx.seq > seq, request[tx.call].contract = k
          PROVE  tx.call = chain[k][i].call
      <3>1. CASE tx \in mempool
        BY <1>0, <2>1, <2>4, <3>1 DEF FlatInv
      <3>2. CASE tx.call = c
        <4>1. chain[k][i].call \in Call /\ stage[chain[k][i].call] \in Active
              /\ request[chain[k][i].call].contract = k
          BY <1>0, <2>1, <2>4 DEF FlatInv
        <4> QED BY <2>1, <2>4, <3>2, <4>1 DEF FlatInv
      <3> QED BY <2>1, <2>2, <3>1, <3>2
    <2> QED BY <1>0, <2>1, <2>3, <2>4 DEF FlatInv
  <1>4. ASSUME NEW c \in Call, PollResult(c) PROVE FlatInv'
    <2>1. UNCHANGED <<seq, chain, request, mempool>> /\ stage'[c] \notin Active
          /\ \A d \in Call \ {c} : stage'[d] = stage[d]
      BY <1>0, <1>4 DEF PollResult, ledgerVars, PubTypeOK, Active
    <2> QED BY <1>1, <2>1
  <1>5. ASSUME NEW c \in Call, Cancel(c) PROVE FlatInv'
    BY <1>1, <1>5 DEF Cancel, ledgerVars
  <1>6. ASSUME NEW tx \in mempool, Expire(tx) PROVE FlatInv'
    BY <1>1, <1>6 DEF Expire, callVars
  <1>7. ASSUME NEW tx \in mempool, Apply(tx) PROVE FlatInv'
    <2> DEFINE q == request[tx.call]
               k == q.contract
               n == Len(chain[k]) + 1
    <2>1. /\ UNCHANGED <<stage, request>> /\ tx.seq > seq /\ tx.call \in Call
      BY <1>0, <1>7, ApplyEffect DEF callVars, PubTypeOK
    <2>2. \A ty \in mempool' : ~(ty.seq > seq')
      BY <1>7, ApplyKills
    <2>3. \A c : Live(c)' => stage[c] \in Active
      BY <2>1, <2>2 DEF Live
    <2>4. CASE chain' = chain
      BY <2>1, <2>2, <2>3, <2>4 DEF FlatInv, Live
    <2>5. CASE chain' # chain
      <3>1. /\ Accepted(q) /\ k \in Contract /\ Len(chain[k]) \in Nat
            /\ \A j \in Contract : DOMAIN chain[j] = 1..Len(chain[j])
            /\ \A j \in Contract \ {k} : chain'[j] = chain[j]
            /\ Len(chain'[k]) = n /\ DOMAIN chain'[k] = 1..n
            /\ \A i \in 1..Len(chain[k]) : chain'[k][i] = chain[k][i]
            /\ chain'[k][n].call = tx.call
            /\ chain'[k][n].r = q.reserves_total
        BY <1>7, <2>5, ApplyAppends
      <3> HIDE DEF n
      <3>2. n \in Nat /\ n = Len(chain[k]) + 1 /\ \A i \in 1..n : i = n \/ i \in 1..Len(chain[k])
        BY SMTT(30), <3>1 DEF n
      <3>3. \A i \in 1..n : i = n \/ (i \in DOMAIN chain[k] /\ chain'[k][i] = chain[k][i])
        BY <3>1, <3>2
      \* An earlier entry of the call is the latest one, with the call's own total,
      \* which is then the declared previous one.
      <3>4. ASSUME NEW i \in DOMAIN chain[k], chain[k][i].call = tx.call
            PROVE  q.reserves_total = q.prev_reserves
        <4>1. Live(tx.call)
          BY <2>1 DEF Live
        <4>2. chain[k][Len(chain[k])].call = tx.call
          BY <3>1, <3>4, <4>1 DEF FlatInv
        <4>3. Len(chain[k]) \in DOMAIN chain[k] /\ Len(chain[k]) # 0 /\ chain[k] # << >>
          BY <3>1, <3>4
        <4>4. ChainReserves(k) = q.reserves_total
          BY SMTT(30), <3>1, <4>2, <4>3 DEF FlatInv, ChainReserves
        <4> QED BY <3>1, <4>3, <4>4 DEF Accepted, enforce_growth_baseline
      <3>5. \A kk \in Contract : \A i \in DOMAIN chain'[kk] :
              /\ request[chain'[kk][i].call].contract = kk
              /\ chain'[kk][i].r = request[chain'[kk][i].call].reserves_total
        <4> SUFFICES ASSUME NEW kk \in Contract, NEW i \in DOMAIN chain'[kk]
                     PROVE  /\ request[chain'[kk][i].call].contract = kk
                            /\ chain'[kk][i].r = request[chain'[kk][i].call].reserves_total
          OBVIOUS
        <4>1. CASE kk # k
          BY <3>1, <4>1 DEF FlatInv
        <4>2. CASE kk = k /\ i = n
          BY <3>1, <4>2
        <4>3. CASE kk = k /\ i # n
          <5>1. i \in DOMAIN chain[k] /\ chain'[k][i] = chain[k][i]
            BY <3>1, <3>3, <4>3
          <5> QED BY <4>3, <5>1 DEF FlatInv
        <4> QED BY <4>1, <4>2, <4>3
      <3>6. ASSUME NEW kk \in Contract, NEW i \in DOMAIN chain'[kk], stage[chain'[kk][i].call] \in Active
            PROVE  chain'[kk][Len(chain'[kk])].call = chain'[kk][i].call
        <4>1. CASE kk # k
          BY <3>1, <3>6, <4>1 DEF FlatInv, Live
        <4>2. CASE kk = k
          <5>1. CASE i = n
            BY <3>1, <4>2, <5>1
          <5>2. CASE i \in DOMAIN chain[k] /\ chain'[k][i] = chain[k][i]
            BY SMTT(30), <2>1, <3>1, <3>6, <4>2, <5>2 DEF FlatInv
          <5> QED BY <3>1, <3>3, <4>2, <5>1, <5>2
        <4> QED BY <4>1, <4>2
      <3>7. ASSUME NEW kk \in Contract, NEW i \in DOMAIN chain'[kk], NEW j \in DOMAIN chain'[kk],
                   chain'[kk][i].call = chain'[kk][j].call, i # j
            PROVE  request[chain'[kk][i].call].reserves_total = request[chain'[kk][i].call].prev_reserves
        <4>1. CASE kk # k
          BY <3>1, <3>7, <4>1 DEF FlatInv
        <4>2. CASE kk = k
          <5>1. CASE i = n
            BY <3>1, <3>3, <3>4, <3>7, <4>2, <5>1
          <5>2. CASE j = n
            BY <3>1, <3>3, <3>4, <3>7, <4>2, <5>2
          <5>3. CASE i # n /\ j # n
            <6>1. /\ i \in DOMAIN chain[k] /\ chain'[k][i] = chain[k][i]
                  /\ j \in DOMAIN chain[k] /\ chain'[k][j] = chain[k][j]
              BY <3>1, <3>3, <4>2, <5>3
            <6> QED BY SMTT(30), <3>1, <3>7, <4>2, <6>1 DEF FlatInv
          <5> QED BY <5>1, <5>2, <5>3
        <4> QED BY <4>1, <4>2
      <3>8. \A c, d \in Call : c # d /\ stage[c] \in Active /\ stage[d] \in Active
              => request[c].contract # request[d].contract
        BY DEF FlatInv
      <3> QED BY <2>1, <2>2, <2>3, <3>5, <3>6, <3>7, <3>8 DEF FlatInv
    <2> QED BY <2>4, <2>5
  <1>8. CASE UNCHANGED pubVars
    BY <1>1, <1>8 DEF pubVars
  <1> QED
    BY <1>2, <1>3, <1>4, <1>5, <1>6, <1>7, <1>8 DEF PubNext, Network

\* The retries of one call (invokeWithRetry) put its totals on the contract twice
\* only when they repeat the previous total: whichever attempts land, however late.
THEOREM RepublishesOnlyIfFlatAlways == PubSpec => []RepublishesOnlyIfFlat
  <1>1. PubInit => FlatInv
    BY DEF PubInit, FlatInv, Live, Active
  <1>2. PubSpec => []FlatInv
    BY <1>1, FlatStep, PubInductive, PTL DEF PubSpec
  <1>3. LedgerInv /\ FlatInv => RepublishesOnlyIfFlat
    <2> SUFFICES ASSUME LedgerInv, FlatInv, NEW c \in Call, Cardinality(Published(c)) > 1
                 PROVE  request[c].reserves_total = request[c].prev_reserves
      BY DEF RepublishesOnlyIfFlat
    <2>1. ~ \E x : Published(c) \subseteq {x}
      <3> SUFFICES ASSUME NEW x, Published(c) \subseteq {x} PROVE FALSE
        OBVIOUS
      <3>1. CASE Published(c) = {}
        BY <3>1, FS_EmptySet
      <3>2. CASE Published(c) = {x}
        <4>1. Cardinality(Published(c)) = 1
          BY <3>2, FS_Singleton
        <4> QED BY <4>1
      <3> QED BY <3>1, <3>2
    <2>2. PICK i, j \in Published(c) : i # j
      <3>1. Published(c) # {}
        BY <2>1
      <3>2. PICK i \in Published(c) : TRUE
        BY <3>1
      <3> QED BY <2>1, <3>2
    <2>3. request[c].contract \in Contract
      BY <2>2 DEF LedgerInv, Traced, Published
    <2> QED BY <2>2, <2>3 DEF Published, FlatInv
  <1> QED BY <1>2, <1>3, PubInductive, PTL
-----------------------------------------------------------------------------
\* What a contract's chain says to its readers, and what CoverageRecord promises of it.
RecordOf(k) == [i \in DOMAIN chain[k] |-> [r |-> chain[k][i].r, l |-> chain[k][i].l]]
Record(k) == INSTANCE CoverageRecord WITH Amount <- Nat, record <- RecordOf(k)

\* A sequence with one element more than another is what Append makes of it.
LEMMA AppendIs ==
  ASSUME NEW S, NEW s \in Seq(S), NEW e \in S, NEW t, NEW n \in Nat, Len(s) = n,
         t = [i \in 1..(n + 1) |-> IF i = n + 1 THEN e ELSE s[i]]
  PROVE  t = Append(s, e)
  <1>1. t \in Seq(S) /\ Len(t) = n + 1
    <2>1. \A i \in 1..(n + 1) : t[i] \in S
      OBVIOUS
    <2> QED BY <2>1
  <1>2. Append(s, e) \in Seq(S) /\ Len(Append(s, e)) = n + 1
    OBVIOUS
  <1>3. \A i \in 1..(n + 1) : t[i] = Append(s, e)[i]
    <2> SUFFICES ASSUME NEW i \in 1..(n + 1) PROVE t[i] = Append(s, e)[i]
      OBVIOUS
    <2>1. CASE i = n + 1
      BY <2>1
    <2>2. CASE i # n + 1
      BY <2>2
    <2> QED BY <2>1, <2>2
  <1> QED BY <1>1, <1>2, <1>3, SeqEqual

\* Every step, of the publisher, its callers or the network, appends one admissible
\* entry to a contract's record or leaves it alone.
LEMMA RecordStep ==
  ASSUME LedgerInv, AnyStep, NEW k \in Contract
  PROVE  Record(k)!Next \/ RecordOf(k)' = RecordOf(k)
  <1>1. CASE chain' = chain
    BY <1>1 DEF RecordOf
  <1>2. ASSUME NEW tx \in mempool, Apply(tx), chain' # chain
        PROVE  Record(k)!Next \/ RecordOf(k)' = RecordOf(k)
    <2>1. CASE request[tx.call].contract # k
      <3>1. chain'[k] = chain[k]
        BY <1>2, <2>1, ApplyAppends
      <3> QED BY <3>1 DEF RecordOf
    <2>2. CASE request[tx.call].contract = k
      <3> DEFINE q == request[tx.call]
                 n == Len(chain[k])
                 e == [r |-> q.reserves_total, l |-> q.liabilities_total]
                 f == [r |-> q.reserves_total, l |-> q.liabilities_total, call |-> tx.call]
      <3>1. q.reserves_total \in Nat /\ q.liabilities_total \in Nat /\ e \in [r: Nat, l: Nat]
        BY DEF LedgerInv, PubTypeOK, Tx, Request
      <3>2. /\ Accepted(q) /\ n \in Nat /\ DOMAIN chain[k] = 1..n
            /\ DOMAIN chain'[k] = 1..(n + 1)
            /\ \A i \in 1..n : chain'[k][i] = chain[k][i]
        BY <1>2, <2>2, ApplyAppends
      <3>3. chain[k] \in Seq(Entry) /\ chain'[k] = Append(chain[k], f)
        BY <1>2, <2>2 DEF Apply, LedgerInv, PubTypeOK
      <3>4. chain'[k][n + 1] = f /\ \A i \in 1..n : chain[k][i] \in Entry
        <4> HIDE DEF f
        <4> QED BY <3>2, <3>3
      <3>5. RecordOf(k) \in Seq([r: Nat, l: Nat]) /\ Len(RecordOf(k)) = n
        BY <3>2, <3>4 DEF RecordOf, Entry
      <3>6. RecordOf(k)' = [i \in 1..(n + 1) |-> IF i = n + 1 THEN e ELSE RecordOf(k)[i]]
        <4>1. \A i \in 1..(n + 1) : [r |-> chain'[k][i].r, l |-> chain'[k][i].l]
                = IF i = n + 1 THEN e ELSE RecordOf(k)[i]
          <5> SUFFICES ASSUME NEW i \in 1..(n + 1)
                       PROVE  [r |-> chain'[k][i].r, l |-> chain'[k][i].l]
                                = IF i = n + 1 THEN e ELSE RecordOf(k)[i]
            OBVIOUS
          <5>1. CASE i = n + 1
            BY <3>4, <5>1
          <5>2. CASE i # n + 1
            BY <3>2, <5>2 DEF RecordOf
          <5> QED BY <5>1, <5>2
        <4> QED BY <3>2, <4>1 DEF RecordOf
      <3>7. RecordOf(k)' = Append(RecordOf(k), e)
        <4> DEFINE S == [r: Nat, l: Nat]
                   old == RecordOf(k)
                   new == RecordOf(k)'
        <4>1. e \in S /\ n \in Nat /\ old \in Seq(S) /\ Len(old) = n
          BY <3>1, <3>2, <3>5
        <4>2. new = [i \in 1..(n + 1) |-> IF i = n + 1 THEN e ELSE old[i]]
          BY <3>6
        <4> HIDE DEF e, n, S, old, new
        <4>3. new = Append(old, e)
          BY ZenonT(40), <4>1, <4>2, AppendIs
        <4> QED BY <4>3 DEF old, new
      <3>8. e.r = q.reserves_total /\ e.l = q.liabilities_total
        OBVIOUS
      <3>9. n > 0 => RecordOf(k)[n].r = ChainReserves(k)
        BY <3>2, <3>3 DEF RecordOf, ChainReserves
      <3>10. Record(k)!Publish(e)
        <4>1. e.r >= e.l
          BY <3>1, <3>2, <3>8 DEF Accepted, Circuit
        <4>2. n > 0 => q.prev_reserves = ChainReserves(k)
          BY <2>2, <3>2 DEF Accepted, enforce_growth_baseline
        <4>3. n > 0 => 10 * e.r <= 11 * RecordOf(k)[n].r
          BY <3>1, <3>2, <3>8, <3>9, <4>2 DEF Accepted, Circuit, FraudBound
        <4> QED BY <3>5, <3>7, <4>1, <4>3 DEF Record!Publish
      <3> QED BY <3>1, <3>10 DEF Record!Next, Record!Entry
    <2> QED BY <2>1, <2>2
  <1>3. ASSUME NEW c \in Call, PublisherStep(c) PROVE chain' = chain
    BY <1>3, QuietStep DEF LedgerInv, PollResult, ledgerVars
  <1>4. chain' = chain \/ \E tx \in mempool : Apply(tx)
    BY <1>3 DEF AnyStep, Network, PublishProof, OnlyCancels, Expire, ledgerVars, pubVars
  <1> QED BY <1>1, <1>2, <1>4

\* Whatever the calls do to each other, what stands on a contract is an append-only
\* record of covered totals that never grow by more than a tenth.
THEOREM ChainsImplementRecord ==
  ASSUME NEW k \in Contract
  PROVE  PubSpec => Record(k)!Spec
  <1>1. PubInit => Record(k)!Init
    BY DEF PubInit, Record!Init, RecordOf
  <1>2. (LedgerInv /\ SequenceInv) /\ [PubNext]_pubVars => [Record(k)!Next]_(RecordOf(k))
    BY PubSteps, RecordStep
  <1> QED BY <1>1, <1>2, PubInductive, PTL DEF PubSpec, Record!Spec
=============================================================================
