------------------------- MODULE OutboxRelayProofs -------------------------
(***************************************************************************)
(* Proofs about OutboxRelay for any set of entries, workers and tokens,    *)
(* any batch size, retry limit, timeouts and number of faults: its types,  *)
(* that no event is lost, that it implements AtLeastOnce, its leases and   *)
(* its retry counters.                                                     *)
(***************************************************************************)
EXTENDS OutboxRelay, TLAPS

\* Everything a proof may use about the constants.
Constants ==
  /\ Entries \subseteq Nat
  /\ NULL \notin Tokens /\ Blank \notin Tokens
  /\ DefaultToken \in {NULL, Blank}
  /\ MaxRetries \in Nat \ {0}
  /\ MaxFailures \in Nat /\ MaxRetries <= MaxFailures
  /\ LeaseTimeout \in Nat \ {0}
  /\ PollTimeout \in Nat \ {0}
  /\ CleanupEvery \in Nat \ {0}
  /\ MaxFaults \in Nat

\* The constants' assumptions, gathered in one fact.
LEMMA ConstantsFact == Constants
  BY Zenon, EntriesAssumption, TokensAssumption, NumbersAssumption DEF Constants

\* A fresh lease token is a token no row and no worker uses.
LEMMA FreshToken ==
  FreshTokens # {} => generateLeaseToken \in FreshTokens
  BY Zenon DEF generateLeaseToken

\* An age that has not reached its limit may grow by one.
LEMMA AgeBelow ==
  \A max \in Nat : \A age \in 0..max : age # max => age + 1 \in 0..max
  OBVIOUS

\* What moving on to the next entry of the batch changes, with its types.
AdvanceTypes ==
  /\ pc' \in [Workers -> Stages]
  /\ todo' \in [Workers -> SUBSET Entries]
  /\ seenRetry' \in [Workers -> [Entries -> Nat]]
  /\ UNCHANGED <<elapsed, lease, cycle>>

\* Moving on to the next entry keeps the poll's local state in its type.
LEMMA AdvanceTyped ==
  ASSUME TypeOK, NEW w \in Workers, NEW e \in Entries, Advance(w, e)
  PROVE  AdvanceTypes
<1>1. pc' \in [Workers -> Stages] /\ todo' \in [Workers -> SUBSET Entries]
  BY Zenon DEF TypeOK, Advance, Stages
<1>2. seenRetry' \in [Workers -> [Entries -> Nat]]
  <2>1. seenRetry' = [seenRetry EXCEPT ![w] = [seenRetry[w] EXCEPT ![e] = 0]]
    BY Zenon DEF Advance
  <2>2. [seenRetry[w] EXCEPT ![e] = 0] \in [Entries -> Nat]
    BY Zenon DEF TypeOK
  <2> QED
    BY Zenon, <2>1, <2>2 DEF TypeOK
<1> QED
  BY Zenon, <1>1, <1>2 DEF Advance, AdvanceTypes

\* Recording the outcome of an entry keeps the two lists in their type.
LEMMA OutcomeTyped ==
  ASSUME TypeOK, NEW w \in Workers, NEW e \in Entries, Succeed(w, e) \/ Fail(w, e)
  PROVE  /\ publishedIDs' \in [Workers -> SUBSET Entries]
         /\ failed' \in [Workers -> SUBSET Entries]
         /\ failures' \in [Entries -> Nat]
<1>1. CASE Succeed(w, e)
  BY Zenon, <1>1 DEF TypeOK, Succeed
<1>2. CASE Fail(w, e)
  <2>1. (IF failures[e] < MaxFailures THEN failures[e] + 1 ELSE failures[e]) \in Nat
    BY ConstantsFact DEF TypeOK, Constants
  <2> QED
    BY ZenonT(60), <1>2, <2>1 DEF TypeOK, Fail
<1> QED
  BY Zenon, <1>1, <1>2

\* Clearing claims keeps the columns in their types.
LEMMA ClearTyped ==
  ASSUME TypeOK, NEW ids, ClearClaims(ids)
  PROVE  /\ status' = status
         /\ claimAge' \in [Entries -> Int]
         /\ token' \in [Entries -> Tokens \cup {NULL, Blank}]
         /\ retry' \in [Entries -> Nat]
<1>1. /\ claimAge \in [Entries -> Int] /\ token \in [Entries -> Tokens \cup {NULL, Blank}]
      /\ retry \in [Entries -> Nat]
  BY Zenon DEF TypeOK
<1>2. Unclaimed \in Int /\ \A n \in Nat : n + 1 \in Nat
  BY DEF Unclaimed
<1>3. /\ status' = status
      /\ claimAge' \in [Entries -> Int]
      /\ token' \in [Entries -> Tokens \cup {NULL, Blank}]
  BY Zenon, <1>1, <1>2 DEF ClearClaims
<1>4. retry' \in [Entries -> Nat]
  BY Zenon, <1>1, <1>2 DEF ClearClaims
<1> QED
  BY Zenon, <1>3, <1>4

\* The initial values have their types.
LEMMA TypeInit == Init => TypeOK
  BY ConstantsFact DEF Init, TypeOK, Constants, Statuses, Stages, Unclaimed

\* The set-up is fixed.
LEMMA ConfStays == [Next]_vars => UNCHANGED conf
  BY Zenon DEF Next, vars

\* Every step of the store, of a worker and of the environment keeps every
\* variable in its type.
LEMMA TypeStep == TypeOK /\ [Next]_vars => TypeOK'
<1> SUFFICES ASSUME TypeOK, [Next]_vars PROVE TypeOK'
  BY Zenon
<1>c. UNCHANGED conf
  BY Zenon, ConfStays
<1> USE <1>c, ConstantsFact DEF TypeOK, Constants, Statuses, Stages, Unclaimed, table, local, history
<1>1. ASSUME NEW e \in Entries, Insert(e) PROVE TypeOK'
  BY <1>1 DEF Insert
<1>2. ASSUME NEW w \in Workers, doPoll(w) PROVE TypeOK'
  BY <1>2 DEF doPoll
<1>3. ASSUME NEW w \in Workers, ClaimBatch(w) PROVE TypeOK'
  <2>1. PICK locked \in SUBSET Eligible :
          Skipped(w, locked) /\ \E B \in Batches(Eligible \ locked) : Take(w, B)
    BY Zenon, <1>3 DEF ClaimBatch
  <2>2. PICK B \in SUBSET Entries : Take(w, B)
    BY Zenon, <2>1 DEF Batches, Eligible
  <2>3. generateLeaseToken \in Tokens
    <3>1. FreshTokens # {}
      BY Zenon, <1>3 DEF ClaimBatch
    <3> QED
      BY Zenon, <3>1, FreshToken DEF FreshTokens
  <2>4. PICK age \in 0..elapsed[w] :
          claimAge' = [e \in Entries |-> IF e \in B THEN age ELSE claimAge[e]]
    BY Zenon, <2>2 DEF Take, claimEntriesTx
  <2>5. faults' \in Nat
    BY <2>1 DEF Skipped, Fault
  <2> QED
    BY <2>2, <2>3, <2>4, <2>5 DEF Take, claimEntriesTx
<1>4. ASSUME NEW w \in Workers, ClaimBatchFails(w) PROVE TypeOK'
  <2>1. faults' \in Nat
    BY <1>4 DEF ClaimBatchFails, Unreadable, CallFails, Fault
  <2>2. status' \in [Entries -> Statuses] /\ retry' \in [Entries -> Nat]
    BY ZenonT(60), <1>4 DEF ClaimBatchFails, claimEntriesTx
  <2>3. FreshTokens # {} => generateLeaseToken \in Tokens
    BY Zenon, FreshToken DEF FreshTokens
  <2>4. claimAge' \in [Entries -> Int] /\ token' \in [Entries -> Tokens \cup {NULL, Blank}]
    <3>1. CASE UNCHANGED table
      BY Zenon, <3>1
    <3>2. CASE FreshTokens # {} /\ \E B \in Batches(Eligible) : claimEntriesTx(w, B, generateLeaseToken)
      BY <3>2, <2>3 DEF claimEntriesTx
    <3> QED
      BY Zenon, <1>4, <3>1, <3>2 DEF ClaimBatchFails
  <2> QED
    BY Zenon, <1>4, <2>1, <2>2, <2>4 DEF ClaimBatchFails
<1>5. ASSUME NEW w \in Workers, NEW e \in Entries, publishEntry(w, e) PROVE TypeOK'
  <2>1. faults' \in Nat
    BY <1>5 DEF publishEntry, CallFails, Fault
  <2>2. Succeed(w, e) \/ Fail(w, e)
    BY Zenon, <1>5 DEF publishEntry
  <2>3. /\ publishedIDs' \in [Workers -> SUBSET Entries]
        /\ failed' \in [Workers -> SUBSET Entries]
        /\ failures' \in [Entries -> Nat]
    BY Zenon, <2>2, OutcomeTyped
  <2>4. AdvanceTypes
    BY Zenon, <1>5, AdvanceTyped DEF publishEntry
  <2>5. delivered' \in SUBSET Entries /\ UNCHANGED <<table, dlq, dropped>>
    BY Zenon, <1>5 DEF publishEntry
  <2> QED
    BY ZenonT(60), <2>1, <2>3, <2>4, <2>5 DEF AdvanceTypes
<1>6. ASSUME NEW w \in Workers, NEW e \in Entries, handleExhaustedEntry(w, e) PROVE TypeOK'
  <2>1. faults' \in Nat
    BY <1>6 DEF handleExhaustedEntry, CallFails, Fault
  <2>2. Succeed(w, e) \/ Fail(w, e)
    BY Zenon, <1>6 DEF handleExhaustedEntry
  <2>3. /\ publishedIDs' \in [Workers -> SUBSET Entries]
        /\ failed' \in [Workers -> SUBSET Entries]
        /\ failures' \in [Entries -> Nat]
    BY Zenon, <2>2, OutcomeTyped
  <2>4. AdvanceTypes
    BY Zenon, <1>6, AdvanceTyped DEF handleExhaustedEntry
  <2>5. dlq' \in SUBSET Entries /\ dropped' \in SUBSET Entries /\ UNCHANGED <<table, delivered>>
    BY ZenonT(60), <1>6 DEF handleExhaustedEntry
  <2> QED
    BY ZenonT(60), <2>1, <2>3, <2>4, <2>5 DEF AdvanceTypes
<1>7. ASSUME NEW w \in Workers, MarkPublished(w) PROVE TypeOK'
  BY <1>7 DEF MarkPublished, SetPublished, CallFails, Fault
<1>8. ASSUME NEW w \in Workers, ReleaseClaims(w) PROVE TypeOK'
  <2>1. faults' \in Nat
    BY <1>8 DEF ReleaseClaims, CallFails, Fault
  <2>2. /\ UNCHANGED status
        /\ claimAge' \in [Entries -> Int]
        /\ token' \in [Entries -> Tokens \cup {NULL, Blank}]
        /\ retry' \in [Entries -> Nat]
    <3>1. UNCHANGED table \/ ClearClaims(failed[w])
      BY Zenon, <1>8 DEF ReleaseClaims
    <3>2. CASE UNCHANGED table
      BY Zenon, <3>2
    <3>3. CASE ClearClaims(failed[w])
      BY Zenon, <3>3, ClearTyped
    <3> QED
      BY Zenon, <3>1, <3>2, <3>3
  <2> QED
    BY Zenon, <1>8, <2>1, <2>2 DEF ReleaseClaims
<1>9. ASSUME NEW w \in Workers, EndPoll(w) PROVE TypeOK'
  <2>1. cycle' \in [Workers -> 0..(CleanupEvery - 1)]
    BY <1>9 DEF EndPoll
  <2>2. faults' \in Nat
    BY <1>9 DEF EndPoll, Fault
  <2>3. /\ status' \in [Entries -> Statuses]
        /\ UNCHANGED <<claimAge, token, retry>>
    BY ZenonT(60), <1>9 DEF EndPoll, Cleanup
  <2> QED
    BY <1>9, <2>1, <2>2, <2>3 DEF EndPoll
<1>10. ASSUME NEW w \in Workers, Crash(w) PROVE TypeOK'
  BY <1>10 DEF Crash, Fault
<1>11. ASSUME NEW w \in Workers, Cancel(w) PROVE TypeOK'
  BY <1>11 DEF Cancel, Fault
<1>12. CASE Tick
  <2>1. elapsed' \in [Workers -> 0..PollTimeout]
    <3>1. ASSUME NEW w \in Workers
          PROVE (IF Busy(w) /\ ~Expired(w) THEN elapsed[w] + 1 ELSE elapsed[w]) \in 0..PollTimeout
      <4>1. elapsed[w] \in 0..PollTimeout /\ PollTimeout \in Nat
        BY Zenon
      <4>2. CASE Expired(w)
        BY Zenon, <4>1, <4>2
      <4>3. CASE elapsed[w] # PollTimeout
        <5>1. elapsed[w] + 1 \in 0..PollTimeout
          BY Zenon, <4>1, <4>3, AgeBelow
        <5> QED
          BY Zenon, <4>1, <5>1
      <4> QED
        BY Zenon, <4>2, <4>3 DEF Expired
    <3> QED
      BY Zenon, <1>12, <3>1 DEF Tick
  <2>2. faults' \in Nat
    BY <1>12 DEF Tick, Fault
  <2>3. claimAge' \in [Entries -> Int]
    BY <1>12 DEF Tick
  <2> QED
    BY Zenon, <1>12, <2>1, <2>2, <2>3 DEF Tick
<1>13. CASE UNCHANGED vars
  BY Zenon, <1>13 DEF vars
<1> QED
  BY Zenon, <1>1, <1>2, <1>3, <1>4, <1>5, <1>6, <1>7, <1>8, <1>9, <1>10, <1>11, <1>12, <1>13
     DEF Next, poll

\* Type correctness of the relay: every variable of every reachable state has
\* its type.
THEOREM TypeCorrect == Spec => []TypeOK
  BY TypeInit, TypeStep, PTL DEF Spec

-----------------------------------------------------------------------------
\* Delivery

\* The inductive invariant behind NoEventLost and the refinement: a worker
\* only works on accepted entries, and every entry on its list to mark has
\* already been handed over, so that a MarkPublished at any later moment, by a
\* worker however late, settles nothing that could still be lost.
DeliveryInv ==
  /\ TypeOK
  /\ NoEventLost
  /\ \A w \in Workers : \A e \in publishedIDs[w] : HandedOver(e)
  /\ \A w \in Workers : \A e \in todo[w] : status[e] # "absent"

\* Only publishing and giving up write the history.
LEMMA HistoryFrame ==
  ASSUME [Next]_vars
  PROVE  \/ UNCHANGED history
         \/ \E w \in Workers : \E e \in Entries : publishEntry(w, e) \/ handleExhaustedEntry(w, e)
<1>1. ASSUME NEW w \in Workers, ClaimBatch(w) PROVE UNCHANGED history
  BY Zenon, <1>1 DEF ClaimBatch, Take
<1>2. ASSUME NEW w \in Workers, doPoll(w) \/ ClaimBatchFails(w) PROVE UNCHANGED history
  BY Zenon, <1>2 DEF doPoll, ClaimBatchFails
<1>3. ASSUME NEW w \in Workers, MarkPublished(w) \/ ReleaseClaims(w) PROVE UNCHANGED history
  BY Zenon, <1>3 DEF MarkPublished, ReleaseClaims
<1>4. ASSUME NEW w \in Workers, EndPoll(w) \/ Crash(w) \/ Cancel(w) PROVE UNCHANGED history
  BY Zenon, <1>4 DEF EndPoll, Crash, Cancel
<1>5. CASE (\E e \in Entries : Insert(e)) \/ Tick \/ UNCHANGED vars
  BY Zenon, <1>5 DEF Insert, Tick, vars
<1> QED
  BY Zenon, <1>1, <1>2, <1>3, <1>4, <1>5 DEF Next, poll

\* What broker, DLQ and log have received is never taken back.
LEMMA HistoryGrows ==
  ASSUME TypeOK, [Next]_vars
  PROVE  delivered \subseteq delivered' /\ dlq \subseteq dlq' /\ dropped \subseteq dropped'
<1> USE DEF history
<1>1. ASSUME NEW w \in Workers, NEW e \in Entries, publishEntry(w, e) \/ handleExhaustedEntry(w, e)
      PROVE  delivered \subseteq delivered' /\ dlq \subseteq dlq' /\ dropped \subseteq dropped'
  BY Zenon, <1>1 DEF publishEntry, handleExhaustedEntry
<1>2. CASE UNCHANGED history
  BY Zenon, <1>2
<1> QED
  BY Zenon, <1>1, <1>2, HistoryFrame

\* Once handed over, an event stays handed over.
LEMMA HandedOverStays ==
  ASSUME TypeOK, [Next]_vars, NEW e \in Entries, HandedOver(e)
  PROVE  HandedOver(e)'
  BY Zenon, HistoryGrows, ConfStays DEF HandedOver

\* How a step may change the table: an insert accepts one absent entry,
\* MarkPublished settles entries of one worker's list, Cleanup deletes
\* settled rows, and no other step changes a status.
LEMMA StatusSteps ==
  ASSUME TypeOK, [Next]_vars
  PROVE  \/ UNCHANGED status
         \/ \E e \in Entries : /\ status[e] = "absent"
                               /\ status' = [status EXCEPT ![e] = "pending"]
                               /\ UNCHANGED <<delivered, dlq, dropped, todo, publishedIDs>>
         \/ \E w \in Workers : /\ \A e \in Entries :
                                   \/ status'[e] = status[e]
                                   \/ e \in publishedIDs[w] /\ status[e] # "absent" /\ status'[e] = "published"
                               /\ UNCHANGED <<delivered, dlq, dropped, todo>>
                               /\ publishedIDs' = [publishedIDs EXCEPT ![w] = {}]
         \/ /\ \A e \in Entries : \/ status'[e] = status[e]
                                  \/ status[e] = "published" /\ status'[e] = "deleted"
            /\ UNCHANGED <<delivered, dlq, dropped, todo, publishedIDs>>
<1> USE DEF table, local, history
<1>1. ASSUME NEW e \in Entries, Insert(e)
      PROVE  /\ status[e] = "absent"
             /\ status' = [status EXCEPT ![e] = "pending"]
             /\ UNCHANGED <<delivered, dlq, dropped, todo, publishedIDs>>
  BY Zenon, <1>1 DEF Insert
<1>2. ASSUME NEW w \in Workers, MarkPublished(w)
      PROVE  /\ \A e \in Entries :
                  \/ status'[e] = status[e]
                  \/ e \in publishedIDs[w] /\ status[e] # "absent" /\ status'[e] = "published"
             /\ UNCHANGED <<delivered, dlq, dropped, todo>>
             /\ publishedIDs' = [publishedIDs EXCEPT ![w] = {}]
  BY Zenon, <1>2 DEF MarkPublished, SetPublished, Present, TypeOK
<1>3. ASSUME NEW w \in Workers, EndPoll(w)
      PROVE  /\ \A e \in Entries : \/ status'[e] = status[e]
                                   \/ status[e] = "published" /\ status'[e] = "deleted"
             /\ UNCHANGED <<delivered, dlq, dropped, todo, publishedIDs>>
  BY Zenon, <1>3 DEF EndPoll, Cleanup, TypeOK
<1>4. ASSUME NEW w \in Workers, ClaimBatch(w) PROVE UNCHANGED status
  BY Zenon, <1>4 DEF ClaimBatch, Take, claimEntriesTx
<1>5. ASSUME NEW w \in Workers, ClaimBatchFails(w) PROVE UNCHANGED status
  BY Zenon, <1>5 DEF ClaimBatchFails, claimEntriesTx
<1>6. ASSUME NEW w \in Workers, ReleaseClaims(w) PROVE UNCHANGED status
  BY Zenon, <1>6 DEF ReleaseClaims, ClearClaims
<1>7. ASSUME NEW w \in Workers, NEW e \in Entries, publishEntry(w, e) \/ handleExhaustedEntry(w, e)
      PROVE  UNCHANGED status
  BY Zenon, <1>7 DEF publishEntry, handleExhaustedEntry
<1>8. ASSUME NEW w \in Workers, doPoll(w) \/ Crash(w) \/ Cancel(w) PROVE UNCHANGED status
  BY Zenon, <1>8 DEF doPoll, Crash, Cancel
<1>9. CASE Tick \/ UNCHANGED vars
  BY Zenon, <1>9 DEF Tick, vars
<1> QED
  BY Zenon, <1>1, <1>2, <1>3, <1>4, <1>5, <1>6, <1>7, <1>8, <1>9 DEF Next, poll

\* A worker's list to mark grows by handed-over entries only.
LEMMA MarkListSteps ==
  ASSUME TypeOK, [Next]_vars, NEW w \in Workers, NEW e \in publishedIDs'[w]
  PROVE  e \in publishedIDs[w] \/ (e \in Entries /\ HandedOver(e)')
<1>t. publishedIDs \in [Workers -> SUBSET Entries]
  BY Zenon DEF TypeOK
<1> USE <1>t DEF table, local, history
<1>1. ASSUME NEW v \in Workers, NEW f \in Entries, publishEntry(v, f)
      PROVE  e \in publishedIDs[w] \/ (e \in Entries /\ HandedOver(e)')
  <2>1. CASE Fail(v, f)
    BY Zenon, <2>1 DEF Fail
  <2>2. CASE Succeed(v, f) /\ delivered' = delivered \cup {f}
    BY Zenon, <2>2 DEF Succeed, HandedOver
  <2> QED
    BY Zenon, <1>1, <2>1, <2>2 DEF publishEntry
<1>2. ASSUME NEW v \in Workers, NEW f \in Entries, handleExhaustedEntry(v, f)
      PROVE  e \in publishedIDs[w] \/ (e \in Entries /\ HandedOver(e)')
  <2>1. CASE Fail(v, f)
    BY Zenon, <2>1 DEF Fail
  <2>2. CASE Succeed(v, f) /\ conf.hasDLQ /\ dlq' = dlq \cup {f}
    BY Zenon, <2>2 DEF Succeed, HandedOver
  <2>3. CASE Succeed(v, f) /\ ~conf.hasDLQ /\ dropped' = dropped \cup {f}
    BY Zenon, <2>3, ConfStays DEF Succeed, HandedOver
  <2> QED
    BY Zenon, <1>2, <2>1, <2>2, <2>3 DEF handleExhaustedEntry
<1>3. ASSUME NEW v \in Workers, ClaimBatch(v) PROVE UNCHANGED publishedIDs
  BY Zenon, <1>3 DEF ClaimBatch, Take
<1>4. ASSUME NEW v \in Workers, MarkPublished(v) \/ Crash(v)
      PROVE  e \in publishedIDs[w]
  BY Zenon, <1>4 DEF MarkPublished, Crash
<1>5. ASSUME NEW v \in Workers, doPoll(v) \/ ClaimBatchFails(v) PROVE UNCHANGED publishedIDs
  BY Zenon, <1>5 DEF doPoll, ClaimBatchFails
<1>6. ASSUME NEW v \in Workers, ReleaseClaims(v) \/ EndPoll(v) \/ Cancel(v)
      PROVE  UNCHANGED publishedIDs
  BY Zenon, <1>6 DEF ReleaseClaims, EndPoll, Cancel
<1>7. CASE (\E f \in Entries : Insert(f)) \/ Tick \/ UNCHANGED vars
  BY Zenon, <1>7 DEF Insert, Tick, vars
<1> QED
  BY Zenon, <1>1, <1>2, <1>3, <1>4, <1>5, <1>6, <1>7 DEF Next, poll

\* A worker's list of entries to look at grows by rows of the table only.
LEMMA TodoSteps ==
  ASSUME TypeOK, [Next]_vars, NEW w \in Workers, NEW e \in todo'[w]
  PROVE  e \in todo[w] \/ (e \in Entries /\ status[e] = "pending")
<1>t. todo \in [Workers -> SUBSET Entries]
  BY Zenon DEF TypeOK
<1> USE <1>t DEF table, local, history
<1>1. ASSUME NEW v \in Workers, ClaimBatch(v)
      PROVE  e \in todo[w] \/ (e \in Entries /\ status[e] = "pending")
  <2>1. PICK B \in SUBSET Eligible : Take(v, B)
    BY Zenon, <1>1 DEF ClaimBatch, Batches
  <2> QED
    BY Zenon, <2>1 DEF Take, Eligible
<1>2. ASSUME NEW v \in Workers, NEW f \in Entries, publishEntry(v, f) \/ handleExhaustedEntry(v, f)
      PROVE  e \in todo[w]
  <2>1. Advance(v, f)
    BY Zenon, <1>2 DEF publishEntry, handleExhaustedEntry
  <2> QED
    BY Zenon, <2>1 DEF Advance
<1>3. ASSUME NEW v \in Workers, Crash(v) PROVE e \in todo[w]
  BY Zenon, <1>3 DEF Crash
<1>4. ASSUME NEW v \in Workers, doPoll(v) \/ ClaimBatchFails(v) \/ MarkPublished(v)
      PROVE  UNCHANGED todo
  BY Zenon, <1>4 DEF doPoll, ClaimBatchFails, MarkPublished
<1>5. ASSUME NEW v \in Workers, ReleaseClaims(v) \/ EndPoll(v) \/ Cancel(v)
      PROVE  UNCHANGED todo
  BY Zenon, <1>5 DEF ReleaseClaims, EndPoll, Cancel
<1>6. CASE (\E f \in Entries : Insert(f)) \/ Tick \/ UNCHANGED vars
  BY Zenon, <1>6 DEF Insert, Tick, vars
<1> QED
  BY Zenon, <1>1, <1>2, <1>3, <1>4, <1>5, <1>6 DEF Next, poll

\* An accepted entry stays accepted, a settled one settled, and an entry is
\* settled only by a worker that has it on its list to mark.
LEMMA StatusMoves ==
  ASSUME TypeOK, [Next]_vars, NEW e \in Entries
  PROVE  /\ status[e] # "absent" => status'[e] # "absent"
         /\ Settled(e) => Settled(e)'
         /\ Settled(e)' => Settled(e) \/ \E w \in Workers : e \in publishedIDs[w]
<1>t. status \in [Entries -> Statuses]
  BY Zenon DEF TypeOK
<1> USE <1>t DEF Settled
<1>1. CASE UNCHANGED status
  BY Zenon, <1>1
<1>2. CASE \E f \in Entries : status[f] = "absent" /\ status' = [status EXCEPT ![f] = "pending"]
  BY Zenon, <1>2
<1>3. CASE \E w \in Workers :
             \/ status'[e] = status[e]
             \/ e \in publishedIDs[w] /\ status[e] # "absent" /\ status'[e] = "published"
  BY Zenon, <1>3
<1>4. CASE status'[e] = status[e] \/ (status[e] = "published" /\ status'[e] = "deleted")
  BY Zenon, <1>4
<1> QED
  BY Zenon, <1>1, <1>2, <1>3, <1>4, StatusSteps

\* DeliveryInv is inductive.
LEMMA DeliveryStep == DeliveryInv /\ [Next]_vars => DeliveryInv'
<1> SUFFICES ASSUME DeliveryInv, [Next]_vars PROVE DeliveryInv'
  BY Zenon
<1>0. TypeOK
  BY Zenon DEF DeliveryInv
<1>1. TypeOK'
  BY Zenon, <1>0, TypeStep
<1>2. NoEventLost'
  <2> SUFFICES ASSUME NEW e \in Entries, Settled(e)' PROVE HandedOver(e)'
    BY Zenon DEF NoEventLost
  <2> QED
    BY Zenon, <1>0, StatusMoves, HandedOverStays DEF DeliveryInv, NoEventLost
<1>3. ASSUME NEW w \in Workers, NEW e \in publishedIDs'[w] PROVE HandedOver(e)'
  <2>1. CASE e \in publishedIDs[w]
    BY Zenon, <1>0, <2>1, HandedOverStays DEF DeliveryInv, TypeOK
  <2> QED
    BY Zenon, <1>0, <1>3, <2>1, MarkListSteps
<1>4. ASSUME NEW w \in Workers, NEW e \in todo'[w] PROVE status'[e] # "absent"
  BY Zenon, <1>0, <1>4, TodoSteps, StatusMoves DEF DeliveryInv, TypeOK
<1> QED
  BY Zenon, <1>1, <1>2, <1>3, <1>4 DEF DeliveryInv

\* DeliveryInv holds in every reachable state.
THEOREM DeliveryInvariant == Spec => []DeliveryInv
<1>1. Init => DeliveryInv
  BY Zenon, TypeInit DEF Init, DeliveryInv, NoEventLost, Settled
<1> QED
  BY <1>1, DeliveryStep, PTL DEF Spec

\* No event is lost: for any number of workers and entries, any timeouts, and
\* any crashes and errors, a row is marked published or deleted only after
\* the broker or the DLQ has its event (or no DLQ is configured and it was
\* given up after MaxRetries).
THEOREM NoEventLostAlways == Spec => []NoEventLost
<1>1. DeliveryInv => NoEventLost
  BY Zenon DEF DeliveryInv
<1> QED
  BY <1>1, DeliveryInvariant, PTL

-----------------------------------------------------------------------------
\* Refinement

\* The relay implements AtLeastOnce: Insert accepts, a publish or a DLQ insert
\* that takes effect hands over, MarkPublished settles what was handed over,
\* and every other step, duplicates included, changes nothing its writers see.
THEOREM Refinement == Spec => RefinesAtLeastOnce
<1> DEFINE Accepted == {e \in Entries : status[e] # "absent"}
           Handed   == {e \in Entries : HandedOver(e)}
           Done     == {e \in Entries : Settled(e)}
<1>1. Init => Promise!Init
  BY Zenon DEF Init, Promise!Init, HandedOver, Settled
<1>2. DeliveryInv /\ [Next]_vars => [Promise!Next]_(Promise!vars)
  <2> SUFFICES ASSUME DeliveryInv, [Next]_vars
               PROVE  Promise!Next \/ UNCHANGED Promise!vars
    BY Zenon
  <2>0. TypeOK
    BY Zenon DEF DeliveryInv
  <2>c. UNCHANGED conf
    BY Zenon, ConfStays
  <2>1. ASSUME NEW e \in Entries, Insert(e) PROVE Promise!Next
    <3>1. Accepted' = Accepted \cup {e} /\ Done' = Done
      BY Zenon, <2>0, <2>1 DEF Insert, TypeOK, Settled
    <3>2. Handed' = Handed
      BY Zenon, <2>c, <2>1 DEF Insert, history, HandedOver
    <3>3. Promise!Accept(e)
      BY Zenon, <3>1, <3>2 DEF Promise!Accept
    <3> QED
      BY Zenon, <3>3 DEF Promise!Next
  <2>2. ASSUME NEW w \in Workers, NEW e \in Entries, publishEntry(w, e)
        PROVE  Promise!Next \/ UNCHANGED Promise!vars
    <3>1. e \in Accepted
      BY Zenon, <2>2 DEF DeliveryInv, publishEntry, Turn
    <3>2. UNCHANGED status
      BY Zenon, <2>2 DEF publishEntry, table
    <3>3. Accepted' = Accepted /\ Done' = Done
      BY Zenon, <3>2 DEF Settled
    <3>4. Handed' = Handed \cup {e} \/ Handed' = Handed
      BY Zenon, <2>c, <2>2 DEF publishEntry, HandedOver
    <3> QED
      BY Zenon, <3>1, <3>3, <3>4 DEF Promise!Next, Promise!HandOver, Promise!vars
  <2>3. ASSUME NEW w \in Workers, NEW e \in Entries, handleExhaustedEntry(w, e)
        PROVE  Promise!Next \/ UNCHANGED Promise!vars
    <3>1. e \in Accepted
      BY Zenon, <2>3 DEF DeliveryInv, handleExhaustedEntry, Turn
    <3>2. UNCHANGED status
      BY Zenon, <2>3 DEF handleExhaustedEntry, table
    <3>3. Accepted' = Accepted /\ Done' = Done
      BY Zenon, <3>2 DEF Settled
    <3>4. Handed' = Handed \cup {e} \/ Handed' = Handed
      BY Zenon, <2>c, <2>3 DEF handleExhaustedEntry, HandedOver
    <3> QED
      BY Zenon, <3>1, <3>3, <3>4 DEF Promise!Next, Promise!HandOver, Promise!vars
  <2>4. ASSUME NEW w \in Workers, MarkPublished(w) PROVE Promise!Next
    <3> DEFINE S == Done' \ Done
    <3>1. Handed' = Handed
      BY Zenon, <2>c, <2>4 DEF MarkPublished, history, HandedOver
    <3>2. \A e \in Entries :
            \/ status'[e] = status[e]
            \/ status[e] # "absent" /\ status'[e] = "published"
      BY Zenon, <2>0, <2>4 DEF MarkPublished, SetPublished, Present, TypeOK, table
    <3>3. Accepted' = Accepted
      BY Zenon, <3>2
    <3>4. Done' = Done \cup S /\ S \in SUBSET Entries
      BY Zenon, <2>0, StatusMoves
    <3>5. S \subseteq Handed
      BY Zenon, <2>0, DeliveryStep, <3>1 DEF DeliveryInv, NoEventLost
    <3>6. Promise!Settle(S)
      BY Zenon, <3>1, <3>3, <3>4, <3>5 DEF Promise!Settle
    <3> QED
      BY Zenon, <3>4, <3>6 DEF Promise!Next
  <2>5. ASSUME NEW w \in Workers, EndPoll(w) PROVE UNCHANGED Promise!vars
    <3>1. Handed' = Handed
      BY Zenon, <2>c, <2>5 DEF EndPoll, history, HandedOver
    <3>2. \A e \in Entries :
            \/ status'[e] = status[e]
            \/ status[e] = "published" /\ status'[e] = "deleted"
      BY Zenon, <2>0, <2>5 DEF EndPoll, Cleanup, TypeOK, table
    <3>3. Accepted' = Accepted /\ Done' = Done
      BY Zenon, <3>2 DEF Settled
    <3> QED
      BY Zenon, <3>1, <3>3 DEF Promise!vars
  <2>6. ASSUME UNCHANGED <<status, delivered, dlq, dropped>> PROVE UNCHANGED Promise!vars
    BY Zenon, <2>c, <2>6 DEF Promise!vars, HandedOver, Settled
  <2>7. ASSUME NEW w \in Workers, ClaimBatch(w) \/ ClaimBatchFails(w) \/ ReleaseClaims(w)
        PROVE  UNCHANGED <<status, delivered, dlq, dropped>>
    BY Zenon, <2>7 DEF ClaimBatch, Take, ClaimBatchFails, claimEntriesTx, ReleaseClaims, ClearClaims,
         table, history
  <2>8. ASSUME NEW w \in Workers, doPoll(w) \/ Crash(w) \/ Cancel(w)
        PROVE  UNCHANGED <<status, delivered, dlq, dropped>>
    BY Zenon, <2>8 DEF doPoll, Crash, Cancel, table, history
  <2>9. CASE Tick \/ UNCHANGED vars
    BY Zenon, <2>6, <2>9 DEF Tick, vars, table, history
  <2> QED
    BY Zenon, <2>1, <2>2, <2>3, <2>4, <2>5, <2>6, <2>7, <2>8, <2>9 DEF Next, poll
<1> QED
  BY <1>1, <1>2, DeliveryInvariant, PTL DEF Spec, RefinesAtLeastOnce, Promise!Spec

-----------------------------------------------------------------------------
\* Leases

\* A poll's lists are empty outside the loop and never share an entry, and no
\* two workers hold the same lease token.
PollShape ==
  /\ \A w \in Workers :
       /\ pc[w] \in {"idle", "claim", "end"} => Batch(w) = {}
       /\ pc[w] \in {"mark", "release"} => todo[w] = {}
       /\ pc[w] = "release" => publishedIDs[w] = {}
       /\ todo[w] \cap (publishedIDs[w] \cup failed[w]) = {}
       /\ publishedIDs[w] \cap failed[w] = {}
       /\ Batch(w) # {} => lease[w] \in Tokens
  /\ \A v, w \in Workers : v # w /\ lease[v] = lease[w] => lease[v] = NULL

PollInv == TypeOK /\ PollShape

\* The types of what a worker knows of its poll, and of a row's claim.
PollTypes ==
  /\ pc \in [Workers -> Stages]
  /\ elapsed \in [Workers -> 0..PollTimeout]
  /\ lease \in [Workers -> Tokens \cup {NULL}]
  /\ todo \in [Workers -> SUBSET Entries]
  /\ publishedIDs \in [Workers -> SUBSET Entries]
  /\ failed \in [Workers -> SUBSET Entries]
ClaimTypes ==
  /\ status \in [Entries -> Statuses]
  /\ claimAge \in [Entries -> Int]
  /\ token \in [Entries -> Tokens \cup {NULL, Blank}]

\* Both are part of TypeOK.
LEMMA TypesOf == TypeOK => PollTypes /\ ClaimTypes
  BY Zenon DEF TypeOK, PollTypes, ClaimTypes

\* PollInv is inductive.
LEMMA PollStep == PollInv /\ [Next]_vars => PollInv'
<1> SUFFICES ASSUME PollInv, [Next]_vars PROVE PollInv'
  BY Zenon
<1>0. PollTypes /\ PollShape /\ NULL \notin Tokens
  BY Zenon, TypesOf, ConstantsFact DEF PollInv, Constants
<1> SUFFICES PollShape'
  BY Zenon, TypeStep DEF PollInv
<1> USE <1>0 DEF PollShape, PollTypes, Batch, table, local, history
<1>1. ASSUME NEW w \in Workers, ClaimBatch(w) PROVE PollShape'
  <2>1. PICK B \in SUBSET Eligible : Take(w, B)
    BY Zenon, <1>1 DEF ClaimBatch, Batches
  <2>2. generateLeaseToken \in Tokens /\ \A v \in Workers : lease[v] # generateLeaseToken
    BY ZenonT(60), <1>1, FreshToken DEF ClaimBatch, FreshTokens
  <2>3. todo[w] = {} /\ publishedIDs[w] = {} /\ failed[w] = {}
    BY Zenon, <1>1 DEF ClaimBatch
  <2> QED
    BY <2>1, <2>2, <2>3 DEF Take
<1>2. ASSUME NEW w \in Workers, ClaimBatchFails(w) PROVE PollShape'
  BY ZenonT(60), <1>2 DEF ClaimBatchFails
<1>3. ASSUME NEW w \in Workers, NEW e \in Entries, publishEntry(w, e) \/ handleExhaustedEntry(w, e)
      PROVE PollShape'
  <2>1. Advance(w, e) /\ Turn(w, e)
    BY Zenon, <1>3 DEF publishEntry, handleExhaustedEntry
  <2>2. CASE Succeed(w, e)
    BY <2>1, <2>2 DEF Advance, Turn, Succeed
  <2>3. CASE Fail(w, e)
    BY <2>1, <2>3 DEF Advance, Turn, Fail
  <2> QED
    BY ZenonT(60), <1>3, <2>2, <2>3 DEF publishEntry, handleExhaustedEntry
<1>4. ASSUME NEW w \in Workers, MarkPublished(w) PROVE PollShape'
  BY <1>4 DEF MarkPublished
<1>5. ASSUME NEW w \in Workers, ReleaseClaims(w) PROVE PollShape'
  BY <1>5 DEF ReleaseClaims
<1>6. ASSUME NEW w \in Workers, EndPoll(w) PROVE PollShape'
  BY Zenon, <1>6 DEF EndPoll
<1>7. ASSUME NEW w \in Workers, doPoll(w) PROVE PollShape'
  BY ZenonT(60), <1>7 DEF doPoll
<1>8. ASSUME NEW w \in Workers, Crash(w) PROVE PollShape'
  BY <1>8 DEF Crash
<1>9. ASSUME NEW w \in Workers, Cancel(w) PROVE PollShape'
  BY Zenon, <1>9 DEF Cancel
<1>10. CASE (\E e \in Entries : Insert(e)) \/ Tick \/ UNCHANGED vars
  BY ZenonT(60), <1>10 DEF Insert, Tick, vars
<1> QED
  BY Zenon, <1>1, <1>2, <1>3, <1>4, <1>5, <1>6, <1>7, <1>8, <1>9, <1>10 DEF Next, poll

\* What a worker with a live poll context knows of an entry of its batch.  The
\* bound on the claim's age is what LeaseHeld lacks to be inductive: a claim
\* is younger than the poll that made it, hence than the lease timeout.
Owns(w, e) ==
  /\ token[e] = lease[w]
  /\ status[e] = "pending"
  /\ claimAge[e] \in 0..elapsed[w]

HeldInv ==
  /\ PollInv
  /\ \A w \in Workers : \A e \in Batch(w) : ~Expired(w) => Owns(w, e)

\* No statement of another actor can select an entry that a live worker owns:
\* its claim is not stale, and no other worker has its token.
LEMMA OwnedIsSafe ==
  ASSUME HeldInv, PollTimeout <= LeaseTimeout,
         NEW v \in Workers, NEW e \in Batch(v), ~Expired(v)
  PROVE  /\ e \in Entries
         /\ e \notin Eligible
         /\ \A w \in Workers \ {v} : ~Expired(w) => e \notin Batch(w)
<1>0. PollTypes /\ ClaimTypes /\ PollShape
  BY Zenon, TypesOf DEF HeldInv, PollInv
<1>1. e \in Entries /\ Owns(v, e) /\ lease[v] \in Tokens
  BY Zenon, <1>0 DEF HeldInv, PollShape, Batch, PollTypes
<1>2. claimAge[e] \in Int /\ claimAge[e] >= 0 /\ claimAge[e] <= LeaseTimeout
  BY <1>0, <1>1, ConstantsFact DEF Owns, PollTypes, ClaimTypes, Constants
<1>3. e \notin Eligible
  BY <1>2, ConstantsFact DEF Eligible, Unclaimed, Constants
<1>4. ASSUME NEW w \in Workers \ {v}, ~Expired(w), e \in Batch(w) PROVE FALSE
  <2>1. Owns(w, e)
    BY Zenon, <1>4 DEF HeldInv
  <2> QED
    <3>1. lease[v] = lease[w]
      BY Zenon, <1>1, <2>1 DEF Owns
    <3>2. lease[v] = NULL
      BY Zenon, <1>0, <1>4, <3>1 DEF PollShape
    <3> QED
      BY Zenon, <1>1, <3>2, ConstantsFact DEF Constants
<1> QED
  BY Zenon, <1>1, <1>3, <1>4

\* HeldInv is inductive when a poll cannot outlive a lease.
LEMMA HeldStep ==
  ASSUME PollTimeout <= LeaseTimeout
  PROVE  HeldInv /\ [Next]_vars => HeldInv'
<1> SUFFICES ASSUME HeldInv, [Next]_vars, NEW v \in Workers, NEW e \in Batch(v)', ~Expired(v)'
             PROVE  Owns(v, e)'
  BY Zenon, PollStep DEF HeldInv
<1>b. TypeOK /\ TypeOK' /\ PollShape
  BY Zenon, TypeStep DEF HeldInv, PollInv
<1>c. PollTypes'
  BY Zenon, <1>b DEF TypeOK, PollTypes
<1>0. PollTypes /\ ClaimTypes /\ PollTypes' /\ PollShape
  BY Zenon, <1>b, <1>c, TypesOf
<1>e. e \in Entries
  BY Zenon, <1>0 DEF PollTypes, Batch
<1>a. ASSUME e \in Batch(v), ~Expired(v)
      PROVE  /\ Owns(v, e)
             /\ e \notin Eligible
             /\ \A w \in Workers \ {v} : ~Expired(w) => e \notin Batch(w)
  BY Zenon, <1>a, OwnedIsSafe DEF HeldInv
<1>t. PollTypes /\ ClaimTypes
  BY Zenon, <1>0
<1> USE <1>t, <1>e DEF PollTypes, ClaimTypes, Batch, Expired, table, local, history
<1>1. ASSUME NEW f \in Entries, Insert(f) PROVE Owns(v, e)'
  BY Zenon, <1>1, <1>a DEF Insert, Owns
<1>2. ASSUME NEW w \in Workers, ClaimBatch(w) PROVE Owns(v, e)'
  <2>1. PICK B \in SUBSET Eligible : Take(w, B)
    BY Zenon, <1>2 DEF ClaimBatch, Batches
  <2>2. PICK age \in 0..elapsed[w] :
          claimAge' = [f \in Entries |-> IF f \in B THEN age ELSE claimAge[f]]
    BY Zenon, <2>1 DEF Take, claimEntriesTx
  <2>3. CASE v = w
    <3>0. pc[w] = "claim"
      BY Zenon, <1>2 DEF ClaimBatch
    <3>a. publishedIDs[w] = {} /\ failed[w] = {}
      BY Zenon, <1>0, <3>0 DEF PollShape
    <3>1. publishedIDs'[w] = {} /\ failed'[w] = {} /\ todo'[w] = B
      BY Zenon, <2>1, <3>a DEF Take
    <3>2. e \in B
      BY Zenon, <2>3, <3>1
    <3> QED
      BY Zenon, <2>1, <2>2, <2>3, <3>2 DEF Take, claimEntriesTx, Owns, Eligible
  <2>4. CASE v # w
    <3>1. e \in Batch(v) /\ ~Expired(v) /\ lease'[v] = lease[v] /\ elapsed'[v] = elapsed[v]
      BY Zenon, <2>1, <2>4 DEF Take
    <3> QED
      BY Zenon, <2>1, <2>2, <3>1, <1>a DEF Take, claimEntriesTx, Owns
  <2> QED
    BY Zenon, <2>3, <2>4
<1>3. ASSUME NEW w \in Workers, ClaimBatchFails(w) PROVE Owns(v, e)'
  <2>1. e \in Batch(v) /\ ~Expired(v) /\ lease'[v] = lease[v] /\ elapsed'[v] = elapsed[v]
    BY Zenon, <1>3 DEF ClaimBatchFails
  <2>2. CASE UNCHANGED table
    BY Zenon, <2>1, <2>2, <1>a DEF Owns
  <2>3. CASE \E B \in Batches(Eligible) : claimEntriesTx(w, B, generateLeaseToken)
    <3>1. PICK B \in SUBSET Eligible : claimEntriesTx(w, B, generateLeaseToken)
      BY Zenon, <2>3 DEF Batches
    <3> QED
      BY Zenon, <3>1, <2>1, <1>a DEF claimEntriesTx, Owns
  <2> QED
    BY Zenon, <1>3, <2>2, <2>3 DEF ClaimBatchFails
<1>4. ASSUME NEW w \in Workers, NEW f \in Entries, publishEntry(w, f) \/ handleExhaustedEntry(w, f)
      PROVE Owns(v, e)'
  <2>1. Advance(w, f) /\ Turn(w, f) /\ (Succeed(w, f) \/ Fail(w, f)) /\ UNCHANGED table
    BY Zenon, <1>4 DEF publishEntry, handleExhaustedEntry
  <2>2. e \in Batch(v) /\ ~Expired(v) /\ lease'[v] = lease[v] /\ elapsed'[v] = elapsed[v]
    BY <2>1 DEF Advance, Turn, Succeed, Fail
  <2> QED
    BY Zenon, <2>1, <2>2, <1>a DEF Owns
<1>5. ASSUME NEW w \in Workers, MarkPublished(w) PROVE Owns(v, e)'
  <2>1. e \in Batch(v) /\ ~Expired(v) /\ lease'[v] = lease[v] /\ elapsed'[v] = elapsed[v]
    BY Zenon, <1>5 DEF MarkPublished
  <2>2. CASE UNCHANGED table
    BY Zenon, <2>1, <2>2, <1>a DEF Owns
  <2>3. CASE ~Expired(w) /\ SetPublished(publishedIDs[w], lease[w])
    <3>0. publishedIDs' = [publishedIDs EXCEPT ![w] = {}] /\ UNCHANGED <<todo, failed>>
      BY Zenon, <1>5 DEF MarkPublished
    <3>1. e \notin publishedIDs[w]
      BY Zenon, <1>0, <2>1, <2>3, <3>0, <1>a DEF PollShape
    <3> QED
      BY Zenon, <3>1, <2>1, <2>3, <1>a DEF SetPublished, Owns
  <2> QED
    BY Zenon, <1>5, <2>2, <2>3 DEF MarkPublished
<1>6. ASSUME NEW w \in Workers, ReleaseClaims(w) PROVE Owns(v, e)'
  <2>a. /\ pc[w] = "release" /\ failed' = [failed EXCEPT ![w] = {}]
        /\ UNCHANGED <<todo, publishedIDs>>
    BY Zenon, <1>6 DEF ReleaseClaims
  <2>0. v # w
    BY ZenonT(60), <1>0, <2>a DEF PollShape
  <2>1. e \in Batch(v) /\ ~Expired(v) /\ lease'[v] = lease[v] /\ elapsed'[v] = elapsed[v]
    BY Zenon, <1>6, <2>0 DEF ReleaseClaims
  <2>2. CASE UNCHANGED table
    BY Zenon, <2>1, <2>2, <1>a DEF Owns
  <2>3. CASE ~Expired(w) /\ ClearClaims(failed[w])
    <3>1. e \notin failed[w]
      BY Zenon, <2>0, <2>1, <2>3, <1>a
    <3> QED
      BY Zenon, <3>1, <2>1, <2>3, <1>a DEF ClearClaims, Owns
  <2> QED
    BY Zenon, <1>6, <2>2, <2>3 DEF ReleaseClaims
<1>7. ASSUME NEW w \in Workers, EndPoll(w) PROVE Owns(v, e)'
  <2>0. pc[w] = "end" /\ UNCHANGED <<todo, publishedIDs, failed>>
    BY Zenon, <1>7 DEF EndPoll
  <2>1. v # w
    BY Zenon, <1>0, <2>0 DEF PollShape
  <2>2. e \in Batch(v) /\ ~Expired(v) /\ lease'[v] = lease[v] /\ elapsed'[v] = elapsed[v]
    BY Zenon, <1>7, <2>1 DEF EndPoll
  <2>3. UNCHANGED <<claimAge, token>>
    BY Zenon, <1>7 DEF EndPoll, Cleanup
  <2>4. status[e] = "pending" => status'[e] = "pending"
    BY Zenon, <1>7 DEF EndPoll, Cleanup
  <2> QED
    BY Zenon, <2>2, <2>3, <2>4, <1>a DEF Owns
<1>8. ASSUME NEW w \in Workers, doPoll(w) PROVE Owns(v, e)'
  <2>0. pc[w] = "idle" /\ UNCHANGED <<todo, publishedIDs, failed>>
    BY Zenon, <1>8 DEF doPoll
  <2>1. v # w
    BY Zenon, <1>0, <2>0 DEF PollShape
  <2> QED
    BY Zenon, <1>8, <2>1, <1>a DEF doPoll, Owns
<1>9. ASSUME NEW w \in Workers, Crash(w) PROVE Owns(v, e)'
  BY ZenonT(60), <1>9, <1>a DEF Crash, Owns
<1>10. ASSUME NEW w \in Workers, Cancel(w) PROVE Owns(v, e)'
  BY Zenon, <1>10, <1>a DEF Cancel, Owns
<1>11. CASE Tick
  <2>1. e \in Batch(v) /\ lease'[v] = lease[v] /\ token'[e] = token[e] /\ status'[e] = status[e]
    BY Zenon, <1>11 DEF Tick
  <2>2. ~Expired(v)
    BY Zenon, <1>11 DEF Tick
  <2>3. pc[v] \in {"publish", "mark", "release"}
    BY ZenonT(60), <1>0, <2>1 DEF PollShape, Stages
  <2>4. elapsed'[v] = elapsed[v] + 1
    BY Zenon, <1>11, <2>2, <2>3 DEF Tick, Busy
  <2>5. claimAge[e] \in 0..elapsed[v] /\ elapsed[v] \in 0..PollTimeout
    BY Zenon, <2>1, <2>2, <1>a DEF Owns
  <2>6. claimAge[e] \in 0..LeaseTimeout
    BY <2>5, ConstantsFact DEF Constants
  <2>7. claimAge'[e] = claimAge[e] + 1
    BY Zenon, <1>11, <2>6 DEF Tick
  <2>8. claimAge'[e] \in 0..elapsed'[v]
    BY <2>4, <2>5, <2>7, ConstantsFact DEF Constants
  <2> QED
    BY Zenon, <2>1, <2>2, <2>8, <1>a DEF Owns
<1>12. CASE UNCHANGED vars
  BY Zenon, <1>12, <1>a DEF vars, Owns
<1> QED
  BY ZenonT(60), <1>1, <1>2, <1>3, <1>4, <1>5, <1>6, <1>7, <1>8, <1>9, <1>10, <1>11, <1>12 DEF Next, poll

\* HeldInv holds initially: no worker has a batch.
LEMMA HeldInit == Init => HeldInv
<1> SUFFICES ASSUME Init PROVE HeldInv
  BY Zenon
<1>1. \A w \in Workers : Batch(w) = {} /\ lease[w] = NULL
  BY Zenon DEF Init, Batch
<1>2. \A w \in Workers : todo[w] = {} /\ publishedIDs[w] = {} /\ failed[w] = {}
  BY Zenon DEF Init
<1>3. PollShape
  BY Zenon, <1>1, <1>2 DEF PollShape
<1> QED
  BY Zenon, <1>1, <1>3, TypeInit DEF HeldInv, PollInv

\* HeldInv holds in every reachable state when a poll cannot outlive a lease.
LEMMA HeldAlways ==
  ASSUME PollTimeout <= LeaseTimeout
  PROVE  Spec => []HeldInv
<1>1. Init => HeldInv
  BY Zenon, HeldInit
<1> QED
  BY <1>1, HeldStep, PTL DEF Spec

\* A worker inside its poll timeout owns its whole batch, for any number of
\* workers sharing the table: nobody can reclaim, mark, release or clean up
\* an entry under its hands, provided PollTimeout <= LeaseTimeout.
THEOREM LeaseHeldAlways == Spec => []LeaseHeld
<1>1. CASE PollTimeout <= LeaseTimeout
  <2>1. HeldInv => LeaseHeld
    BY Zenon DEF HeldInv, LeaseHeld, Owns
  <2> QED
    BY <1>1, <2>1, HeldAlways, PTL
<1>2. CASE ~(PollTimeout <= LeaseTimeout)
  <2>1. LeaseHeld
    BY Zenon, <1>2 DEF LeaseHeld
  <2> QED
    BY <2>1, PTL
<1> QED
  BY Zenon, <1>1, <1>2

\* Two workers inside their poll timeouts never work on the same entry, under
\* the same proviso: SKIP LOCKED and the lease exclude double publishing for
\* as long as both contexts live.
THEOREM OneLiveOwnerAlways == Spec => []OneLiveOwner
<1>1. CASE PollTimeout <= LeaseTimeout
  <2>1. HeldInv => OneLiveOwner
    BY Zenon, <1>1, OwnedIsSafe DEF OneLiveOwner
  <2> QED
    BY <1>1, <2>1, HeldAlways, PTL
<1>2. CASE ~(PollTimeout <= LeaseTimeout)
  <2>1. OneLiveOwner
    BY Zenon, <1>2 DEF OneLiveOwner
  <2> QED
    BY <2>1, PTL
<1> QED
  BY Zenon, <1>1, <1>2

-----------------------------------------------------------------------------
\* Retries

\* A count of n for entry e is covered by failed attempts (which the history
\* variable counts up to MaxFailures).
Covered(n, e) == n <= failures[e] \/ failures[e] >= MaxFailures

\* The numbers the counts are compared with.
Limits ==
  /\ MaxRetries \in Nat \ {0}
  /\ MaxFailures \in Nat
  /\ MaxRetries <= MaxFailures

\* An entry is given up after MaxRetries failures.
Spent == \A e \in dlq \cup dropped : failures[e] >= MaxRetries

\* retry_count and every copy of it a worker holds are covered, and an entry
\* on the release list of a live worker is covered for one more retry.
RetryInv ==
  /\ HeldInv
  /\ \A e \in Entries : Covered(retry[e], e)
  /\ \A w \in Workers : \A e \in Entries : Covered(seenRetry[w][e], e)
  /\ \A w \in Workers : \A e \in failed[w] : ~Expired(w) => Covered(retry[e] + 1, e)
  /\ Spent

\* The types of the counts and of the lists they are about.
RetryTypes ==
  /\ retry \in [Entries -> Nat]
  /\ failures \in [Entries -> Nat]
  /\ seenRetry \in [Workers -> [Entries -> Nat]]
  /\ failed \in [Workers -> SUBSET Entries]
  /\ dlq \in SUBSET Entries
  /\ dropped \in SUBSET Entries

\* They are part of TypeOK.
LEMMA RetryTypesOf == TypeOK => RetryTypes
  BY Zenon DEF TypeOK, RetryTypes

\* Failed attempts are only ever added.
LEMMA FailuresGrow ==
  ASSUME TypeOK, [Next]_vars, NEW e \in Entries
  PROVE  failures[e] <= failures'[e]
<1>t. failures \in [Entries -> Nat] /\ MaxFailures \in Nat
  BY Zenon, ConstantsFact DEF TypeOK, Constants
<1>1. ASSUME NEW w \in Workers, NEW f \in Entries, publishEntry(w, f) \/ handleExhaustedEntry(w, f)
      PROVE  failures[e] <= failures'[e]
  <2>1. Succeed(w, f) \/ Fail(w, f)
    BY Zenon, <1>1 DEF publishEntry, handleExhaustedEntry
  <2>2. failures[e] \in Nat /\ failures[f] \in Nat /\ MaxFailures \in Nat
    BY Zenon, <1>t
  <2>3. CASE Succeed(w, f)
    BY <2>2, <2>3 DEF Succeed
  <2>4. CASE Fail(w, f)
    <3>1. failures' = [failures EXCEPT ![f] = IF failures[f] < MaxFailures THEN failures[f] + 1 ELSE failures[f]]
      BY Zenon, <2>4 DEF Fail
    <3>2. CASE e = f
      BY <3>1, <3>2, <1>t, <2>2
    <3>3. CASE e # f
      BY <3>1, <3>3, <1>t, <2>2
    <3> QED
      BY Zenon, <3>2, <3>3
  <2> QED
    BY Zenon, <2>1, <2>3, <2>4
<1>2. CASE UNCHANGED history
  BY <1>t, <1>2 DEF history
<1> QED
  BY Zenon, <1>1, <1>2, HistoryFrame

\* A covered count stays covered.
LEMMA CoveredStays ==
  ASSUME TypeOK, TypeOK', [Next]_vars, NEW e \in Entries, NEW n \in Nat, Covered(n, e)
  PROVE  Covered(n, e)'
<1>1. failures[e] <= failures'[e]
  BY Zenon, FailuresGrow
<1>2. RetryTypes /\ RetryTypes'
  BY Zenon DEF TypeOK, RetryTypes
<1>3. MaxFailures \in Nat
  BY Zenon, ConstantsFact DEF Constants
<1> QED
  BY <1>1, <1>2, <1>3 DEF Covered, RetryTypes

\* A step keeps RetryInv if it gives up nothing, adds nothing to the release
\* list of a live worker, raises no retry_count, and lets workers only copy it.
LEMMA RetryQuiet ==
  ASSUME RetryInv, [Next]_vars, HeldInv', TypeOK, TypeOK',
         \A e \in Entries : retry'[e] <= retry[e],
         \A w \in Workers : \A e \in Entries : seenRetry'[w][e] \in {seenRetry[w][e], retry[e], 0},
         \A w \in Workers : \A e \in failed'[w] : ~Expired(w)' => e \in failed[w] /\ ~Expired(w),
         UNCHANGED <<dlq, dropped>>
  PROVE  RetryInv'
<1>s. RetryTypes /\ RetryTypes'
  BY Zenon DEF TypeOK, RetryTypes
<1>t. RetryTypes /\ RetryTypes' /\ Limits
  BY Zenon, <1>s, ConstantsFact DEF Constants, Limits
<1>g. \A e \in Entries : failures[e] <= failures'[e]
  BY Zenon, FailuresGrow
<1> USE <1>t DEF Limits
<1>1. ASSUME NEW e \in Entries PROVE Covered(retry[e], e)'
  <2>1. retry[e] \in Nat /\ retry'[e] \in Nat /\ failures'[e] \in Nat /\ retry'[e] <= retry[e]
    BY Zenon DEF RetryTypes
  <2>2. Covered(retry[e], e)
    BY Zenon DEF RetryInv
  <2>3. failures[e] <= failures'[e] /\ failures[e] \in Nat
    BY Zenon, <1>g DEF RetryTypes
  <2> QED
    BY <2>1, <2>2, <2>3 DEF Covered
<1>2. ASSUME NEW w \in Workers, NEW e \in Entries PROVE Covered(seenRetry[w][e], e)'
  <2>1. retry[e] \in Nat /\ seenRetry[w][e] \in Nat /\ failures'[e] \in Nat
    BY Zenon DEF RetryTypes
  <2>2. Covered(retry[e], e) /\ Covered(seenRetry[w][e], e)
    BY Zenon DEF RetryInv
  <2>3. failures[e] <= failures'[e] /\ failures[e] \in Nat
    BY Zenon, <1>g DEF RetryTypes
  <2>4. \A n \in {seenRetry[w][e], retry[e], 0} : n <= failures'[e] \/ failures'[e] >= MaxFailures
    BY <2>1, <2>2, <2>3 DEF Covered
  <2> QED
    BY Zenon, <2>4 DEF Covered
<1>3. ASSUME NEW w \in Workers, NEW e \in failed'[w], ~Expired(w)' PROVE Covered(retry[e] + 1, e)'
  <2>1. e \in Entries /\ e \in failed[w] /\ ~Expired(w)
    BY Zenon, <1>3 DEF RetryTypes
  <2>2. Covered(retry[e] + 1, e)
    BY Zenon, <2>1 DEF RetryInv
  <2>3. failures[e] <= failures'[e] /\ failures[e] \in Nat /\ failures'[e] \in Nat
    BY Zenon, <2>1, <1>g DEF RetryTypes
  <2>4. retry[e] \in Nat /\ retry'[e] \in Nat /\ retry'[e] <= retry[e]
    BY Zenon, <2>1 DEF RetryTypes
  <2> QED
    BY <2>2, <2>3, <2>4 DEF Covered
<1>4. Spent'
  <2> SUFFICES ASSUME NEW e \in dlq \cup dropped PROVE failures'[e] >= MaxRetries
    BY Zenon DEF Spent
  <2>1. e \in Entries /\ failures[e] >= MaxRetries
    BY Zenon DEF RetryInv, Spent, RetryTypes
  <2>2. failures[e] <= failures'[e] /\ failures[e] \in Nat /\ failures'[e] \in Nat
    BY Zenon, <2>1, <1>g DEF RetryTypes
  <2> QED
    BY <2>1, <2>2
<1> QED
  BY Zenon, <1>1, <1>2, <1>3, <1>4 DEF RetryInv

\* Recording the outcome of an entry keeps RetryInv: a failure is counted
\* before the entry is put on the release list.
LEMMA RetryOutcome ==
  ASSUME RetryInv, [Next]_vars, HeldInv', TypeOK, TypeOK',
         NEW w \in Workers, NEW f \in Entries,
         Succeed(w, f) \/ Fail(w, f), Advance(w, f), UNCHANGED retry,
         \A e \in (dlq \cup dropped)' : e \in dlq \cup dropped \/ Covered(MaxRetries, e)
  PROVE  RetryInv'
<1>s. RetryTypes /\ RetryTypes'
  BY Zenon DEF TypeOK, RetryTypes
<1>t. RetryTypes /\ RetryTypes' /\ Limits
  BY Zenon, <1>s, ConstantsFact DEF Constants, Limits
<1>g. \A e \in Entries : failures[e] <= failures'[e]
  BY Zenon, FailuresGrow
<1> USE <1>t DEF Limits
<1>1. ASSUME NEW e \in Entries PROVE Covered(retry[e], e)'
  <2>1. Covered(retry[e], e) /\ retry[e] \in Nat
    BY Zenon DEF RetryInv, RetryTypes
  <2> QED
    BY Zenon, <2>1, CoveredStays DEF Covered
<1>2. ASSUME NEW v \in Workers, NEW e \in Entries PROVE Covered(seenRetry[v][e], e)'
  <2>1. Covered(seenRetry[v][e], e) /\ seenRetry[v][e] \in Nat /\ failures'[e] \in Nat
    BY DEF RetryInv, RetryTypes
  <2>2. seenRetry'[v][e] \in {seenRetry[v][e], 0}
    BY Zenon DEF Advance, RetryTypes
  <2>3. failures[e] <= failures'[e] /\ failures[e] \in Nat
    BY Zenon, <1>g DEF RetryTypes
  <2>4. \A n \in {seenRetry[v][e], 0} : n <= failures'[e] \/ failures'[e] >= MaxFailures
    BY <2>1, <2>3 DEF Covered
  <2> QED
    BY Zenon, <2>2, <2>4 DEF Covered
<1>3. ASSUME NEW v \in Workers, NEW e \in failed'[v], ~Expired(v)' PROVE Covered(retry[e] + 1, e)'
  <2>1. e \in Entries /\ retry[e] \in Nat /\ failures[e] \in Nat /\ ~Expired(v)
    BY Zenon, <1>3 DEF RetryTypes, Advance, Expired
  <2>2. CASE e \in failed[v]
    <3>1. Covered(retry[e] + 1, e) /\ retry[e] + 1 \in Nat
      BY <2>1, <2>2 DEF RetryInv
    <3> QED
      BY ZenonT(60), <2>1, <3>1, CoveredStays DEF Covered
  <2>3. CASE e \notin failed[v]
    <3>1. e = f /\ Fail(w, f)
      <4>1. CASE Succeed(w, f)
        BY Zenon, <1>3, <2>3, <4>1 DEF Succeed
      <4>2. CASE Fail(w, f)
        BY Zenon, <1>3, <2>3, <4>2 DEF Fail, RetryTypes
      <4> QED
        BY Zenon, <4>1, <4>2
    <3>2. failures'[e] = IF failures[e] < MaxFailures THEN failures[e] + 1 ELSE failures[e]
      BY Zenon, <3>1 DEF Fail, RetryTypes
    <3>3. Covered(retry[e], e)
      BY Zenon, <2>1 DEF RetryInv
    <3> QED
      BY <2>1, <3>2, <3>3 DEF Covered
  <2> QED
    BY Zenon, <2>2, <2>3
<1>4. Spent'
  <2> SUFFICES ASSUME NEW e \in (dlq \cup dropped)' PROVE failures'[e] >= MaxRetries
    BY Zenon DEF Spent
  <2>1. e \in Entries /\ failures[e] \in Nat /\ failures'[e] \in Nat
    BY Zenon DEF RetryTypes
  <2>2. e \in dlq \cup dropped \/ Covered(MaxRetries, e)
    BY Zenon
  <2>3. CASE e \in dlq \cup dropped
    BY <2>1, <2>3, <1>g DEF RetryInv, Spent
  <2>4. CASE Covered(MaxRetries, e)
    BY <2>1, <2>4, <1>g DEF Covered
  <2> QED
    BY Zenon, <2>2, <2>3, <2>4
<1> QED
  BY Zenon, <1>1, <1>2, <1>3, <1>4 DEF RetryInv

\* RetryInv is inductive when a poll cannot outlive a lease.
LEMMA RetryStep ==
  ASSUME PollTimeout <= LeaseTimeout
  PROVE  RetryInv /\ [Next]_vars => RetryInv'
<1> SUFFICES ASSUME RetryInv, [Next]_vars PROVE RetryInv'
  BY Zenon
<1>0. HeldInv /\ HeldInv' /\ TypeOK /\ TypeOK'
  <2>1. HeldInv /\ HeldInv'
    BY Zenon, HeldStep DEF RetryInv
  <2> QED
    BY Zenon, <2>1, TypeStep DEF HeldInv, PollInv
<1>t. RetryTypes /\ Limits
  BY Zenon, <1>0, RetryTypesOf, ConstantsFact DEF Constants, Limits
<1>p. PollTypes /\ PollShape
  BY Zenon, <1>0, TypesOf DEF HeldInv, PollInv
<1> USE <1>t DEF Limits, table, local, history
<1>1. ASSUME NEW w \in Workers, ReleaseClaims(w) PROVE RetryInv'
  <2>0. UNCHANGED <<elapsed, seenRetry, dlq, dropped, failures>> /\ failed' = [failed EXCEPT ![w] = {}]
    BY Zenon, <1>1 DEF ReleaseClaims
  <2>1. CASE UNCHANGED table
    <3>1. \A e \in Entries : retry'[e] <= retry[e]
      BY <2>1 DEF RetryTypes
    <3>2. \A v \in Workers : \A e \in failed'[v] : ~Expired(v)' => e \in failed[v] /\ ~Expired(v)
      BY Zenon, <2>0 DEF Expired, RetryTypes
    <3> QED
      BY Zenon, <2>0, <3>1, <3>2, <1>0, RetryQuiet
  <2>2. CASE ~Expired(w) /\ ClearClaims(failed[w])
    <3>1. \A e \in Entries : e \notin failed[w] => retry'[e] = retry[e]
      BY Zenon, <2>2 DEF ClearClaims, RetryTypes
    <3>2. \A e \in Entries : e \in failed[w] => retry'[e] \in {retry[e], retry[e] + 1}
      BY Zenon, <2>2 DEF ClearClaims, RetryTypes
    <3>3. ASSUME NEW e \in Entries PROVE Covered(retry[e], e)'
      <4>1. retry[e] \in Nat /\ failures[e] \in Nat /\ failures'[e] = failures[e]
        BY Zenon, <2>0 DEF RetryTypes
      <4>2. Covered(retry[e], e) /\ (e \in failed[w] => Covered(retry[e] + 1, e))
        BY Zenon, <2>2 DEF RetryInv
      <4> QED
        BY Zenon, <3>1, <3>2, <4>1, <4>2 DEF Covered
    <3>4. ASSUME NEW v \in Workers, NEW e \in failed'[v], ~Expired(v)' PROVE Covered(retry[e] + 1, e)'
      <4>1. v # w /\ e \in failed[v] /\ ~Expired(v) /\ e \in Entries
        BY Zenon, <2>0, <3>4 DEF Expired, RetryTypes
      <4>2. e \notin failed[w]
        BY Zenon, <4>1, <2>2, <1>0, OwnedIsSafe DEF Batch
      <4>3. retry'[e] = retry[e] /\ Covered(retry[e] + 1, e)
        BY Zenon, <4>1, <4>2, <3>1 DEF RetryInv
      <4> QED
        BY Zenon, <4>3, <2>0 DEF Covered
    <3>5. \A v \in Workers : \A e \in Entries : Covered(seenRetry[v][e], e)'
      BY Zenon, <2>0 DEF RetryInv, Covered
    <3>6. Spent'
      BY Zenon, <2>0 DEF RetryInv, Spent
    <3> QED
      BY Zenon, <1>0, <3>3, <3>4, <3>5, <3>6 DEF RetryInv
  <2> QED
    BY Zenon, <1>1, <2>1, <2>2 DEF ReleaseClaims
<1>2. ASSUME NEW w \in Workers, NEW f \in Entries, publishEntry(w, f) PROVE RetryInv'
  <2>1. Succeed(w, f) \/ Fail(w, f)
    BY Zenon, <1>2 DEF publishEntry
  <2>2. Advance(w, f) /\ UNCHANGED <<retry, dlq, dropped>>
    BY Zenon, <1>2 DEF publishEntry
  <2>3. \A e \in (dlq \cup dropped)' : e \in dlq \cup dropped \/ Covered(MaxRetries, e)
    BY Zenon, <2>2
  <2> QED
    BY Zenon, <2>1, <2>2, <2>3, <1>0, RetryOutcome
<1>3. ASSUME NEW w \in Workers, NEW f \in Entries, handleExhaustedEntry(w, f) PROVE RetryInv'
  <2>1. Succeed(w, f) \/ Fail(w, f)
    BY Zenon, <1>3 DEF handleExhaustedEntry
  <2>2. Advance(w, f) /\ UNCHANGED retry
    BY Zenon, <1>3 DEF handleExhaustedEntry
  <2>3. Covered(MaxRetries, f)
    <3>1. seenRetry[w][f] >= MaxRetries /\ seenRetry[w][f] \in Nat /\ failures[f] \in Nat
      BY Zenon, <1>3 DEF handleExhaustedEntry, exhausted, RetryTypes
    <3>2. Covered(seenRetry[w][f], f)
      BY Zenon DEF RetryInv
    <3> QED
      BY <3>1, <3>2 DEF Covered
  <2>4. \A e \in (dlq \cup dropped)' : e \in dlq \cup dropped \/ e = f
    BY <1>3 DEF handleExhaustedEntry
  <2> QED
    BY Zenon, <2>1, <2>2, <2>3, <2>4, <1>0, RetryOutcome
<1>4. ASSUME NEW w \in Workers, ClaimBatch(w) PROVE RetryInv'
  <2>1. PICK B \in SUBSET Entries : Take(w, B)
    BY Zenon, <1>4 DEF ClaimBatch, Batches, Eligible
  <2>2. UNCHANGED <<retry, elapsed, failed, dlq, dropped>>
    BY Zenon, <2>1 DEF Take, claimEntriesTx
  <2>3. \A v \in Workers : \A e \in Entries : seenRetry'[v][e] \in {seenRetry[v][e], retry[e], 0}
    BY Zenon, <2>1 DEF Take, RetryTypes
  <2>4. \A e \in Entries : retry'[e] <= retry[e]
    BY <2>2 DEF RetryTypes
  <2>5. \A v \in Workers : \A e \in failed'[v] : ~Expired(v)' => e \in failed[v] /\ ~Expired(v)
    BY Zenon, <2>2 DEF Expired
  <2> QED
    BY ZenonT(60), <2>2, <2>3, <2>4, <2>5, <1>0, RetryQuiet
<1>5. ASSUME NEW f \in Entries, Insert(f) PROVE RetryInv'
  <2>1. UNCHANGED <<elapsed, failed, dlq, dropped, seenRetry>>
    BY Zenon, <1>5 DEF Insert
  <2>2. \A e \in Entries : retry'[e] <= retry[e]
    <3>1. retry \in [Entries -> Nat]
      BY Zenon DEF RetryTypes
    <3>2. retry' = [retry EXCEPT ![f] = 0]
      BY Zenon, <1>5 DEF Insert
    <3> QED
      BY <3>1, <3>2
  <2>3. \A v \in Workers : \A e \in failed'[v] : ~Expired(v)' => e \in failed[v] /\ ~Expired(v)
    BY Zenon, <2>1 DEF Expired
  <2> QED
    BY Zenon, <2>1, <2>2, <2>3, <1>0, RetryQuiet
<1>6. ASSUME NEW w \in Workers, Crash(w) PROVE RetryInv'
  <2>1. UNCHANGED <<retry, dlq, dropped>>
    BY Zenon, <1>6 DEF Crash
  <2>2. \A e \in Entries : retry'[e] <= retry[e]
    BY <2>1 DEF RetryTypes
  <2>3. \A v \in Workers : \A e \in Entries : seenRetry'[v][e] \in {seenRetry[v][e], retry[e], 0}
    BY Zenon, <1>6 DEF Crash, RetryTypes
  <2>4. \A v \in Workers : \A e \in failed'[v] : ~Expired(v)' => e \in failed[v] /\ ~Expired(v)
    BY Zenon, <1>p, <1>6 DEF Crash, Expired, PollTypes
  <2> QED
    BY Zenon, <2>1, <2>2, <2>3, <2>4, <1>0, RetryQuiet
<1>7. ASSUME NEW w \in Workers,
             doPoll(w) \/ ClaimBatchFails(w) \/ MarkPublished(w) \/ EndPoll(w) \/ Cancel(w)
      PROVE  RetryInv'
  <2>1. UNCHANGED <<retry, seenRetry, failed, dlq, dropped>>
    <3>1. CASE doPoll(w) \/ Cancel(w)
      BY Zenon, <3>1 DEF doPoll, Cancel
    <3>2. CASE ClaimBatchFails(w)
      BY Zenon, <3>2 DEF ClaimBatchFails, claimEntriesTx
    <3>3. CASE MarkPublished(w)
      BY Zenon, <3>3 DEF MarkPublished, SetPublished
    <3>4. CASE EndPoll(w)
      BY Zenon, <3>4 DEF EndPoll, Cleanup
    <3> QED
      BY Zenon, <1>7, <3>1, <3>2, <3>3, <3>4
  <2>2. \A e \in Entries : retry'[e] <= retry[e]
    BY <2>1 DEF RetryTypes
  <2>3. \/ UNCHANGED elapsed
        \/ elapsed' = [elapsed EXCEPT ![w] = PollTimeout]
        \/ pc[w] \in {"idle", "end"} /\ elapsed' = [elapsed EXCEPT ![w] = 0]
    <3>1. CASE doPoll(w) \/ Cancel(w)
      BY Zenon, <3>1 DEF doPoll, Cancel
    <3>2. CASE ClaimBatchFails(w)
      BY Zenon, <3>2 DEF ClaimBatchFails
    <3>3. CASE MarkPublished(w)
      BY Zenon, <3>3 DEF MarkPublished
    <3>4. CASE EndPoll(w)
      BY Zenon, <3>4 DEF EndPoll
    <3> QED
      BY Zenon, <1>7, <3>1, <3>2, <3>3, <3>4
  <2>4. pc[w] \in {"idle", "end"} => failed[w] = {}
    BY Zenon, <1>p DEF PollShape, Batch
  <2>5. \A v \in Workers : \A e \in failed'[v] : ~Expired(v)' => e \in failed[v] /\ ~Expired(v)
    BY Zenon, <1>p, <2>1, <2>3, <2>4 DEF Expired, PollTypes
  <2> QED
    BY Zenon, <2>1, <2>2, <2>5, <1>0, RetryQuiet
<1>8. CASE Tick \/ UNCHANGED vars
  <2>1. UNCHANGED <<retry, seenRetry, failed, dlq, dropped>>
    BY Zenon, <1>8 DEF Tick, vars
  <2>2. \A e \in Entries : retry'[e] <= retry[e]
    BY <2>1 DEF RetryTypes
  <2>3. \A v \in Workers : Expired(v) => Expired(v)'
    BY Zenon, <1>8 DEF Tick, vars, Expired
  <2> QED
    BY Zenon, <2>1, <2>2, <2>3, <1>0, RetryQuiet
<1> QED
  BY Zenon, <1>1, <1>2, <1>3, <1>4, <1>5, <1>6, <1>7, <1>8 DEF Next, poll

\* retry_count never exceeds the failed attempts, and an event reaches the dead
\* letter table, or is given up, only after MaxRetries of them, whatever crashes
\* and timeouts come between and however many workers retry it, provided
\* PollTimeout <= LeaseTimeout.
THEOREM RetriesAreFailuresAlways ==
  ASSUME PollTimeout <= LeaseTimeout
  PROVE  Spec => []RetriesAreFailures
<1>1. Init => RetryInv
  <2> SUFFICES ASSUME Init PROVE RetryInv
    BY Zenon
  <2>1. HeldInv
    BY Zenon, HeldInit
  <2> QED
    BY <2>1 DEF Init, RetryInv, Covered, Spent
<1>2. RetryInv => RetriesAreFailures
  <2> SUFFICES ASSUME RetryInv PROVE RetriesAreFailures
    BY Zenon
  <2>1. RetryTypes /\ MaxFailures \in Nat
    BY Zenon, RetryTypesOf, ConstantsFact DEF RetryInv, HeldInv, PollInv, Constants
  <2>2. ASSUME NEW e \in Entries, failures[e] < MaxFailures PROVE retry[e] <= failures[e]
    <3>1. Covered(retry[e], e) /\ failures[e] \in Nat
      BY Zenon, <2>1 DEF RetryInv, RetryTypes
    <3> QED
      BY <2>1, <2>2, <3>1 DEF Covered
  <2> QED
    BY Zenon, <2>2 DEF RetryInv, Spent, RetriesAreFailures
<1> QED
  BY <1>1, <1>2, RetryStep, PTL DEF Spec

=============================================================================
