---------------------------- MODULE OutboxRelay ----------------------------
(***************************************************************************)
(* The transactional-outbox relay: the table outbox_events as the          *)
(* statements of outbox.Store change it, and any number of outbox.Worker   *)
(* instances that claim batches, publish them and settle them.             *)
(*                                                                         *)
(* One SQL transaction of the store is one atomic step.  Everything        *)
(* between two statements is interleaved: a worker may be slow, may have   *)
(* its poll context expire or be cancelled, or may crash after any step.   *)
(*                                                                         *)
(* Time is kept as ages that saturate, so no clock has to be bounded:      *)
(* claimAge[e] is NOW() - claimed_at and elapsed[w] is the age of worker   *)
(* w's poll context.                                                       *)
(***************************************************************************)
EXTENDS Integers, FiniteSets

CONSTANTS
  Entries,       \* outbox ids; as numbers, in the order of created_at
  Workers,       \* relay instances sharing the table
  Tokens,        \* lease tokens (128 random bits in the code)
  NULL,          \* SQL NULL
  Blank,         \* the empty string ""
  DefaultToken,  \* lease_token of a row Insert wrote: the column's default
  BatchSize,     \* rows claimed per poll
  MaxRetries,    \* retry_count from which an entry goes to the DLQ
  Poison,        \* events the broker refuses every time
  Slow,          \* events whose publish blocks until its context is done
  LeaseTimeout,  \* age from which a claim is stale
  PollTimeout,   \* life of the context of one poll
  CleanupEvery,  \* polls between two Cleanups
  Setups,        \* how the service may be set up (see conf)
  MaxFailures,   \* bound: failed attempts of one entry the history counts
  MaxFaults      \* bound: crashes, timeouts and errors in one behaviour

ASSUME EntriesAssumption ==
  /\ Entries \subseteq Nat
  /\ Poison \subseteq Entries
  /\ Slow \subseteq Entries
ASSUME TokensAssumption ==
  /\ NULL \notin Tokens
  /\ Blank \notin Tokens
  /\ Blank # NULL
  /\ DefaultToken \in {NULL, Blank}
ASSUME SetupsAssumption == Setups \subseteq [hasDLQ : BOOLEAN, scanNull : BOOLEAN]
ASSUME NumbersAssumption ==
  /\ BatchSize \in Nat \ {0}
  /\ MaxRetries \in Nat \ {0}
  /\ MaxFailures \in Nat /\ MaxRetries <= MaxFailures
  /\ LeaseTimeout \in Nat \ {0}
  /\ PollTimeout \in Nat \ {0}
  /\ CleanupEvery \in Nat \ {0}
  /\ MaxFaults \in Nat

VARIABLES
  conf,         \* hasDLQ: the workers were given a DLQ store (WithDLQ);
                \* scanNull: ClaimBatch reads a NULL token (not this code)
  status,       \* what the table holds for an id
  claimAge,     \* NOW() - claimed_at, Unclaimed when claimed_at is NULL
  token,        \* lease_token
  retry,        \* retry_count
  pc,           \* where a worker is in doPoll
  elapsed,      \* age of the worker's poll context
  lease,        \* the token of the worker's batch
  todo,         \* entries of the batch not yet looked at
  seenRetry,    \* RetryCount of the batch's entries, as ClaimBatch read it
  publishedIDs, \* entries the worker will mark published
  failed,       \* entries the worker will release
  cycle,        \* poll counter, modulo CleanupEvery
  delivered,    \* history: entries the broker has received
  dlq,          \* history: entries the dead letter table has received
  dropped,      \* history: exhausted entries given up without a DLQ
  failures,     \* history: failed attempts at an entry, up to MaxFailures
  faults        \* faults the environment may still inject

table   == <<status, claimAge, token, retry>>
local   == <<pc, elapsed, lease, todo, seenRetry, publishedIDs, failed, cycle>>
history == <<delivered, dlq, dropped, failures>>
vars    == <<conf, table, local, history, faults>>

Unclaimed == -1

Statuses == {"absent", "pending", "published", "deleted"}
Stages   == {"idle", "claim", "publish", "mark", "release", "end"}

\* A row of the table exists for e.
Present(e) == status[e] \in {"pending", "published"}

\* The worker's poll context is done: every statement it sends now fails.
Expired(w) == elapsed[w] = PollTimeout

\* Something outside the code goes wrong.
Fault == faults > 0 /\ faults' = faults - 1

\* A call fails because its context is done, or for a reason of its own.
CallFails(w) == (Expired(w) /\ UNCHANGED faults) \/ Fault

-----------------------------------------------------------------------------

Init ==
  /\ conf \in Setups
  /\ status = [e \in Entries |-> "absent"]
  /\ claimAge = [e \in Entries |-> Unclaimed]
  /\ token = [e \in Entries |-> DefaultToken]
  /\ retry = [e \in Entries |-> 0]
  /\ pc = [w \in Workers |-> "idle"]
  /\ elapsed = [w \in Workers |-> 0]
  /\ lease = [w \in Workers |-> NULL]
  /\ todo = [w \in Workers |-> {}]
  /\ seenRetry = [w \in Workers |-> [e \in Entries |-> 0]]
  /\ publishedIDs = [w \in Workers |-> {}]
  /\ failed = [w \in Workers |-> {}]
  /\ cycle = [w \in Workers |-> 0]
  /\ delivered = {}
  /\ dlq = {}
  /\ dropped = {}
  /\ failures = [e \in Entries |-> 0]
  /\ faults = MaxFaults

\* The commit of a transaction that ran Insert (or InsertEntry) for e.
Insert(e) ==
  /\ status[e] = "absent"
  /\ status' = [status EXCEPT ![e] = "pending"]
  /\ claimAge' = [claimAge EXCEPT ![e] = Unclaimed]
  /\ token' = [token EXCEPT ![e] = DefaultToken]
  /\ retry' = [retry EXCEPT ![e] = 0]
  /\ UNCHANGED <<local, history, faults>>

-----------------------------------------------------------------------------
\* ClaimBatch

\* Mutant of Eligible: claims are ignored.
Eligible_AnyClaim == {e \in Entries : status[e] = "pending"}

Eligible ==
  {e \in Entries : /\ status[e] = "pending"
                   /\ claimAge[e] = Unclaimed \/ claimAge[e] > LeaseTimeout}

\* ORDER BY created_at LIMIT batchSize, of the rows not locked
Batches(rows) ==
  {B \in SUBSET rows :
     /\ Cardinality(B) = BatchSize \/ (B = rows /\ Cardinality(B) < BatchSize)
     /\ \A b \in B, f \in rows \ B : b < f}

\* FOR UPDATE SKIP LOCKED: rows that a concurrent claim has locked are passed
\* over.  If that claim commits this is as if it had come first; otherwise
\* the rows are skipped although nobody claims them.
Skipped(w, locked) ==
  \/ locked = {} /\ UNCHANGED faults
  \/ locked # {} /\ (\E v \in Workers \ {w} : pc[v] = "claim") /\ Fault

FreshTokens == Tokens \ ({token[e] : e \in Entries} \cup {lease[w] : w \in Workers})

\* Tokens are only ever compared, so any one that is nowhere in use will do.
generateLeaseToken == CHOOSE t \in FreshTokens : TRUE

\* rows.Scan reads lease_token into a string, which a NULL does not fit.
Scannable(B) == conf.scanNull \/ \A e \in B : token[e] # NULL

\* Mutant of claimEntriesTx: claimed_at is not set.
claimEntriesTx_NoStamp(w, B, t) ==
  /\ token' = [e \in Entries |-> IF e \in B THEN t ELSE token[e]]
  /\ UNCHANGED <<status, claimAge, retry>>

\* The rows of B are stamped with a fresh token in the same transaction.
\* NOW() is the transaction's start, a moment since the poll began.
claimEntriesTx(w, B, t) ==
  /\ \E age \in 0..elapsed[w] :
       claimAge' = [e \in Entries |-> IF e \in B THEN age ELSE claimAge[e]]
  /\ token' = [e \in Entries |-> IF e \in B THEN t ELSE token[e]]
  /\ UNCHANGED <<status, retry>>

\* Start picks the ticker or a notification and calls doPoll.
doPoll(w) ==
  /\ pc[w] = "idle"
  /\ pc' = [pc EXCEPT ![w] = "claim"]
  /\ elapsed' = [elapsed EXCEPT ![w] = 0]
  /\ UNCHANGED <<table, lease, todo, seenRetry, publishedIDs, failed, cycle, history, faults>>

\* The worker gets the batch B; an empty one ends the poll.
Take(w, B) ==
  /\ Scannable(B)
  /\ claimEntriesTx(w, B, generateLeaseToken)
  /\ lease' = [lease EXCEPT ![w] = IF B = {} THEN NULL ELSE generateLeaseToken]
  /\ todo' = [todo EXCEPT ![w] = B]
  /\ seenRetry' = [seenRetry EXCEPT
       ![w] = [e \in Entries |-> IF e \in B THEN retry[e] ELSE 0]]
  /\ pc' = [pc EXCEPT ![w] = IF B = {} THEN "end" ELSE "publish"]
  /\ UNCHANGED <<elapsed, publishedIDs, failed, cycle, history>>

\* poll calls ClaimBatch and gets a batch.
ClaimBatch(w) ==
  /\ pc[w] = "claim"
  /\ ~Expired(w)
  /\ FreshTokens # {}
  /\ \E locked \in SUBSET Eligible :
       Skipped(w, locked) /\ \E B \in Batches(Eligible \ locked) : Take(w, B)

\* No claim comes about: the batch holds a row that does not scan, which is
\* certain to fail, or the call fails.
Unreadable(w) ==
  IF \E B \in Batches(Eligible) : ~Scannable(B) THEN UNCHANGED faults ELSE CallFails(w)

\* ClaimBatch returns an error: a row does not scan (rolled back), the
\* database fails (rolled back), or the answer to COMMIT is lost (the claim
\* is in the table but no worker knows its token).
ClaimBatchFails(w) ==
  /\ pc[w] = "claim"
  /\ \/ /\ Unreadable(w)
        /\ UNCHANGED table
     \/ /\ ~Expired(w)
        /\ Fault
        /\ FreshTokens # {}
        /\ \E B \in Batches(Eligible) \ {{}} :
             Scannable(B) /\ claimEntriesTx(w, B, generateLeaseToken)
  /\ pc' = [pc EXCEPT ![w] = "end"]
  /\ UNCHANGED <<elapsed, lease, todo, seenRetry, publishedIDs, failed, cycle, history>>

-----------------------------------------------------------------------------
\* poll, the loop over the entries of the batch

\* Entry e is the batch's next.
Turn(w, e) ==
  /\ pc[w] = "publish"
  /\ e \in todo[w]
  /\ \A f \in todo[w] : e <= f

\* The loop goes on, or leaves for MarkPublished after the last entry.
Advance(w, e) ==
  /\ todo' = [todo EXCEPT ![w] = @ \ {e}]
  /\ seenRetry' = [seenRetry EXCEPT ![w][e] = 0]
  /\ pc' = [pc EXCEPT ![w] = IF todo[w] = {e} THEN "mark" ELSE "publish"]
  /\ UNCHANGED <<elapsed, lease, cycle>>

exhausted(w, e) == seenRetry[w][e] >= MaxRetries

Succeed(w, e) ==
  /\ publishedIDs' = [publishedIDs EXCEPT ![w] = @ \cup {e}]
  /\ UNCHANGED <<failed, failures>>

\* Mutant of Fail: the failed entry is also put on the list to mark.
Fail_FallsThrough(w, e) ==
  /\ failed' = [failed EXCEPT ![w] = @ \cup {e}]
  /\ publishedIDs' = [publishedIDs EXCEPT ![w] = @ \cup {e}]
  /\ failures' = [failures EXCEPT ![e] = IF @ < MaxFailures THEN @ + 1 ELSE @]

Fail(w, e) ==
  /\ failed' = [failed EXCEPT ![w] = @ \cup {e}]
  /\ failures' = [failures EXCEPT ![e] = IF @ < MaxFailures THEN @ + 1 ELSE @]
  /\ UNCHANGED publishedIDs

\* publishEntry: the broker acknowledges, or the call fails with the message
\* delivered (the acknowledgement is lost) or not (open breaker, broker down).
publishEntry(w, e) ==
  /\ Turn(w, e)
  /\ ~exhausted(w, e)
  /\ e \in Slow => Expired(w)
  /\ \/ /\ e \notin Poison \cup Slow
        /\ delivered' = delivered \cup {e}
        /\ Succeed(w, e)
        /\ UNCHANGED faults
     \/ /\ delivered' \in {delivered, delivered \cup {e}}
        /\ Fail(w, e)
        /\ CallFails(w) \/ (e \in Poison /\ UNCHANGED faults)
  /\ Advance(w, e)
  /\ UNCHANGED <<table, dlq, dropped>>

\* handleExhaustedEntry: without a DLQ the entry is only logged; the DLQ
\* insert is an upsert that may also fail after having taken effect.
handleExhaustedEntry(w, e) ==
  /\ Turn(w, e)
  /\ exhausted(w, e)
  /\ \/ /\ ~conf.hasDLQ
        /\ dropped' = dropped \cup {e}
        /\ Succeed(w, e)
        /\ UNCHANGED <<dlq, faults>>
     \/ /\ conf.hasDLQ
        /\ ~Expired(w)
        /\ dlq' = dlq \cup {e}
        /\ Succeed(w, e)
        /\ UNCHANGED <<dropped, faults>>
     \/ /\ conf.hasDLQ
        /\ dlq' \in IF Expired(w) THEN {dlq} ELSE {dlq, dlq \cup {e}}
        /\ Fail(w, e)
        /\ CallFails(w)
        /\ UNCHANGED dropped
  /\ Advance(w, e)
  /\ UNCHANGED <<table, delivered>>

-----------------------------------------------------------------------------
\* poll, after the loop

\* UPDATE ... SET published_at = NOW() WHERE lease_token = $1 AND id IN (...)
SetPublished(ids, t) ==
  /\ status' = [e \in Entries |->
       IF e \in ids /\ Present(e) /\ token[e] = t THEN "published" ELSE status[e]]
  /\ UNCHANGED <<claimAge, token, retry>>

\* An error of MarkPublished is logged and the poll goes on; a lost answer to
\* a statement that took effect looks like an error.
MarkPublished(w) ==
  /\ pc[w] = "mark"
  /\ \/ /\ publishedIDs[w] = {}
        /\ UNCHANGED <<table, faults>>
     \/ /\ publishedIDs[w] # {}
        /\ ~Expired(w)
        /\ SetPublished(publishedIDs[w], lease[w])
        /\ UNCHANGED faults \/ Fault
     \/ /\ publishedIDs[w] # {}
        /\ CallFails(w)
        /\ UNCHANGED table
  /\ publishedIDs' = [publishedIDs EXCEPT ![w] = {}]
  /\ pc' = [pc EXCEPT ![w] = "release"]
  /\ UNCHANGED <<elapsed, lease, todo, seenRetry, failed, cycle, history>>

\* UPDATE ... SET claimed_at = NULL, lease_token = NULL,
\*   retry_count = retry_count + 1 WHERE id IN (...)
ClearClaims(ids) ==
  LET hit == {e \in ids : Present(e)}
  IN /\ claimAge' = [e \in Entries |-> IF e \in hit THEN Unclaimed ELSE claimAge[e]]
     /\ token' = [e \in Entries |-> IF e \in hit THEN NULL ELSE token[e]]
     /\ retry' = [e \in Entries |-> IF e \in hit THEN retry[e] + 1 ELSE retry[e]]
     /\ UNCHANGED status

\* Mutant of ReleaseClaims: the list of failed entries outlives the poll.
ReleaseClaims_KeepsList(w) ==
  /\ pc[w] = "release"
  /\ \/ /\ failed[w] = {}
        /\ UNCHANGED <<table, faults>>
     \/ /\ failed[w] # {}
        /\ ~Expired(w)
        /\ ClearClaims(failed[w])
        /\ UNCHANGED faults \/ Fault
     \/ /\ failed[w] # {}
        /\ CallFails(w)
        /\ UNCHANGED table
  /\ lease' = [lease EXCEPT ![w] = NULL]
  /\ pc' = [pc EXCEPT ![w] = "end"]
  /\ UNCHANGED <<elapsed, todo, seenRetry, publishedIDs, failed, cycle, history>>

\* An error of ReleaseClaims is logged; poll returns nil either way.
ReleaseClaims(w) ==
  /\ pc[w] = "release"
  /\ \/ /\ failed[w] = {}
        /\ UNCHANGED <<table, faults>>
     \/ /\ failed[w] # {}
        /\ ~Expired(w)
        /\ ClearClaims(failed[w])
        /\ UNCHANGED faults \/ Fault
     \/ /\ failed[w] # {}
        /\ CallFails(w)
        /\ UNCHANGED table
  /\ failed' = [failed EXCEPT ![w] = {}]
  /\ lease' = [lease EXCEPT ![w] = NULL]
  /\ pc' = [pc EXCEPT ![w] = "end"]
  /\ UNCHANGED <<elapsed, todo, seenRetry, publishedIDs, cycle, history>>

\* Mutant of Cleanup: published_at IS NOT NULL is forgotten.
Cleanup_AnyRow ==
  \E old \in SUBSET {e \in Entries : Present(e)} :
    /\ status' = [e \in Entries |-> IF e \in old THEN "deleted" ELSE status[e]]
    /\ UNCHANGED <<claimAge, token, retry>>

\* DELETE of published rows; which of them are older than the retention
\* period is left open.
Cleanup ==
  \E old \in SUBSET {e \in Entries : status[e] = "published"} :
    /\ status' = [e \in Entries |-> IF e \in old THEN "deleted" ELSE status[e]]
    /\ UNCHANGED <<claimAge, token, retry>>

\* The end of doPoll: every CleanupEvery-th poll tries a Cleanup.
EndPoll(w) ==
  /\ pc[w] = "end"
  /\ cycle' = [cycle EXCEPT ![w] = (@ + 1) % CleanupEvery]
  /\ IF cycle'[w] = 0
     THEN \/ Cleanup /\ UNCHANGED faults
          \/ UNCHANGED table /\ Fault
     ELSE UNCHANGED <<table, faults>>
  /\ pc' = [pc EXCEPT ![w] = "idle"]
  /\ elapsed' = [elapsed EXCEPT ![w] = 0]
  /\ UNCHANGED <<lease, todo, seenRetry, publishedIDs, failed, history>>

-----------------------------------------------------------------------------
\* The environment

Busy(w) == pc[w] \in {"claim", "publish", "mark", "release"}

\* The process dies and its replacement starts with nothing in memory.
Crash(w) ==
  /\ Busy(w)
  /\ Fault
  /\ pc' = [pc EXCEPT ![w] = "idle"]
  /\ elapsed' = [elapsed EXCEPT ![w] = 0]
  /\ lease' = [lease EXCEPT ![w] = NULL]
  /\ todo' = [todo EXCEPT ![w] = {}]
  /\ seenRetry' = [seenRetry EXCEPT ![w] = [e \in Entries |-> 0]]
  /\ publishedIDs' = [publishedIDs EXCEPT ![w] = {}]
  /\ failed' = [failed EXCEPT ![w] = {}]
  /\ cycle' = [cycle EXCEPT ![w] = 0]
  /\ UNCHANGED <<table, history>>

\* Start's context is cancelled (shutdown) in the middle of a poll: the poll
\* goes on with a dead context.
Cancel(w) ==
  /\ Busy(w)
  /\ ~Expired(w)
  /\ Fault
  /\ elapsed' = [elapsed EXCEPT ![w] = PollTimeout]
  /\ UNCHANGED <<table, pc, lease, todo, seenRetry, publishedIDs, failed, cycle, history>>

\* The worker is inside a publish call that does not return by itself.
Stuck(w) == \E e \in Slow : Turn(w, e) /\ ~exhausted(w, e)

\* Time passes for every claim and every poll context.  A tick that lets a
\* poll run into its timeout counts as a fault, unless the poll is stuck.
Tick ==
  /\ claimAge' = [e \in Entries |->
       IF claimAge[e] \in 0..LeaseTimeout THEN claimAge[e] + 1 ELSE claimAge[e]]
  /\ elapsed' = [w \in Workers |->
       IF Busy(w) /\ ~Expired(w) THEN elapsed[w] + 1 ELSE elapsed[w]]
  /\ IF \E w \in Workers : Busy(w) /\ ~Stuck(w) /\ elapsed[w] + 1 = PollTimeout
     THEN Fault
     ELSE UNCHANGED faults
  /\ UNCHANGED <<status, token, retry, pc, lease, todo, seenRetry, publishedIDs,
                 failed, cycle, history>>

-----------------------------------------------------------------------------

poll(w) ==
  \/ doPoll(w)
  \/ ClaimBatch(w)
  \/ ClaimBatchFails(w)
  \/ \E e \in Entries : publishEntry(w, e) \/ handleExhaustedEntry(w, e)
  \/ MarkPublished(w)
  \/ ReleaseClaims(w)
  \/ EndPoll(w)

Next ==
  /\ \/ \E e \in Entries : Insert(e)
     \/ \E w \in Workers : poll(w) \/ Crash(w) \/ Cancel(w)
     \/ Tick
  /\ UNCHANGED conf

Spec == Init /\ [][Next]_vars

\* Start's select always finds the ticker (or a notification) ready in the
\* end and doPoll runs to its end.  Time passes: strongly fair, because once
\* the faults are used up Tick waits for a poll that is about to time out.
Fairness ==
  /\ SF_vars(Tick /\ UNCHANGED conf)
  /\ \A w \in Workers : WF_vars(poll(w) /\ UNCHANGED conf)

FairSpec == Spec /\ Fairness

-----------------------------------------------------------------------------
\* Properties

\* Every variable stays in its type.
TypeOK ==
  /\ conf \in Setups
  /\ status \in [Entries -> Statuses]
  /\ claimAge \in [Entries -> Int]
  /\ token \in [Entries -> Tokens \cup {NULL, Blank}]
  /\ retry \in [Entries -> Nat]
  /\ pc \in [Workers -> Stages]
  /\ elapsed \in [Workers -> 0..PollTimeout]
  /\ lease \in [Workers -> Tokens \cup {NULL}]
  /\ todo \in [Workers -> SUBSET Entries]
  /\ seenRetry \in [Workers -> [Entries -> Nat]]
  /\ publishedIDs \in [Workers -> SUBSET Entries]
  /\ failed \in [Workers -> SUBSET Entries]
  /\ cycle \in [Workers -> 0..(CleanupEvery - 1)]
  /\ delivered \in SUBSET Entries
  /\ dlq \in SUBSET Entries
  /\ dropped \in SUBSET Entries
  /\ failures \in [Entries -> Nat]
  /\ faults \in Nat

\* The event left the table's responsibility: the broker or the dead letter
\* table has it or, when no DLQ store was configured, it was given up.
HandedOver(e) == e \in delivered \cup dlq \/ (~conf.hasDLQ /\ e \in dropped)

Settled(e) == status[e] \in {"published", "deleted"}

\* worker.go, "published_at is set AFTER broker acknowledgement": whatever
\* crashes, expires or is retried, by whichever workers, a row is marked
\* published, and cleaned up, only after its event was handed over.
NoEventLost == \A e \in Entries : Settled(e) => HandedOver(e)

\* The outbox as its writers see it.
Promise == INSTANCE AtLeastOnce WITH
  Events   <- Entries,
  accepted <- {e \in Entries : status[e] # "absent"},
  handed   <- {e \in Entries : HandedOver(e)},
  settled  <- {e \in Entries : Settled(e)}

\* The relay implements at-least-once delivery: through every interleaving of
\* claims, publishes, marks, releases, clean-ups, crashes and timeouts an
\* event is handed over after it was accepted and settled after it was handed
\* over, and none of the three is ever undone.
RefinesAtLeastOnce == Promise!Spec

\* The entries worker w has claimed and not yet settled or released.
Batch(w) == todo[w] \cup publishedIDs[w] \cup failed[w]

\* As long as a poll cannot outlive a lease, a worker whose poll context is
\* alive still owns every entry of its batch: MarkPublished, which compares
\* tokens, and ReleaseClaims, which does not, only touch rows it owns.
LeaseHeld ==
  PollTimeout <= LeaseTimeout =>
    \A w \in Workers : \A e \in Batch(w) :
      ~Expired(w) => token[e] = lease[w] /\ status[e] = "pending"

\* Two workers whose poll contexts are alive never work on the same entry
\* (again provided a poll cannot outlive a lease).
OneLiveOwner ==
  PollTimeout <= LeaseTimeout =>
    \A v, w \in Workers :
      v # w /\ ~Expired(v) /\ ~Expired(w) => Batch(v) \cap Batch(w) = {}

\* retry_count never runs ahead of the attempts that failed: no crash, lost
\* answer, repeated statement or second worker's release raises it twice for
\* one failure, so that an entry reaches handleExhaustedEntry, and is dead
\* lettered or given up, only after MaxRetries real failures.
RetriesAreFailures ==
  /\ \A e \in Entries : failures[e] < MaxFailures => retry[e] <= failures[e]
  /\ \A e \in dlq \cup dropped : failures[e] >= MaxRetries

\* At-least-once delivery: an inserted event is eventually delivered or dead
\* lettered and its row marked, even if older events never get through.
EventuallySettled ==
  \A e \in Entries : status[e] = "pending" ~> Settled(e)

\* store.go, ReleaseClaim: "returns a previously claimed entry to the
\* unclaimed pool ... so the entry can be retried".
ReleasedIsRetried ==
  \A e \in Entries :
    status[e] = "pending" /\ claimAge[e] = Unclaimed /\ retry[e] > 0
      ~> claimAge[e] # Unclaimed \/ Settled(e)

\* docs/glossary.md, Dead Letter Queue: "Prevents one bad event from blocking
\* the entire pipeline": events the broker would take get settled.
GoodEventsSettle ==
  \A e \in Entries \ (Poison \cup Slow) : status[e] = "pending" ~> Settled(e)

=============================================================================
