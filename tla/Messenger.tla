----------------------------- MODULE Messenger -----------------------------
(***************************************************************************)
(* The messenger: commands dispatched on a MessageBus, sent to a transport *)
(* (the in-memory channel or the outbox_events table) and consumed by the  *)
(* loops of a Worker, which dispatch them again on the worker's bus.       *)
(*                                                                         *)
(* One SQL statement, channel operation or handler run is one step, and so *)
(* is the memory transport's look at its closed flag before a send.  The   *)
(* chain of the buses is Recovery around Retry; the other middlewares      *)
(* (tracing, metrics, logging) change no state.                            *)
(***************************************************************************)
EXTENDS Naturals, Sequences, FiniteSets, Functions

CONSTANTS
  Cmds,        \* commands, numbered in the order they are created
  Loops,       \* consume loops of the worker (Options.Concurrency)
  Cap,         \* buffer size of the memory transport
  BatchSize,   \* rows the outbox transport claims per Get
  MaxRetries,  \* retry_count from which an entry is no longer polled
  Retries,     \* RetryConfig.MaxRetries of the middleware
  Configs      \* see conf

ASSUME MessengerAssumption ==
  /\ Cmds \subseteq Nat /\ IsFiniteSet(Cmds) /\ IsFiniteSet(Loops)
  /\ Cap \in Nat \ {0} /\ BatchSize \in Nat \ {0} /\ MaxRetries \in Nat \ {0}
  /\ Retries \in Nat
  /\ \A k \in Configs :
       /\ k.transport \in {"memory", "outbox"}
       /\ k.bus \in {"plain", "same"}
       /\ k.forced \subseteq Cmds /\ k.local \subseteq Cmds
       /\ k.garbled \subseteq Cmds /\ k.spare \subseteq Cmds
       /\ k.faults \in Nat

VARIABLES
  conf,      \* never changes: the transport; the worker's bus ("same": the one
             \* that routes the commands, "plain": one without routes); the
             \* commands with a ForceTransportStamp, those dispatched
             \* synchronously and those whose payload does not decode; and two
             \* bounds: the ids for rows a worker inserts, and the number of
             \* faults (errors, crashes, slow handlers, close and cancel calls)
  call,      \* Dispatch of the application, per command
  ch,        \* memory transport: the channel
  closed,    \* memory transport: closed
  row,       \* outbox_events, per command
  claim,     \* claimed_at: "none", "held", or "expired" (before the timeout)
  retry,     \* retry_count
  busClosed, \* MessageBus.closed
  cancelled, \* the context of Worker.Run is done
  run,       \* Worker.Run; "crashed" once the process has panicked
  loop,      \* stage of a consume loop
  batch,     \* envelopes it got, the one being processed first
  tries,     \* attempts of the Retry middleware after the first
  attempts,  \* history: handler runs, one that panicked counted as the whole
             \* round of Retries + 1 that Retry would have made
  handled,   \* history: handler runs that succeeded
  dropped,   \* history: commands Reject could not put back
  slow,      \* history: commands whose claim expired in a loop's hands
  faults     \* faults the environment may still inject

appVars  == <<call, busClosed>>
memVars  == <<ch, closed, dropped>>
rowVars  == <<row, claim, retry, slow>>
loopVars == <<loop, batch, tries>>
runVars  == <<cancelled, run>>
histVars == <<attempts, handled>>
vars == <<conf, appVars, memVars, rowVars, loopVars, runVars, histVars, faults>>

Memory == conf.transport = "memory"
Outbox == conf.transport = "outbox"

Fault == faults > 0 /\ faults' = faults - 1

Attempted(c, n) == attempts' = [attempts EXCEPT ![c] = @ + n]
Succeeded(c)    == handled' = [handled EXCEPT ![c] = @ + 1]

Current(l) == Head(batch[l])
Goto(l, stage) == loop' = [loop EXCEPT ![l] = stage]

Init ==
  /\ conf \in Configs
  /\ call = [c \in Cmds |-> "new"]
  /\ ch = <<>>
  /\ closed = FALSE
  /\ row = [c \in Cmds |-> "none"]
  /\ claim = [c \in Cmds |-> "none"]
  /\ retry = [c \in Cmds |-> 0]
  /\ busClosed = FALSE
  /\ cancelled = FALSE
  /\ run = "running"
  /\ loop = [l \in Loops |-> "get"]
  /\ batch = [l \in Loops |-> <<>>]
  /\ tries = [l \in Loops |-> 0]
  /\ attempts = [c \in Cmds |-> 0]
  /\ handled = [c \in Cmds |-> 0]
  /\ dropped = {}
  /\ slow = {}
  /\ faults = conf.faults

-----------------------------------------------------------------------------
\* The application's side: Dispatch and the transports' Send

\* makeDispatchTerminal on the bus that has the routes.
Route(c) == IF c \in conf.local THEN "sync" ELSE "transport"

Returned(c, result) == call' = [call EXCEPT ![c] = result]

Dispatch(c) ==
  /\ call[c] = "new" /\ c \notin conf.spare
  /\ run # "crashed"
  /\ \/ /\ busClosed \/ (Route(c) = "transport" /\ Memory /\ closed)
        /\ Returned(c, "failed")
        /\ UNCHANGED <<histVars, faults>>
     \/ /\ ~busClosed /\ Route(c) = "sync"
        /\ Attempted(c, 1)
        /\ \/ Succeeded(c) /\ Returned(c, "done") /\ UNCHANGED faults
           \/ Fault /\ Returned(c, "failed") /\ UNCHANGED handled
     \/ /\ ~busClosed /\ Route(c) = "transport" /\ ~(Memory /\ closed)
        /\ Returned(c, "send")
        /\ UNCHANGED <<histVars, faults>>
  /\ UNCHANGED <<conf, busClosed, memVars, rowVars, loopVars, runVars>>

\* memory.Transport.Send has seen an open transport.  The send blocks while
\* the buffer is full, and panics, which Recovery turns into an error, when
\* the channel is closed meanwhile.
Send(c) ==
  /\ Memory /\ run # "crashed"
  /\ call[c] = "send"
  /\ \/ /\ ~closed /\ Len(ch) < Cap
        /\ ch' = Append(ch, c)
        /\ Returned(c, "async")
     \/ /\ closed
        /\ Returned(c, "failed")
        /\ UNCHANGED ch
  /\ UNCHANGED <<conf, busClosed, closed, dropped, rowVars, loopVars, runVars, histVars, faults>>

\* outbox.Transport.Send: the INSERT, as part of the caller's transaction.
Insert(c) ==
  /\ Outbox
  /\ call[c] = "send"
  /\ \/ /\ row' = [row EXCEPT ![c] = "unpublished"]
        /\ Returned(c, "async")
        /\ UNCHANGED faults
     \/ /\ Fault
        /\ row' \in {row, [row EXCEPT ![c] = "unpublished"]}
        /\ Returned(c, "failed")
  /\ UNCHANGED <<conf, busClosed, memVars, claim, retry, slow, loopVars, runVars, histVars>>

-----------------------------------------------------------------------------
\* The worker's side: Get

\* Mutants: the query of the single-worker mode; stale claims are kept.
Eligible_Simple == {c \in Cmds : row[c] = "unpublished" /\ retry[c] < MaxRetries}

Eligible_Unclaimed ==
  {c \in Cmds : row[c] = "unpublished" /\ retry[c] < MaxRetries /\ claim[c] = "none"}

\* The WHERE clause of getUnpublishedClaim.
Eligible ==
  {c \in Cmds : row[c] = "unpublished" /\ retry[c] < MaxRetries /\ claim[c] # "held"}

\* ORDER BY created_at LIMIT BatchSize.
Oldest(S) == {c \in S : Cardinality({d \in S : d < c}) < BatchSize}

\* retry_count + 1 and claimed_at = NULL, for the entries of S.
IncrementRetry(S) ==
  /\ retry' = [c \in Cmds |-> IF c \in S THEN retry[c] + 1 ELSE retry[c]]
  /\ claim' = [c \in Cmds |-> IF c \in S THEN "none" ELSE claim[c]]

GetMemory(l) ==
  /\ Memory
  /\ loop[l] = "get"
  /\ ch # <<>>
  /\ ch' = Tail(ch)
  /\ batch' = [batch EXCEPT ![l] = <<Head(ch)>>]
  /\ Goto(l, "dispatch")
  /\ UNCHANGED <<conf, appVars, closed, dropped, rowVars, tries, runVars, histVars, faults>>

Claimed(B) == [c \in Cmds |-> IF c \in B THEN "held" ELSE claim[c]]

\* UPDATE ... RETURNING gives the claimed rows in no particular order.  What
\* does not decode is counted as a failure right away, or, when that
\* statement fails, stays claimed.
GetUnpublished(l) ==
  LET B    == Oldest(Eligible)
      good == B \ conf.garbled
      bad  == B \cap conf.garbled
  IN /\ Outbox
     /\ loop[l] = "get"
     /\ ~cancelled
     /\ B # {}
     /\ \E s \in Bijection(1..Cardinality(good), good) : batch' = [batch EXCEPT ![l] = s]
     /\ IF good = {} THEN UNCHANGED loop ELSE Goto(l, "dispatch")
     /\ \/ /\ retry' = [c \in Cmds |-> IF c \in bad THEN retry[c] + 1 ELSE retry[c]]
           /\ claim' = [c \in Cmds |-> IF c \in bad THEN "none" ELSE Claimed(B)[c]]
           /\ UNCHANGED faults
        \/ /\ bad # {} /\ Fault
           /\ claim' = Claimed(B)
           /\ UNCHANGED retry
     /\ UNCHANGED <<conf, appVars, memVars, row, slow, tries, runVars, histVars>>

\* The query fails; its rows may be claimed all the same.
GetUnpublishedFails ==
  /\ Outbox
  /\ Fault
  /\ claim' \in {claim, Claimed(Oldest(Eligible))}
  /\ \E l \in Loops : loop[l] = "get"
  /\ UNCHANGED <<conf, appVars, memVars, row, retry, slow, loopVars, runVars, histVars>>

\* Mutant: the memory transport's Get waits for a message only.
Stop_Outbox(l) ==
  /\ loop[l] = "get"
  /\ cancelled /\ Outbox
  /\ Goto(l, "stopped")
  /\ UNCHANGED <<conf, appVars, memVars, rowVars, batch, tries, runVars, histVars, faults>>

\* A loop that waits in Get notices that the context is done.
Stop(l) ==
  /\ loop[l] = "get"
  /\ cancelled
  /\ Goto(l, "stopped")
  /\ UNCHANGED <<conf, appVars, memVars, rowVars, batch, tries, runVars, histVars, faults>>

-----------------------------------------------------------------------------
\* The worker's side: processMessage

\* makeDispatchTerminal on the worker's bus.  The stamps of the envelope are
\* dispatched with it, a ForceTransportStamp included.
WorkerRoute(c) ==
  IF conf.bus = "same" THEN "transport" ELSE IF c \in conf.forced THEN "unknown" ELSE "sync"

\* Mutant: the attempt the loop starts with is counted as a retry.
Failed_OneLess(l) ==
  IF tries[l] + 1 < Retries /\ ~cancelled
  THEN tries' = [tries EXCEPT ![l] = @ + 1] /\ UNCHANGED loop
  ELSE tries' = [tries EXCEPT ![l] = 0] /\ Goto(l, "reject")

\* The Retry middleware after an attempt that failed.
Failed(l) ==
  IF tries[l] < Retries /\ ~cancelled
  THEN tries' = [tries EXCEPT ![l] = @ + 1] /\ UNCHANGED loop
  ELSE tries' = [tries EXCEPT ![l] = 0] /\ Goto(l, "reject")

\* Bus.Dispatch up to the terminal.  An unknown transport stays unknown
\* however often Retry tries it.
DispatchReceived(l) ==
  LET route == WorkerRoute(Current(l))
  IN /\ loop[l] = "dispatch"
     /\ \/ (busClosed \/ route = "unknown") /\ Goto(l, "reject")
        \/ ~busClosed /\ route = "sync" /\ Goto(l, "handle")
        \/ ~busClosed /\ route = "transport" /\ Goto(l, "send")
     /\ UNCHANGED <<conf, appVars, memVars, rowVars, batch, tries, runVars, histVars, faults>>

\* The handler runs: it returns nil, or an error, which Retry sees, or panics,
\* which unwinds through Retry and which Recovery turns into an error.
HandleAny(l) ==
  /\ loop[l] = "handle"
  /\ \/ /\ Attempted(Current(l), 1)
        /\ Succeeded(Current(l))
        /\ Goto(l, "ack")
        /\ tries' = [tries EXCEPT ![l] = 0]
        /\ UNCHANGED faults
     \/ /\ Attempted(Current(l), 1)
        /\ Fault
        /\ Failed(l)
        /\ UNCHANGED handled
     \/ /\ Attempted(Current(l), Retries + 1)
        /\ Fault
        /\ Goto(l, "reject")
        /\ tries' = [tries EXCEPT ![l] = 0]
        /\ UNCHANGED handled
  /\ UNCHANGED <<conf, appVars, memVars, rowVars, batch, runVars>>

\* outbox.Transport.Send on the worker's side: a row of its own.
InsertCopy ==
  \E d \in conf.spare : row[d] = "none" /\ row' = [row EXCEPT ![d] = "unpublished"]

\* The worker's bus routes the command back to the transport: no handler runs.
SendAgain(l) ==
  /\ loop[l] = "send"
  /\ \/ /\ \/ Memory /\ ~closed /\ Len(ch) < Cap /\ ch' = Append(ch, Current(l)) /\ UNCHANGED row
           \/ Outbox /\ ~cancelled /\ InsertCopy /\ UNCHANGED ch
        /\ Goto(l, "ack")
        /\ tries' = [tries EXCEPT ![l] = 0]
        /\ UNCHANGED faults
     \/ /\ Memory /\ closed
        /\ Goto(l, "reject")
        /\ tries' = [tries EXCEPT ![l] = 0]
        /\ UNCHANGED <<ch, row, faults>>
     \/ /\ Outbox
        /\ \/ cancelled /\ UNCHANGED <<row, faults>>
           \/ ~cancelled /\ Fault /\ (InsertCopy \/ UNCHANGED row)
        /\ Failed(l)
        /\ UNCHANGED ch
  /\ UNCHANGED <<conf, appVars, closed, dropped, claim, retry, slow, batch, runVars, histVars>>

\* On to the next envelope of the batch, or to the top of consumeLoop.
Continue(l) ==
  /\ batch' = [batch EXCEPT ![l] = Tail(@)]
  /\ Goto(l, IF Tail(batch[l]) # <<>> THEN "dispatch" ELSE IF cancelled THEN "stopped" ELSE "get")
  /\ UNCHANGED tries

\* A statement on the worker's context takes effect, unless the context is
\* done; with a fault it fails, before or after it took effect.
Statement(effect, noEffect) ==
  \/ ~cancelled /\ effect /\ UNCHANGED faults
  \/ cancelled /\ noEffect /\ UNCHANGED faults
  \/ ~cancelled /\ Fault /\ (effect \/ noEffect)

MarkPublished(c) ==
  /\ row' = [row EXCEPT ![c] = "published"]
  /\ claim' = [claim EXCEPT ![c] = "none"]
  /\ UNCHANGED retry

Ack(l) ==
  /\ loop[l] = "ack"
  /\ \/ Memory /\ UNCHANGED <<row, claim, retry, faults>>
     \/ Outbox /\ Statement(MarkPublished(Current(l)), UNCHANGED <<row, claim, retry>>)
  /\ Continue(l)
  /\ UNCHANGED <<conf, appVars, memVars, slow, runVars, histVars>>

\* Mutant: processMessage acks although the bus returned an error.
Reject_Acks(l) ==
  /\ loop[l] = "reject"
  /\ Outbox
  /\ Statement(MarkPublished(Current(l)), UNCHANGED <<row, claim, retry>>)
  /\ Continue(l)
  /\ UNCHANGED <<conf, appVars, memVars, slow, runVars, histVars>>

\* memory.Transport.Reject looks at the closed flag and drops the envelope or
\* goes on to put it back; outbox.Transport.Reject counts a retry.
Reject(l) ==
  /\ loop[l] = "reject"
  /\ \/ /\ Memory /\ closed
        /\ dropped' = dropped \cup {Current(l)}
        /\ Continue(l)
        /\ UNCHANGED <<row, claim, retry, faults>>
     \/ /\ Memory /\ ~closed
        /\ Goto(l, "requeue")
        /\ UNCHANGED <<dropped, batch, tries, row, claim, retry, faults>>
     \/ /\ Outbox
        /\ Statement(IncrementRetry({Current(l)}) /\ UNCHANGED row, UNCHANGED <<row, claim, retry>>)
        /\ Continue(l)
        /\ UNCHANGED dropped
  /\ UNCHANGED <<conf, appVars, ch, closed, slow, runVars, histVars>>

\* A panic outside Recovery ends the process, channel and loops with it.
Panic ==
  /\ run' = "crashed"
  /\ loop' = [l \in Loops |-> "dead"]
  /\ batch' = [l \in Loops |-> <<>>]
  /\ tries' = [l \in Loops |-> 0]
  /\ ch' = <<>>

\* Mutant: an envelope that finds the channel full is forgotten.
Requeue_Forgets(l) ==
  /\ loop[l] = "requeue"
  /\ ch' = IF ~closed /\ Len(ch) < Cap THEN Append(ch, Current(l)) ELSE ch
  /\ Continue(l)
  /\ UNCHANGED <<conf, appVars, closed, dropped, rowVars, runVars, histVars, faults>>

\* Back into the channel, or dropped when that is full.  If it was closed
\* since Reject looked, the send panics, and nothing around Worker recovers.
Requeue(l) ==
  /\ loop[l] = "requeue"
  /\ \/ /\ ~closed /\ Len(ch) < Cap
        /\ ch' = Append(ch, Current(l))
        /\ Continue(l)
        /\ UNCHANGED <<dropped, run>>
     \/ /\ ~closed /\ Len(ch) >= Cap
        /\ dropped' = dropped \cup {Current(l)}
        /\ Continue(l)
        /\ UNCHANGED <<ch, run>>
     \/ /\ closed
        /\ Panic
        /\ UNCHANGED dropped
  /\ UNCHANGED <<conf, appVars, closed, rowVars, cancelled, histVars, faults>>

-----------------------------------------------------------------------------
\* Worker.Run and the environment

InHand(c) == {l \in Loops : c \in Range(batch[l])}

\* claimTimeout passes.  While a loop still holds the entry this is a fault.
Expire(c) ==
  /\ claim[c] = "held"
  /\ claim' = [claim EXCEPT ![c] = "expired"]
  /\ IF InHand(c) = {} THEN UNCHANGED <<slow, faults>> ELSE Fault /\ slow' = slow \cup {c}
  /\ UNCHANGED <<conf, appVars, memVars, row, retry, loopVars, runVars, histVars>>

\* A worker process on the outbox transport dies and is started again.
Crash(l) ==
  /\ Outbox
  /\ batch[l] # <<>>
  /\ Fault
  /\ Goto(l, "get")
  /\ batch' = [batch EXCEPT ![l] = <<>>]
  /\ tries' = [tries EXCEPT ![l] = 0]
  /\ UNCHANGED <<conf, appVars, memVars, rowVars, runVars, histVars>>

CloseBus ==
  /\ ~busClosed /\ run # "crashed"
  /\ Fault
  /\ busClosed' = TRUE
  /\ UNCHANGED <<conf, call, memVars, rowVars, loopVars, runVars, histVars>>

CloseTransport ==
  /\ Memory /\ ~closed
  /\ Fault
  /\ closed' = TRUE
  /\ UNCHANGED <<conf, appVars, ch, dropped, rowVars, loopVars, runVars, histVars>>

Cancel ==
  /\ ~cancelled /\ run # "crashed"
  /\ Fault
  /\ cancelled' = TRUE
  /\ UNCHANGED <<conf, appVars, memVars, rowVars, loopVars, run, histVars>>

\* Run returns: all its loops have stopped, or ShutdownTimeout has passed.
RunReturn ==
  /\ run = "running"
  /\ cancelled
  /\ run' = IF \A l \in Loops : loop[l] = "stopped" THEN "drained" ELSE "timed out"
  /\ UNCHANGED <<conf, appVars, memVars, rowVars, loopVars, cancelled, histVars, faults>>

processMessage(l) ==
  DispatchReceived(l) \/ HandleAny(l) \/ SendAgain(l) \/ Ack(l) \/ Reject(l) \/ Requeue(l)

consumeLoop(l) == GetMemory(l) \/ GetUnpublished(l) \/ Stop(l) \/ processMessage(l)

Next ==
  \/ \E c \in Cmds : Dispatch(c) \/ Send(c) \/ Insert(c) \/ Expire(c)
  \/ \E l \in Loops : consumeLoop(l) \/ Crash(l)
  \/ GetUnpublishedFails \/ CloseBus \/ CloseTransport \/ Cancel \/ RunReturn

Spec == Init /\ [][Next]_vars

\* Goroutines that can go on do; a claim nobody holds expires.  A blocked
\* sender gets its turn among the others (Go's channels are first come, first
\* served), and so does a loop among those that poll.
Fairness ==
  /\ \A l \in Loops : WF_vars(processMessage(l) \/ Stop(l))
  /\ \A l \in Loops : SF_vars(GetMemory(l) \/ GetUnpublished(l))
  /\ \A c \in Cmds : SF_vars(Send(c)) /\ WF_vars(Expire(c))

FairSpec == Spec /\ Fairness

-----------------------------------------------------------------------------
\* Properties

\* The memory transport neither loses nor duplicates: as long as the process
\* lives, a command Dispatch reported as Async is at exactly one place, in the
\* channel, in the hands of one loop, done, or dropped by a Reject that found
\* the channel full or closed.
Places(c) ==
    Cardinality({i \in 1..Len(ch) : ch[i] = c})
  + Cardinality({l \in InHand(c) : loop[l] # "ack"})
  + handled[c]
  + (IF c \in dropped THEN 1 ELSE 0)

MemoryConserves ==
  Memory /\ run # "crashed" =>
    \A c \in Cmds \ conf.local : Places(c) = IF call[c] = "async" THEN 1 ELSE 0

\* On a worker whose bus has no routes an outbox entry is marked published
\* only after its handler succeeded: Worker acks on success and rejects on
\* every error of the bus.  (A bus with routes sends the command on instead.)
PublishedIsHandled ==
  conf.bus = "plain" => \A c \in Cmds : row[c] = "published" => handled[c] > 0

\* "Multiple relay workers can poll concurrently without processing the same
\* entries" (GetUnpublished), as long as no handler outlasts the claim.
NoSharedEntry ==
  Outbox => \A c \in Cmds \ slow : Cardinality(InHand(c)) <= 1

\* retry_count never runs ahead: while the bus, one without routes, is open
\* and the worker runs, each increment stands for a full round of attempts of
\* the handler or for one that panicked, even when several loops hold the
\* entry, so an entry leaves the polling query only after all of them.
RetryIsEarned ==
  Outbox /\ conf.bus = "plain" /\ ~busClosed /\ ~cancelled =>
    \A c \in Cmds \ (conf.forced \cup conf.garbled) : attempts[c] >= retry[c] * (Retries + 1)

\* A command sent to the transport is handled by a worker on a bus without
\* routes, dropped by a full channel, or given up after MaxRetries, unless the
\* application is shut down.
ShutDown == cancelled \/ closed \/ busClosed

AsyncSettles ==
  \A c \in Cmds :
    (conf.bus = "plain" /\ c \notin conf.forced /\ call[c] = "async") ~>
        (handled[c] > 0 \/ c \in dropped \/ retry[c] >= MaxRetries \/ ShutDown)

\* Shutdown of a worker whose bus has no routes: once the context of Run is
\* done every consume loop ends, from wherever it is in its batch, its round
\* of retries or its settling of a message.
LoopsStop ==
  (conf.bus = "plain" /\ cancelled) ~> \A l \in Loops : loop[l] \in {"stopped", "dead"}

\* DispatchResult: "Async == true: message was sent to transport, handler runs
\* later via worker".
HandlerRunsLater == \A c \in Cmds : call[c] = "async" ~> attempts[c] > 0

=============================================================================
