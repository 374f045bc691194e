----------------------------- MODULE UnitOfWork -----------------------------
(***************************************************************************)
(* A command handler that changes aggregates in memory and persists them   *)
(* with UnitOfWork.Execute or ExecuteMulti: one SQL transaction for the    *)
(* aggregates' rows and their outbox rows.  Any call may fail, the answer  *)
(* to COMMIT may be lost, fn may panic and the process may crash.          *)
(*                                                                         *)
(* A change of an aggregate and the domain event it raises share one name. *)
(***************************************************************************)
EXTENDS Naturals, FiniteSets

CONSTANTS
  Aggs,      \* aggregates
  Changes,   \* state changes, each with its domain event
  MaxFaults  \* bound: failed calls, panics and crashes in one behaviour

ASSUME UnitOfWorkAssumption == MaxFaults \in Nat

VARIABLES
  mem,       \* changes applied to each aggregate in memory
  events,    \* Base.events: events an aggregate has pending
  saved,     \* changes in each aggregate's committed row
  outbox,    \* events in the committed outbox table
  pc,        \* where Execute is
  aggs,      \* aggregates Execute still has to drain
  drained,   \* events drained and not yet inserted
  txSaved,   \* the aggregates' rows as the open transaction sees them
  txOutbox,  \* outbox rows the open transaction has inserted
  lost,      \* history: events an Execute had drained when it failed, of
             \* aggregates the caller went on with
  faults     \* faults the environment may still inject

memory == <<mem, events>>
db     == <<saved, outbox>>
tx     == <<aggs, drained, txSaved, txOutbox>>
vars   == <<memory, db, pc, tx, lost, faults>>

Fault == faults > 0 /\ faults' = faults - 1

-----------------------------------------------------------------------------

Init ==
  /\ mem = [a \in Aggs |-> {}]
  /\ events = [a \in Aggs |-> {}]
  /\ saved = [a \in Aggs |-> {}]
  /\ outbox = {}
  /\ pc = "idle"
  /\ aggs = {}
  /\ drained = {}
  /\ txSaved = saved
  /\ txOutbox = {}
  /\ lost = {}
  /\ faults = MaxFaults

\* A change that is not used yet.
Fresh(c) == \A a \in Aggs : c \notin mem[a] \cup saved[a] \cup lost

\* A state-transition method changes the aggregate and calls AddDomainEvent.
AddEvent(a, c) ==
  /\ pc = "idle"
  /\ Fresh(c)
  /\ mem' = [mem EXCEPT ![a] = @ \cup {c}]
  /\ events' = [events EXCEPT ![a] = @ \cup {c}]
  /\ UNCHANGED <<db, pc, tx, lost, faults>>

\* WithTx begins the transaction.
Execute(S) ==
  /\ pc = "idle"
  /\ pc' = "fn"
  /\ aggs' = S
  /\ txSaved' = saved
  /\ txOutbox' = {}
  /\ UNCHANGED <<memory, db, drained, lost, faults>>

\* fn, the aggregates' persistence, succeeds.
fn ==
  /\ pc = "fn"
  /\ txSaved' = [a \in Aggs |-> IF a \in aggs THEN mem[a] ELSE txSaved[a]]
  /\ pc' = "publish"
  /\ UNCHANGED <<memory, db, aggs, drained, txOutbox, lost, faults>>

\* publishEvents calls ClearEvents on the next aggregate, whose pending list
\* is emptied at once ...
ClearEvents(a) ==
  /\ pc = "publish"
  /\ drained = {}
  /\ a \in aggs
  /\ drained' = events[a]
  /\ events' = [events EXCEPT ![a] = {}]
  /\ aggs' = aggs \ {a}
  /\ UNCHANGED <<mem, db, pc, txSaved, txOutbox, lost, faults>>

\* Mutant of Insert: the transaction in the context is not found.
Insert_Pool(c) ==
  /\ pc = "publish"
  /\ c \in drained
  /\ outbox' = outbox \cup {c}
  /\ drained' = drained \ {c}
  /\ UNCHANGED <<memory, saved, pc, aggs, txSaved, txOutbox, lost, faults>>

\* ... and inserts the drained events one by one through the transaction that
\* Store.executor extracts from the context.
Insert(c) ==
  /\ pc = "publish"
  /\ c \in drained
  /\ txOutbox' = txOutbox \cup {c}
  /\ drained' = drained \ {c}
  /\ UNCHANGED <<memory, db, pc, aggs, txSaved, lost, faults>>

\* Mutant of Published: the last aggregate's events are not waited for.
Published_Early ==
  /\ pc = "publish"
  /\ aggs = {}
  /\ pc' = "commit"
  /\ UNCHANGED <<memory, db, tx, lost, faults>>

\* Every aggregate is drained; fn of WithTx returns nil.
Published ==
  /\ pc = "publish"
  /\ aggs = {}
  /\ drained = {}
  /\ pc' = "commit"
  /\ UNCHANGED <<memory, db, tx, lost, faults>>

\* The transaction's writes reach the tables.
Apply == saved' = txSaved /\ outbox' = outbox \cup txOutbox

\* The transaction is over; nothing of it is left in memory.
EndTx ==
  /\ pc' = "idle"
  /\ aggs' = {}
  /\ drained' = {}
  /\ txSaved' = saved'
  /\ txOutbox' = {}

\* tx.Commit succeeds and Execute returns nil.
Commit ==
  /\ pc = "commit"
  /\ Apply
  /\ EndTx
  /\ UNCHANGED <<memory, lost, faults>>

\* After an error the caller goes on with the aggregates, whose pending lists
\* stay as empty as Execute left them, or loads them again.
AfterError ==
  \/ /\ lost' = lost \cup ((drained \cup txOutbox) \ outbox')
     /\ UNCHANGED memory
  \/ /\ mem' = saved'
     /\ events' = [a \in Aggs |-> {}]
     /\ UNCHANGED lost

\* Execute returns an error (or re-panics): fn or an Insert failed or
\* panicked and WithTx rolls back, or Commit failed.
Rollback ==
  /\ pc \in {"fn", "publish", "commit"}
  /\ Fault
  /\ UNCHANGED db
  /\ EndTx
  /\ AfterError

\* Commit takes effect but its answer is lost: Execute returns an error.
CommitUnknown ==
  /\ pc = "commit"
  /\ Fault
  /\ Apply
  /\ EndTx
  /\ AfterError

\* The process dies: the memory is gone and the database rolls back.
Crash ==
  /\ Fault
  /\ UNCHANGED db
  /\ EndTx
  /\ mem' = saved
  /\ events' = [a \in Aggs |-> {}]
  /\ UNCHANGED lost

-----------------------------------------------------------------------------

Next ==
  \/ \E a \in Aggs, c \in Changes : AddEvent(a, c)
  \/ \E S \in SUBSET Aggs : Execute(S)
  \/ fn
  \/ \E a \in Aggs : ClearEvents(a)
  \/ \E c \in Changes : Insert(c)
  \/ Published
  \/ Commit
  \/ Rollback
  \/ CommitUnknown
  \/ Crash

Spec == Init /\ [][Next]_vars

-----------------------------------------------------------------------------

\* docs/architecture.md, "Domain state and outbox events are always
\* consistent", as far as the code keeps it: an event in the outbox has its
\* change in the rows, and a change in the rows has its event in the outbox,
\* except one drained by an Execute that failed for a caller that went on with
\* the aggregate.  No failure, crash or lost answer leaves any other half.
Consistent ==
  LET rows == UNION {saved[a] : a \in Aggs}
  IN outbox \subseteq rows /\ rows \subseteq outbox \cup lost

\* A change in memory keeps its event: it is pending, on its way through the
\* open transaction, or in the outbox.  A failed Execute costs a caller no
\* event but those it had itself drained, not even of the other aggregates.
NoSilentLoss ==
  \A a \in Aggs : mem[a] \subseteq events[a] \cup drained \cup txOutbox \cup outbox \cup lost

\* unit_of_work.go: "ClearEvents is called only after the domain save succeeds,
\* preventing silent event loss on rollback": what reaches the rows has its event.
DrainIsSafe == \A a \in Aggs : saved[a] \subseteq outbox

=============================================================================
