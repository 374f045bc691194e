------------------------- MODULE UnitOfWorkProofs -------------------------
(***************************************************************************)
(* For any aggregates, any changes and any number of faults, rows and      *)
(* outbox stay in step, but for the events a failed Execute had drained    *)
(* from aggregates its caller goes on with.                                *)
(***************************************************************************)
EXTENDS UnitOfWork, TLAPS

\* The invariant is about single changes: which tables, lists and rows hold c.
Types ==
  /\ mem \in [Aggs -> SUBSET Changes]
  /\ events \in [Aggs -> SUBSET Changes]
  /\ saved \in [Aggs -> SUBSET Changes]
  /\ txSaved \in [Aggs -> SUBSET Changes]
  /\ aggs \in SUBSET Aggs
  /\ pc \in {"idle", "fn", "publish", "commit"}

\* Rows and outbox agree; nothing in memory is behind the rows.
InStep ==
  /\ \A a \in Aggs : saved[a] \subseteq outbox \cup lost
  /\ \A c \in outbox : \E a \in Aggs : c \in saved[a]
  /\ \A a \in Aggs : saved[a] \subseteq mem[a] /\ events[a] \subseteq mem[a]

\* Outside a transaction nothing is drained, and before fn its view of the
\* rows is theirs.
Quiet ==
  /\ pc \in {"idle", "fn"} => drained = {} /\ txOutbox = {} /\ txSaved = saved
  /\ pc = "commit" => drained = {} /\ aggs = {}

\* Once fn has saved the aggregates, the changes of one that is drained are
\* with the transaction, in the outbox or lost already, one that is not is saved as
\* it is in memory, nothing is saved that is not in memory, and what the
\* transaction adds to the outbox it also saves.
Draining ==
  pc \in {"publish", "commit"} =>
    /\ \A a \in aggs : txSaved[a] = mem[a]
    /\ \A a \in Aggs \ aggs : txSaved[a] \subseteq drained \cup txOutbox \cup outbox \cup lost
    /\ \A a \in Aggs : saved[a] \subseteq txSaved[a] /\ txSaved[a] \subseteq mem[a]
    /\ \A c \in drained \cup txOutbox : \E a \in Aggs : c \in txSaved[a]

UowInv == Types /\ InStep /\ Quiet /\ Draining /\ NoSilentLoss

\* Nothing is pending, saved or published at the start.
LEMMA UowInit == Init => UowInv
  BY Zenon DEF Init, UowInv, Types, InStep, Quiet, Draining, NoSilentLoss

\* What Apply writes is in step: the transaction saves and publishes the same.
LEMMA ApplyInStep ==
  ASSUME UowInv, pc = "commit", Apply
  PROVE  /\ saved' \in [Aggs -> SUBSET Changes]
         /\ \A a \in Aggs : saved'[a] \subseteq outbox' \cup lost
         /\ \A c \in outbox' : \E a \in Aggs : c \in saved'[a]
  <1>1. saved' = txSaved /\ outbox' = outbox \cup txOutbox
    BY Zenon DEF Apply
  <1>2. aggs = {} /\ drained = {}
    BY Zenon DEF UowInv, Quiet
  <1>3. \A a \in Aggs : txSaved[a] \subseteq txOutbox \cup outbox \cup lost
    BY Zenon, <1>2 DEF UowInv, Draining
  <1>4. \A c \in outbox : \E a \in Aggs : c \in txSaved[a]
    BY Zenon DEF UowInv, InStep, Draining
  <1>5. \A c \in txOutbox : \E a \in Aggs : c \in txSaved[a]
    BY Zenon DEF UowInv, Draining
  <1> QED
    BY Zenon, <1>1, <1>3, <1>4, <1>5 DEF UowInv, Types

\* Loading the aggregates again makes memory agree with rows that are in step.
LEMMA ReloadInStep ==
  ASSUME EndTx, mem' = saved', events' = [a \in Aggs |-> {}], UNCHANGED lost,
         saved' \in [Aggs -> SUBSET Changes],
         \A a \in Aggs : saved'[a] \subseteq outbox' \cup lost,
         \A c \in outbox' : \E a \in Aggs : c \in saved'[a]
  PROVE  UowInv'
  BY Zenon DEF EndTx, UowInv, Types, InStep, Quiet, Draining, NoSilentLoss

\* Going on with them loses what the failed Execute had drained, and no more.
LEMMA KeepInStep ==
  ASSUME UowInv, EndTx, UNCHANGED memory,
         lost' = lost \cup ((drained \cup txOutbox) \ outbox'),
         outbox \subseteq outbox',
         saved' \in [Aggs -> SUBSET Changes],
         \A a \in Aggs : saved'[a] \subseteq mem[a],
         \A a \in Aggs : saved'[a] \subseteq outbox' \cup lost,
         \A c \in outbox' : \E a \in Aggs : c \in saved'[a]
  PROVE  UowInv'
  BY Zenon DEF EndTx, memory, UowInv, Types, InStep, Quiet, Draining, NoSilentLoss

\* Every step keeps the invariant.
LEMMA UowStep ==
  ASSUME UowInv, [Next]_vars
  PROVE  UowInv'
  <1>1. ASSUME NEW a \in Aggs, NEW c \in Changes, AddEvent(a, c)
        PROVE  UowInv'
    BY <1>1 DEF AddEvent, db, tx, UowInv, Types, InStep, Quiet, Draining, NoSilentLoss
  <1>2. ASSUME NEW S \in SUBSET Aggs, Execute(S)
        PROVE  UowInv'
    BY Zenon, <1>2 DEF Execute, memory, db, UowInv, Types, InStep, Quiet, Draining, NoSilentLoss
  <1>3. CASE fn
    BY ZenonT(60), <1>3 DEF fn, memory, db, UowInv, Types, InStep, Quiet, Draining, NoSilentLoss
  <1>4. ASSUME NEW a \in Aggs, ClearEvents(a)
        PROVE  UowInv'
    BY <1>4 DEF ClearEvents, db, UowInv, Types, InStep, Quiet, Draining, NoSilentLoss
  <1>5. ASSUME NEW c \in Changes, Insert(c)
        PROVE  UowInv'
    BY <1>5 DEF Insert, memory, db, UowInv, Types, InStep, Quiet, Draining, NoSilentLoss
  <1>6. CASE Published
    BY <1>6 DEF Published, memory, db, tx, UowInv, Types, InStep, Quiet, Draining, NoSilentLoss
  <1>7. CASE Commit
    <2>1. pc = "commit" /\ Apply /\ EndTx /\ UNCHANGED <<memory, lost>>
      BY Zenon, <1>7 DEF Commit
    <2>2. /\ saved' \in [Aggs -> SUBSET Changes]
          /\ \A a \in Aggs : saved'[a] \subseteq outbox' \cup lost
          /\ \A c \in outbox' : \E a \in Aggs : c \in saved'[a]
      BY Zenon, <2>1, ApplyInStep
    <2>3. \A a \in Aggs : saved'[a] \subseteq mem[a]
      BY Zenon, <2>1 DEF Apply, UowInv, Draining
    <2> QED
      BY Zenon, <2>1, <2>2, <2>3
      DEF EndTx, memory, Apply, UowInv, Types, InStep, Quiet, Draining, NoSilentLoss
  <1>8. CASE Rollback
    <2>1. EndTx /\ AfterError /\ saved' = saved /\ outbox' = outbox
      BY Zenon, <1>8 DEF Rollback, db
    <2>2. /\ saved \in [Aggs -> SUBSET Changes]
          /\ \A a \in Aggs : saved[a] \subseteq mem[a]
          /\ \A a \in Aggs : saved[a] \subseteq outbox \cup lost
          /\ \A c \in outbox : \E a \in Aggs : c \in saved[a]
      BY Zenon DEF UowInv, Types, InStep
    <2> QED BY Zenon, <2>1, <2>2, ReloadInStep, KeepInStep DEF AfterError
  <1>9. CASE CommitUnknown
    <2>1. EndTx /\ AfterError /\ Apply /\ pc = "commit"
      BY Zenon, <1>9 DEF CommitUnknown
    <2>2. \A a \in Aggs : saved'[a] \subseteq mem[a]
      BY Zenon, <2>1 DEF Apply, UowInv, Draining
    <2>3. outbox \subseteq outbox'
      BY Zenon, <2>1 DEF Apply
    <2> QED BY Zenon, <2>1, <2>2, <2>3, ApplyInStep, ReloadInStep, KeepInStep DEF AfterError
  <1>10. CASE Crash
    BY Zenon, <1>10, ReloadInStep DEF Crash, db, UowInv, Types, InStep
  <1>11. CASE UNCHANGED vars
    BY ZenonT(60), <1>11 DEF vars, memory, db, tx, UowInv, Types, InStep, Quiet, Draining, NoSilentLoss
  <1> QED
    BY Zenon, <1>1, <1>2, <1>3, <1>4, <1>5, <1>6, <1>7, <1>8, <1>9, <1>10, <1>11 DEF Next

\* Execute keeps rows and outbox consistent, whatever fails, panics, crashes or is
\* answered late: an event in the outbox has its change in the rows, and a change
\* in the rows its event in the outbox, except those a failed Execute had drained
\* from aggregates its caller went on with.
THEOREM ConsistentAlways == Spec => []Consistent
  <1>1. UowInv => Consistent
    BY Zenon DEF UowInv, InStep, Consistent
  <1>2. UowInv /\ [Next]_vars => UowInv'
    BY Zenon, UowStep
  <1> QED
    BY <1>1, <1>2, UowInit, PTL DEF Spec

\* No change in memory is without its event, pending, with the open transaction or
\* in the outbox, unless a failed Execute had drained that very event.
THEOREM NoSilentLossAlways == Spec => []NoSilentLoss
  <1>1. UowInv => NoSilentLoss
    BY Zenon DEF UowInv
  <1>2. UowInv /\ [Next]_vars => UowInv'
    BY Zenon, UowStep
  <1> QED
    BY <1>1, <1>2, UowInit, PTL DEF Spec
=============================================================================
