--------------------------- MODULE InboxConsumer ---------------------------
(***************************************************************************)
(* Consumers of a JetStream subject: the callback of nats.Bus.Subscribe    *)
(* (acknowledge on nil, negative-acknowledge on error), and in it one of   *)
(*   "wrap"    a handler under InboxMiddleware.Wrap (handler first),       *)
(*   "process" a handler under Processor.Process (insert first),           *)
(*   "typed"   the handler EventStream, CommandStream and ReplyStream      *)
(*             subscribe, which knows no inbox and settles the message     *)
(*             itself before the callback does.                            *)
(*                                                                         *)
(* The broker redelivers a message that is neither acknowledged nor        *)
(* negative-acknowledged within AckWait, also while an earlier delivery is *)
(* still being handled by another consumer.                                *)
(***************************************************************************)
EXTENDS Naturals, FiniteSets

CONSTANTS
  Msgs,         \* messages of the stream
  EventOf,      \* the event (or command) a message carries; a duplicate of a
                \* message carries the same one
  IdOf,         \* Message.ID() of a message, "" when it was published without
  Malformed,    \* messages a typed handler cannot decode
  Subs,         \* subscriptions; each of them gets every message
  Consumers,    \* consume loops, each handling one message at a time
  SubOf,        \* the subscription a consumer belongs to
  Configs,      \* how the consumers may be set up, see conf
  MaxFaults     \* bound: errors, lost answers, timeouts, crashes, clean-ups

ASSUME InboxAssumption ==
  /\ SubOf \in [Consumers -> Subs]
  /\ DOMAIN EventOf = Msgs /\ DOMAIN IdOf = Msgs
  /\ Malformed \subseteq Msgs
  /\ Configs \subseteq [kind : {"wrap", "process", "typed"}, maxDeliver : Nat, cleanup : BOOLEAN]
  /\ MaxFaults \in Nat

VARIABLES
  conf,      \* never changes: the kind of handler, the delivery attempts
             \* allowed (0: unlimited), and whether markers are cleaned up
             \* while a copy of their message may still arrive
  broker,    \* state of a message for a subscription
  attempts,  \* delivery attempts, up to MaxDeliver
  inbox,     \* ids in inbox_events, shared by all subscriptions
  pc,        \* where a consumer's callback is
  msg,       \* the message it handles
  settled,   \* TRUE iff this delivery was already acked or nacked
  marked,    \* history: the id was in the inbox when the delivery began
  starts,    \* history: handler runs per subscription and event, up to 2
  handled,   \* history: those of them that succeeded, up to 2
  faults     \* faults the environment may still inject

vars == <<conf, broker, attempts, inbox, pc, msg, settled, marked, handled, starts, faults>>

Kind       == conf.kind
MaxDeliver == conf.maxDeliver

Events == {EventOf[m] : m \in Msgs}

Fault == faults > 0 /\ faults' = faults - 1

\* The message of consumer c, its event and its id.
Event(c) == EventOf[msg[c]]
Id(c)    == IdOf[msg[c]]

Goto(c, stage) == pc' = [pc EXCEPT ![c] = stage]

-----------------------------------------------------------------------------
\* The broker

Init ==
  /\ conf \in Configs
  /\ broker = [s \in Subs |-> [m \in Msgs |-> "ready"]]
  /\ attempts = [s \in Subs |-> [m \in Msgs |-> 0]]
  /\ inbox = {}
  /\ pc = [c \in Consumers |-> "idle"]
  /\ msg = [c \in Consumers |-> "none"]
  /\ settled = [c \in Consumers |-> FALSE]
  /\ marked = [c \in Consumers |-> FALSE]
  /\ handled = [s \in Subs |-> [e \in Events |-> 0]]
  /\ starts = [s \in Subs |-> [e \in Events |-> 0]]
  /\ faults = MaxFaults

Exhausted(s, m) == MaxDeliver > 0 /\ attempts[s][m] = MaxDeliver

\* Consume calls the callback with a message of the subject.
Deliver(c, m) ==
  LET s == SubOf[c]
  IN /\ pc[c] = "idle"
     /\ broker[s][m] = "ready"
     /\ broker' = [broker EXCEPT ![s][m] = "inflight"]
     /\ attempts' = [attempts EXCEPT ![s][m] = IF MaxDeliver = 0 THEN 0 ELSE @ + 1]
     /\ msg' = [msg EXCEPT ![c] = m]
     /\ settled' = [settled EXCEPT ![c] = FALSE]
     /\ marked' = [marked EXCEPT ![c] = IdOf[m] \in inbox]
     /\ Goto(c, IF Kind = "typed" THEN "handle" ELSE "check")
     /\ UNCHANGED <<conf, inbox, handled, starts, faults>>

\* What redelivery makes of a message: it is given up after MaxDeliver.
Return(s, m) == IF Exhausted(s, m) THEN "dead" ELSE "ready"

InHand(s, m) == \E c \in Consumers : SubOf[c] = s /\ pc[c] # "idle" /\ msg[c] = m

\* The broker waits no longer.  For a delivery that is still being handled
\* this is a fault.
AckWait(s, m) ==
  /\ broker[s][m] = "inflight"
  /\ IF InHand(s, m) THEN Fault ELSE UNCHANGED faults
  /\ broker' = [broker EXCEPT ![s][m] = Return(s, m)]
  /\ UNCHANGED <<conf, attempts, inbox, pc, msg, settled, marked, handled, starts>>

\* jsMsg.Ack and jsMsg.Nak: only the first call on a delivery has an effect,
\* and the answer may be lost on the way.  A late Nak does not undo an Ack.
Ack(c) ==
  LET s == SubOf[c]
  IN \/ /\ broker' = IF settled[c] THEN broker ELSE [broker EXCEPT ![s][msg[c]] = "acked"]
        /\ UNCHANGED faults
     \/ ~settled[c] /\ Fault /\ UNCHANGED broker

Nak(c) ==
  LET s == SubOf[c]
  IN \/ /\ broker' = IF settled[c] \/ broker[s][msg[c]] # "inflight" THEN broker
                     ELSE [broker EXCEPT ![s][msg[c]] = Return(s, msg[c])]
        /\ UNCHANGED faults
     \/ ~settled[c] /\ Fault /\ UNCHANGED broker

-----------------------------------------------------------------------------
\* The inbox

\* Mutants: a known message is handled again; a known message is an error.
IsProcessed_Ignored(c) ==
  /\ pc[c] = "check"
  /\ Kind = "wrap"
  /\ Goto(c, "handle")
  /\ UNCHANGED <<conf, broker, attempts, inbox, msg, settled, marked, handled, starts, faults>>

IsProcessed_DuplicateIsError(c) ==
  /\ pc[c] = "check"
  /\ Kind = "wrap"
  /\ Goto(c, IF Id(c) \in inbox THEN "nak" ELSE "handle")
  /\ UNCHANGED <<conf, broker, attempts, inbox, msg, settled, marked, handled, starts, faults>>

\* InboxMiddleware: the pre-flight check.
IsProcessed(c) ==
  /\ pc[c] = "check"
  /\ Kind = "wrap"
  /\ \/ /\ Goto(c, IF Id(c) \in inbox THEN "ack" ELSE "handle")
        /\ UNCHANGED faults
     \/ Goto(c, "nak") /\ Fault
  /\ UNCHANGED <<conf, broker, attempts, inbox, msg, settled, marked, handled, starts>>

\* Mutant: the number of inserted rows is not looked at.
Process_AnyRows(c) ==
  /\ pc[c] = "check"
  /\ Kind = "process"
  /\ Goto(c, "handle")
  /\ inbox' = inbox \cup {Id(c)}
  /\ UNCHANGED <<conf, broker, attempts, msg, settled, marked, handled, starts, faults>>

\* Processor: INSERT ... ON CONFLICT DO NOTHING; no row means a duplicate.
Process(c) ==
  /\ pc[c] = "check"
  /\ Kind = "process"
  /\ \/ /\ Goto(c, IF Id(c) \in inbox THEN "ack" ELSE "handle")
        /\ inbox' = inbox \cup {Id(c)}
        /\ UNCHANGED faults
     \/ /\ Goto(c, "nak")
        /\ inbox' \in {inbox, inbox \cup {Id(c)}}
        /\ Fault
  /\ UNCHANGED <<conf, broker, attempts, msg, settled, marked, handled, starts>>

\* The handler runs and succeeds.  A typed handler returns what msg.Ack()
\* returns: when the acknowledgement could not even be sent, an error.
AfterHandler == IF Kind = "wrap" THEN "mark" ELSE "ack"

Counted(f, c) == [f EXCEPT ![SubOf[c]][Event(c)] = IF @ < 2 THEN @ + 1 ELSE @]

Undecodable(c) == Kind = "typed" /\ msg[c] \in Malformed

\* msg.Ack() inside a typed handler, when it can be sent and when it cannot.
AckInside(c) == Ack(c) /\ settled' = [settled EXCEPT ![c] = TRUE]
AckInsideFails == Fault /\ UNCHANGED <<broker, settled>>

next(c) ==
  /\ pc[c] = "handle"
  /\ ~Undecodable(c)
  /\ starts' = Counted(starts, c)
  /\ handled' = Counted(handled, c)
  /\ \/ Kind # "typed" /\ Goto(c, AfterHandler) /\ UNCHANGED <<broker, settled, faults>>
     \/ Kind = "typed" /\ Goto(c, AfterHandler) /\ AckInside(c)
     \/ Kind = "typed" /\ Goto(c, "nak") /\ AckInsideFails
  /\ UNCHANGED <<conf, attempts, inbox, msg, marked>>

\* The handler fails, or a typed handler cannot decode the message, which it
\* acknowledges to be rid of it; both return an error.
nextFails(c) ==
  /\ pc[c] = "handle"
  /\ \/ Undecodable(c) /\ AckInside(c) /\ UNCHANGED starts
     \/ Undecodable(c) /\ AckInsideFails /\ UNCHANGED starts
     \/ ~Undecodable(c) /\ Fault /\ starts' = Counted(starts, c) /\ UNCHANGED <<broker, settled>>
  /\ Goto(c, "nak")
  /\ UNCHANGED <<conf, attempts, inbox, msg, marked, handled>>

\* A failed MarkProcessed is only logged.
MarkProcessed(c) ==
  /\ pc[c] = "mark"
  /\ \/ inbox' = inbox \cup {Id(c)} /\ UNCHANGED faults
     \/ inbox' \in {inbox, inbox \cup {Id(c)}} /\ Fault
  /\ Goto(c, "ack")
  /\ UNCHANGED <<conf, broker, attempts, msg, settled, marked, handled, starts>>

\* Nothing of the delivery is left in the consumer.
Forget(c) ==
  /\ Goto(c, "idle")
  /\ msg' = [msg EXCEPT ![c] = "none"]
  /\ settled' = [settled EXCEPT ![c] = FALSE]
  /\ marked' = [marked EXCEPT ![c] = FALSE]

\* Mutant: the callback acknowledges whatever the handler returned.
Settle_AlwaysAcks(c) ==
  /\ pc[c] \in {"ack", "nak"}
  /\ Ack(c)
  /\ Forget(c)
  /\ UNCHANGED <<conf, attempts, inbox, handled, starts>>

\* The callback of Subscribe returns.
Settle(c) ==
  /\ \/ pc[c] = "ack" /\ Ack(c)
     \/ pc[c] = "nak" /\ Nak(c)
  /\ Forget(c)
  /\ UNCHANGED <<conf, attempts, inbox, handled, starts>>

\* The process dies in the middle of a callback.
Crash(c) ==
  /\ pc[c] # "idle"
  /\ Fault
  /\ Forget(c)
  /\ UNCHANGED <<conf, broker, attempts, inbox, handled, starts>>

\* InboxStore.Cleanup: markers older than the retention period are deleted.
Cleanup ==
  /\ conf.cleanup
  /\ Fault
  /\ inbox' \in SUBSET inbox \ {inbox}
  /\ marked' = [c \in Consumers |-> FALSE]
  /\ UNCHANGED <<conf, broker, attempts, pc, msg, settled, handled, starts>>

callback(c) ==
  IsProcessed(c) \/ Process(c) \/ next(c) \/ nextFails(c) \/ MarkProcessed(c) \/ Settle(c)

Next ==
  \/ \E c \in Consumers : callback(c) \/ Crash(c)
  \/ \E c \in Consumers, m \in Msgs : Deliver(c, m)
  \/ \E s \in Subs, m \in Msgs : AckWait(s, m)
  \/ Cleanup

Spec == Init /\ [][Next]_vars

\* A callback that began goes on; the broker delivers what is ready (a message
\* is not passed over forever) and redelivers what nobody handles.
Fairness ==
  /\ \A c \in Consumers : WF_vars(callback(c))
  /\ \A c \in Consumers, m \in Msgs : SF_vars(Deliver(c, m))
  /\ \A s \in Subs, m \in Msgs : WF_vars(AckWait(s, m))

FairSpec == Spec /\ Fairness

-----------------------------------------------------------------------------
\* Properties

\* At least once (InboxMiddleware.Wrap "provides at-least-once processing"): a
\* message is acknowledged only when this subscription's handler has processed
\* its event, whatever fails, crashes or is redelivered on the way.  Messages a
\* typed handler cannot decode are discarded on purpose.
AckedMeansHandled ==
  Kind # "process" => \A s \in Subs, m \in Msgs \ Malformed :
    broker[s][m] = "acked" => handled[s][EventOf[m]] > 0

\* "Once the marker is written, subsequent deliveries are deduplicated": a
\* delivery that began when the id was in the inbox never gets to the handler
\* (unless Cleanup deleted the marker in between).
MarkedIsSkipped ==
  \A c \in Consumers : marked[c] => pc[c] \notin {"handle", "mark"}

\* At most once (Processor): however often an event is delivered, also to two
\* consumers at the same time, the handler is started once (as long as markers
\* outlive the copies of their message).
HandledOnce ==
  Kind = "process" /\ ~conf.cleanup => \A s \in Subs, e \in Events : starts[s][e] <= 1

\* Without a limit on deliveries every message is acknowledged for good in the
\* end, and with AckedMeansHandled that says it is handled: a Nak, a lost answer
\* or a crash only delays it, and nothing is redelivered forever.
EventuallyAcked ==
  MaxDeliver = 0 => \A s \in Subs, m \in Msgs : <>[](broker[s][m] = "acked")

=============================================================================
