------------------------ MODULE InboxConsumerProofs ------------------------
(***************************************************************************)
(* For any messages, consumers, set-ups and number of faults: what the     *)
(* inbox promises about acknowledged, marked and duplicate messages.       *)
(***************************************************************************)
EXTENDS InboxConsumer, TLAPS

Stages == {"idle", "check", "handle", "mark", "ack", "nak"}
States == {"ready", "inflight", "acked", "dead"}
Counts == [Subs -> [Events -> 0..2]]

InboxTypes ==
  /\ conf \in Configs
  /\ broker \in [Subs -> [Msgs -> States]]
  /\ pc \in [Consumers -> Stages]
  /\ msg \in [Consumers -> Msgs \cup {"none"}]
  /\ \A c \in Consumers : pc[c] # "idle" => msg[c] \in Msgs
  /\ settled \in [Consumers -> BOOLEAN]
  /\ marked \in [Consumers -> BOOLEAN]
  /\ handled \in Counts
  /\ starts \in Counts

\* A handler run raises the count of its event and of no other.
LEMMA CountedFact ==
  ASSUME NEW f \in Counts, NEW c \in Consumers, msg[c] \in Msgs
  PROVE  /\ Counted(f, c) \in Counts
         /\ \A s \in Subs, e \in Events :
              Counted(f, c)[s][e] = IF s = SubOf[c] /\ e = Event(c) /\ f[s][e] < 2
                                    THEN f[s][e] + 1 ELSE f[s][e]
  <1>1. SubOf[c] \in Subs /\ Event(c) \in Events
    BY Zenon, InboxAssumption DEF Events, Event
  <1> QED
    BY <1>1 DEF Counted, Counts

\* Moving one message of one subscription leaves the others where they are.
LEMMA BrokerFact ==
  ASSUME InboxTypes, NEW s \in Subs, NEW m \in Msgs, NEW x \in States
  PROVE  /\ [broker EXCEPT ![s][m] = x] \in [Subs -> [Msgs -> States]]
         /\ \A t \in Subs, n \in Msgs :
              [broker EXCEPT ![s][m] = x][t][n] = IF t = s /\ n = m THEN x ELSE broker[t][n]
  BY Zenon DEF InboxTypes

\* An acknowledgement acknowledges the message in hand and no other.
LEMMA AckFact ==
  ASSUME InboxTypes, NEW c \in Consumers, msg[c] \in Msgs, Ack(c)
  PROVE  /\ broker' \in [Subs -> [Msgs -> States]]
         /\ \A s \in Subs, m \in Msgs : broker'[s][m] = "acked" =>
              broker[s][m] = "acked" \/ (s = SubOf[c] /\ m = msg[c])
  <1>1. SubOf[c] \in Subs /\ "acked" \in States
    BY Zenon, InboxAssumption DEF States
  <1>2. broker' = broker \/ broker' = [broker EXCEPT ![SubOf[c]][msg[c]] = "acked"]
    BY Zenon DEF Ack
  <1>3. CASE broker' = broker
    BY Zenon, <1>3 DEF InboxTypes
  <1>4. CASE broker' = [broker EXCEPT ![SubOf[c]][msg[c]] = "acked"]
    <2>1. /\ broker' \in [Subs -> [Msgs -> States]]
          /\ \A t \in Subs, n \in Msgs :
               broker'[t][n] = IF t = SubOf[c] /\ n = msg[c] THEN "acked" ELSE broker[t][n]
      BY <1>1, <1>4, BrokerFact
    <2> QED
      BY Zenon, <2>1
  <1> QED
    BY Zenon, <1>2, <1>3, <1>4

\* A negative acknowledgement acknowledges nothing.
LEMMA NakFact ==
  ASSUME InboxTypes, NEW c \in Consumers, msg[c] \in Msgs, Nak(c)
  PROVE  /\ broker' \in [Subs -> [Msgs -> States]]
         /\ \A s \in Subs, m \in Msgs : broker'[s][m] = "acked" => broker[s][m] = "acked"
  <1>1. SubOf[c] \in Subs
    BY Zenon, InboxAssumption
  <1>2. PICK x \in {"ready", "dead"} :
          broker' = broker \/ broker' = [broker EXCEPT ![SubOf[c]][msg[c]] = x]
    BY Zenon DEF Nak, Return
  <1>3. x \in States /\ x # "acked"
    BY Zenon DEF States
  <1>4. CASE broker' = broker
    BY Zenon, <1>4 DEF InboxTypes
  <1>5. CASE broker' = [broker EXCEPT ![SubOf[c]][msg[c]] = x]
    <2>1. /\ broker' \in [Subs -> [Msgs -> States]]
          /\ \A t \in Subs, n \in Msgs :
               broker'[t][n] = IF t = SubOf[c] /\ n = msg[c] THEN x ELSE broker[t][n]
      BY <1>1, <1>5, <1>3, BrokerFact
    <2> QED
      BY ZenonT(60), <2>1, <1>3
  <1> QED
    BY Zenon, <1>2, <1>4, <1>5

\* Nothing is delivered at the start.
LEMMA TypesInit == Init => InboxTypes
  BY DEF Init, InboxTypes, Counts, Stages, States

\* Every step keeps the types.
LEMMA TypesStep ==
  ASSUME InboxTypes, [Next]_vars
  PROVE  InboxTypes'
  <1>1. ASSUME NEW c \in Consumers, IsProcessed(c) \/ Process(c) \/ MarkProcessed(c)
        PROVE  InboxTypes'
    BY ZenonT(60), <1>1 DEF IsProcessed, Process, MarkProcessed, Goto, InboxTypes, Stages
  <1>2. ASSUME NEW c \in Consumers, next(c)
        PROVE  InboxTypes'
    <2>1. msg[c] \in Msgs
      BY Zenon, <1>2 DEF next, InboxTypes
    <2>2. starts' \in Counts /\ handled' \in Counts
      BY Zenon, <1>2, <2>1, CountedFact DEF next, InboxTypes
    <2>3. broker' \in [Subs -> [Msgs -> States]] /\ settled' \in [Consumers -> BOOLEAN]
      BY ZenonT(60), <1>2, <2>1, AckFact DEF next, AckInside, AckInsideFails, InboxTypes
    <2> QED
      BY Zenon, <1>2, <2>2, <2>3 DEF next, Goto, AfterHandler, InboxTypes, Stages
  <1>3. ASSUME NEW c \in Consumers, nextFails(c)
        PROVE  InboxTypes'
    <2>1. msg[c] \in Msgs
      BY Zenon, <1>3 DEF nextFails, InboxTypes
    <2>2. starts' \in Counts
      BY Zenon, <1>3, <2>1, CountedFact DEF nextFails, InboxTypes
    <2>3. broker' \in [Subs -> [Msgs -> States]] /\ settled' \in [Consumers -> BOOLEAN]
      BY ZenonT(60), <1>3, <2>1, AckFact DEF nextFails, AckInside, AckInsideFails, InboxTypes
    <2> QED
      BY Zenon, <1>3, <2>2, <2>3 DEF nextFails, Goto, InboxTypes, Stages
  <1>4. ASSUME NEW c \in Consumers, Settle(c)
        PROVE  InboxTypes'
    <2>1. msg[c] \in Msgs
      BY Zenon, <1>4 DEF Settle, InboxTypes
    <2>2. broker' \in [Subs -> [Msgs -> States]]
      BY Zenon, <1>4, <2>1, AckFact, NakFact DEF Settle
    <2> QED
      BY Zenon, <1>4, <2>2 DEF Settle, Forget, Goto, InboxTypes, Stages
  <1>5. ASSUME NEW c \in Consumers, Crash(c)
        PROVE  InboxTypes'
    BY Zenon, <1>5 DEF Crash, Forget, Goto, InboxTypes, Stages
  <1>6. ASSUME NEW c \in Consumers, NEW m \in Msgs, Deliver(c, m)
        PROVE  InboxTypes'
    <2>1. SubOf[c] \in Subs /\ "inflight" \in States
      BY Zenon, InboxAssumption DEF States
    <2>2. broker' \in [Subs -> [Msgs -> States]]
      BY ZenonT(60), <1>6, <2>1, BrokerFact DEF Deliver
    <2> QED
      BY <1>6, <2>2 DEF Deliver, Goto, InboxTypes, Stages
  <1>7. ASSUME NEW s \in Subs, NEW m \in Msgs, AckWait(s, m)
        PROVE  InboxTypes'
    BY Zenon, <1>7 DEF AckWait, Return, InboxTypes, States
  <1>8. CASE Cleanup
    BY Zenon, <1>8 DEF Cleanup, InboxTypes
  <1>9. CASE UNCHANGED vars
    BY Zenon, <1>9 DEF vars, InboxTypes
  <1> QED
    BY Zenon, <1>1, <1>2, <1>3, <1>4, <1>5, <1>6, <1>7, <1>8, <1>9 DEF Next, callback

-----------------------------------------------------------------------------

\* The deployment in which the inbox works: its table serves one subscription,
\* and two messages with one id carry the same event.
OneSubscription == \A s, t \in Subs : s = t
OwnIds          == \A m, n \in Msgs : IdOf[m] = IdOf[n] => EventOf[m] = EventOf[n]

\* What stands behind an acknowledgement: a marker, and a consumer that is
\* about to write one or to acknowledge, say that the event was handled.
AckedInv ==
  /\ Kind = "wrap" => \A s \in Subs, m \in Msgs :
       IdOf[m] \in inbox => handled[s][EventOf[m]] > 0
  /\ Kind # "process" => \A c \in Consumers :
       pc[c] \in {"mark", "ack"} => handled[SubOf[c]][Event(c)] > 0
  /\ AckedMeansHandled

\* No step takes back that an event was handled, or changes the set-up.
LEMMA HandledStays ==
  ASSUME InboxTypes, [Next]_vars
  PROVE  /\ conf' = conf
         /\ \A s \in Subs, e \in Events : handled[s][e] > 0 => handled'[s][e] > 0
  <1>1. ASSUME NEW c \in Consumers, next(c)
        PROVE  /\ conf' = conf
               /\ \A s \in Subs, e \in Events : handled[s][e] > 0 => handled'[s][e] > 0
    <2>1. msg[c] \in Msgs /\ handled \in Counts
      BY Zenon, <1>1 DEF next, InboxTypes
    <2>2. \A s \in Subs, e \in Events : handled[s][e] \in 0..2
      BY Zenon, <2>1 DEF Counts
    <2> QED
      BY <1>1, <2>1, <2>2, CountedFact DEF next
  <1>2. CASE \A c \in Consumers : ~next(c)
    <2>1. conf' = conf /\ handled' = handled
      BY ZenonT(60), <1>2 DEF Next, callback, IsProcessed, Process, nextFails, MarkProcessed,
                  Settle, Crash, Deliver, AckWait, Cleanup, vars
    <2> QED
      BY Zenon, <2>1
  <1> QED
    BY Zenon, <1>1, <1>2

\* The event of a message is an event, and a consumer's subscription is one.
LEMMA NamesFact ==
  /\ \A m \in Msgs : EventOf[m] \in Events
  /\ \A c \in Consumers : SubOf[c] \in Subs
  BY Zenon, InboxAssumption DEF Events

\* Every step keeps AckedInv.
LEMMA AckedStep ==
  ASSUME OneSubscription, OwnIds, InboxTypes, AckedInv, [Next]_vars
  PROVE  AckedInv'
  <1> USE NamesFact, HandledStays
  <1>1. ASSUME NEW c \in Consumers, IsProcessed(c)
        PROVE  AckedInv'
    BY <1>1 DEF IsProcessed, Goto, InboxTypes, AckedInv, AckedMeansHandled, Kind, Event, Id
  <1>2. ASSUME NEW c \in Consumers, Process(c)
        PROVE  AckedInv'
    BY Zenon, <1>2 DEF Process, AckedInv, AckedMeansHandled, Kind
  <1>3. ASSUME NEW c \in Consumers, MarkProcessed(c)
        PROVE  AckedInv'
    <2>1. /\ msg[c] \in Msgs /\ pc[c] = "mark"
          /\ inbox' \subseteq inbox \cup {IdOf[msg[c]]}
          /\ UNCHANGED <<conf, broker, msg, handled>>
      BY Zenon, <1>3 DEF MarkProcessed, InboxTypes, Id
    <2>2. Kind = "wrap" => \A s \in Subs, m \in Msgs :
            IdOf[m] \in inbox' => handled[s][EventOf[m]] > 0
      BY <2>1 DEF OneSubscription, OwnIds, AckedInv, Event
    <2>3. Kind # "process" => \A d \in Consumers :
            pc'[d] \in {"mark", "ack"} => handled[SubOf[d]][Event(d)] > 0
      BY Zenon, <1>3, <2>1 DEF MarkProcessed, Goto, InboxTypes, AckedInv
    <2> QED
      BY Zenon, <2>1, <2>2, <2>3 DEF AckedInv, AckedMeansHandled, Kind, Event
  <1>4. ASSUME NEW c \in Consumers, next(c)
        PROVE  AckedInv'
    <2>1. msg[c] \in Msgs /\ handled \in Counts /\ inbox' = inbox /\ msg' = msg
      BY Zenon, <1>4 DEF next, InboxTypes
    <2>2. handled[SubOf[c]][Event(c)] \in 0..2 /\ Event(c) \in Events
      BY Zenon, <2>1 DEF Counts, Event
    <2>3. handled'[SubOf[c]][Event(c)] > 0
      BY <1>4, <2>1, <2>2, CountedFact DEF next
    <2>4. \A s \in Subs, m \in Msgs : broker'[s][m] = "acked" =>
            broker[s][m] = "acked" \/ (s = SubOf[c] /\ m = msg[c])
      BY Zenon, <1>4, <2>1, AckFact DEF next, AckInside, AckInsideFails
    <2>5. \A d \in Consumers \ {c} : pc'[d] = pc[d]
      BY Zenon, <1>4 DEF next, Goto, InboxTypes
    <2>6. \A d \in Consumers : pc[d] \in {"mark", "ack"} => Event(d) \in Events
      BY Zenon DEF InboxTypes, Event
    <2> QED
      BY <2>1, <2>3, <2>4, <2>5, <2>6 DEF AckedInv, AckedMeansHandled, Kind, Event
  <1>5. ASSUME NEW c \in Consumers, nextFails(c)
        PROVE  AckedInv'
    <2>1. msg[c] \in Msgs /\ UNCHANGED <<conf, inbox, msg, handled>>
      BY Zenon, <1>5 DEF nextFails, InboxTypes
    <2>2. \A s \in Subs, m \in Msgs \ Malformed :
            broker'[s][m] = "acked" => broker[s][m] = "acked"
      BY <1>5, <2>1, AckFact DEF nextFails, Undecodable, AckInside, AckInsideFails
    <2>3. \A d \in Consumers : pc'[d] \in {"mark", "ack"} => pc[d] = pc'[d]
      BY Zenon, <1>5 DEF nextFails, Goto, InboxTypes
    <2> QED
      BY <2>1, <2>2, <2>3 DEF AckedInv, AckedMeansHandled, Kind, Event
  <1>6. ASSUME NEW c \in Consumers, Settle(c)
        PROVE  AckedInv'
    <2>1. msg[c] \in Msgs /\ UNCHANGED <<conf, inbox, handled>>
      BY Zenon, <1>6 DEF Settle, InboxTypes
    <2>2. Kind # "process" => \A s \in Subs, m \in Msgs :
            broker'[s][m] = "acked" =>
              broker[s][m] = "acked" \/ handled[s][EventOf[m]] > 0
      BY <1>6, <2>1, AckFact, NakFact DEF Settle, AckedInv, Event
    <2>3. \A d \in Consumers : pc'[d] \in {"mark", "ack"} => pc[d] = pc'[d] /\ msg'[d] = msg[d]
      BY Zenon, <1>6 DEF Settle, Forget, Goto, InboxTypes
    <2> QED
      BY ZenonT(60), <2>1, <2>2, <2>3 DEF AckedInv, AckedMeansHandled, Kind, Event
  <1>7. ASSUME NEW c \in Consumers, Crash(c)
        PROVE  AckedInv'
    BY Zenon, <1>7 DEF Crash, Forget, Goto, InboxTypes, AckedInv, AckedMeansHandled, Kind, Event
  <1>8. ASSUME NEW c \in Consumers, NEW m \in Msgs, Deliver(c, m)
        PROVE  AckedInv'
    <2>1. UNCHANGED <<conf, inbox, handled>>
      BY Zenon, <1>8 DEF Deliver
    <2>2. \A s \in Subs, n \in Msgs : broker'[s][n] = "acked" => broker[s][n] = "acked"
      BY Zenon, <1>8 DEF Deliver, InboxTypes
    <2>3. \A d \in Consumers : pc'[d] \in {"mark", "ack"} => pc[d] = pc'[d] /\ msg'[d] = msg[d]
      BY Zenon, <1>8 DEF Deliver, Goto, InboxTypes
    <2> QED
      BY <2>1, <2>2, <2>3 DEF AckedInv, AckedMeansHandled, Kind, Event
  <1>9. ASSUME NEW s \in Subs, NEW m \in Msgs, AckWait(s, m)
        PROVE  AckedInv'
    <2>1. \A t \in Subs, n \in Msgs : broker'[t][n] = "acked" => broker[t][n] = "acked"
      BY Zenon, <1>9 DEF AckWait, Return, InboxTypes
    <2> QED
      BY Zenon, <1>9, <2>1 DEF AckWait, AckedInv, AckedMeansHandled, Kind, Event
  <1>10. CASE Cleanup
    BY Zenon, <1>10 DEF Cleanup, AckedInv, AckedMeansHandled, Kind, Event
  <1>11. CASE UNCHANGED vars
    BY Zenon, <1>11 DEF vars, AckedInv, AckedMeansHandled, Kind, Event
  <1> QED
    BY Zenon, <1>1, <1>2, <1>3, <1>4, <1>5, <1>6, <1>7, <1>8, <1>9, <1>10, <1>11 DEF Next, callback

\* At least once, for any messages, consumers and faults: behind
\* InboxMiddleware.Wrap and in the typed streams a message is acknowledged only
\* after its event was handled, if ids tell events apart and the inbox table is
\* not shared between subscriptions.
THEOREM AckedMeansHandledAlways ==
  ASSUME OneSubscription, OwnIds
  PROVE  Spec => []AckedMeansHandled
  <1>1. Init => InboxTypes /\ AckedInv
    BY TypesInit DEF Init, AckedInv, AckedMeansHandled
  <1>2. InboxTypes /\ AckedInv /\ [Next]_vars => (InboxTypes /\ AckedInv)'
    BY Zenon, TypesStep, AckedStep
  <1>3. AckedInv => AckedMeansHandled
    BY Zenon DEF AckedInv
  <1> QED
    BY <1>1, <1>2, <1>3, PTL DEF Spec

-----------------------------------------------------------------------------

\* What a marker does for the deliveries that begin after it was written.
MarkedInv ==
  /\ Kind = "typed" => inbox = {}
  /\ \A c \in Consumers : marked[c] /\ pc[c] = "check" => Id(c) \in inbox
  /\ \A c \in Consumers : pc[c] = "idle" => ~marked[c]
  /\ Kind = "typed" => \A c \in Consumers : ~marked[c] /\ pc[c] \notin {"check", "mark"}
  /\ MarkedIsSkipped

\* Every step keeps MarkedInv.
LEMMA MarkedStep ==
  ASSUME InboxTypes, MarkedInv, [Next]_vars
  PROVE  MarkedInv'
  <1>1. ASSUME NEW c \in Consumers, IsProcessed(c) \/ Process(c)
        PROVE  MarkedInv'
    BY <1>1 DEF IsProcessed, Process, Goto, InboxTypes, MarkedInv, MarkedIsSkipped, Kind, Id
  <1>2. ASSUME NEW c \in Consumers, MarkProcessed(c)
        PROVE  MarkedInv'
    <2>1. Kind # "typed" => MarkedInv'
      BY Zenon, <1>2 DEF MarkProcessed, Goto, InboxTypes, MarkedInv, MarkedIsSkipped, Kind, Id
    <2>2. Kind # "typed"
      BY Zenon, <1>2 DEF MarkProcessed, InboxTypes, MarkedInv, MarkedIsSkipped, Kind
    <2> QED
      BY Zenon, <2>1, <2>2
  <1>3. ASSUME NEW c \in Consumers, next(c) \/ nextFails(c)
        PROVE  MarkedInv'
    BY <1>3 DEF next, nextFails, AfterHandler, Goto, InboxTypes, MarkedInv, MarkedIsSkipped, Kind, Id
  <1>4. ASSUME NEW c \in Consumers, Settle(c) \/ Crash(c)
        PROVE  MarkedInv'
    BY <1>4 DEF Settle, Crash, Forget, Goto, InboxTypes, MarkedInv, MarkedIsSkipped, Kind, Id
  <1>5. ASSUME NEW c \in Consumers, NEW m \in Msgs, Deliver(c, m)
        PROVE  MarkedInv'
    BY ZenonT(60), <1>5 DEF Deliver, Goto, InboxTypes, MarkedInv, MarkedIsSkipped, Kind, Id
  <1>6. ASSUME NEW s \in Subs, NEW m \in Msgs, AckWait(s, m)
        PROVE  MarkedInv'
    BY Zenon, <1>6 DEF AckWait, MarkedInv, MarkedIsSkipped, Kind, Id
  <1>7. CASE Cleanup
    BY Zenon, <1>7 DEF Cleanup, MarkedInv, MarkedIsSkipped, Kind, Id
  <1>8. CASE UNCHANGED vars
    BY Zenon, <1>8 DEF vars, MarkedInv, MarkedIsSkipped, Kind, Id
  <1> QED
    BY Zenon, <1>1, <1>2, <1>3, <1>4, <1>5, <1>6, <1>7, <1>8 DEF Next, callback

\* Once the marker is written, later deliveries of the message, and of every
\* message with its id, are deduplicated by Wrap and by Processor.
THEOREM MarkedIsSkippedAlways == Spec => []MarkedIsSkipped
  <1>1. Init => InboxTypes /\ MarkedInv
    BY Zenon, TypesInit DEF Init, MarkedInv, MarkedIsSkipped
  <1>2. InboxTypes /\ MarkedInv /\ [Next]_vars => (InboxTypes /\ MarkedInv)'
    BY Zenon, TypesStep, MarkedStep
  <1>3. MarkedInv => MarkedIsSkipped
    BY Zenon DEF MarkedInv
  <1> QED
    BY <1>1, <1>2, <1>3, PTL DEF Spec

-----------------------------------------------------------------------------

\* Copies of an event have one id, as the copies the outbox relay sends do.
SameIds == \A m, n \in Msgs : EventOf[m] = EventOf[n] => IdOf[m] = IdOf[n]

\* A marker is written before the handler is started, and the one consumer
\* that wrote it starts it.
OnceInv ==
  Kind = "process" /\ ~conf.cleanup =>
    /\ \A s \in Subs, m \in Msgs : starts[s][EventOf[m]] > 0 => IdOf[m] \in inbox
    /\ \A c \in Consumers : pc[c] = "handle" =>
         /\ Id(c) \in inbox
         /\ \A s \in Subs : starts[s][Event(c)] = 0
    /\ \A c, d \in Consumers :
         pc[c] = "handle" /\ pc[d] = "handle" /\ Event(c) = Event(d) => c = d
    /\ HandledOnce

\* Every step keeps OnceInv.
LEMMA OnceStep ==
  ASSUME SameIds, InboxTypes, OnceInv, [Next]_vars
  PROVE  OnceInv'
  <1>0. SUFFICES ASSUME Kind = "process", ~conf.cleanup, conf' = conf
                 PROVE  OnceInv'
    BY Zenon, HandledStays DEF OnceInv, Kind
  <1> USE NamesFact, <1>0
  <1>1. ASSUME NEW c \in Consumers, Process(c)
        PROVE  OnceInv'
    <2>1. /\ msg[c] \in Msgs /\ pc[c] = "check"
          /\ inbox \subseteq inbox' /\ UNCHANGED <<msg, starts>>
          /\ \A d \in Consumers \ {c} : pc'[d] = pc[d]
          /\ pc'[c] = "handle" => IdOf[msg[c]] \notin inbox /\ IdOf[msg[c]] \in inbox'
      BY Zenon, <1>1 DEF Process, Goto, InboxTypes, Id
    <2>2. pc'[c] = "handle" => \A s \in Subs : starts[s][Event(c)] = 0
      BY <2>1 DEF OnceInv, InboxTypes, Counts, Event
    <2>3. \A d \in Consumers : pc'[c] = "handle" /\ pc[d] = "handle" => Event(d) # Event(c)
      BY ZenonT(60), <2>1 DEF SameIds, OnceInv, InboxTypes, Event, Id
    <2> QED
      BY <2>1, <2>2, <2>3 DEF OnceInv, HandledOnce, Kind, Event, Id
  <1>2. ASSUME NEW c \in Consumers, next(c) \/ nextFails(c)
        PROVE  OnceInv'
    <2>1. /\ msg[c] \in Msgs /\ pc[c] = "handle" /\ pc'[c] # "handle"
          /\ UNCHANGED <<inbox, msg>>
          /\ \A d \in Consumers \ {c} : pc'[d] = pc[d]
          /\ starts' = Counted(starts, c) /\ starts \in Counts
      BY Zenon, <1>2 DEF next, nextFails, Undecodable, AfterHandler, Goto, InboxTypes
    <2>2. \A s \in Subs, e \in Events :
            starts'[s][e] = IF s = SubOf[c] /\ e = Event(c) THEN 1 ELSE starts[s][e]
      BY <2>1, CountedFact DEF OnceInv
    <2>3. IdOf[msg[c]] \in inbox
      BY Zenon, <2>1 DEF OnceInv, Id
    <2>4. \A s \in Subs, m \in Msgs : starts'[s][EventOf[m]] > 0 => IdOf[m] \in inbox
      BY <2>1, <2>2, <2>3 DEF OnceInv, SameIds, Event
    <2>5. \A d \in Consumers : pc'[d] = "handle" => Event(d) \in Events /\ Event(d) # Event(c)
      BY ZenonT(60), <2>1 DEF OnceInv, InboxTypes, Event
    <2>6. \A s \in Subs, e \in Events : starts'[s][e] <= 1
      BY <2>2 DEF OnceInv, HandledOnce
    <2> QED
      BY <2>1, <2>2, <2>4, <2>5, <2>6 DEF OnceInv, HandledOnce, Kind, Event, Id
  <1>3. ASSUME NEW c \in Consumers, IsProcessed(c) \/ MarkProcessed(c) \/ Settle(c) \/ Crash(c)
        PROVE  OnceInv'
    <2>1. /\ inbox \subseteq inbox' /\ starts' = starts
          /\ \A d \in Consumers : pc'[d] = "handle" => pc[d] = "handle" /\ msg'[d] = msg[d]
      BY ZenonT(60), <1>3 DEF IsProcessed, MarkProcessed, Settle, Crash, Forget, Goto, InboxTypes, Kind
    <2> QED
      BY <2>1 DEF OnceInv, HandledOnce, Kind, Event, Id
  <1>4. ASSUME NEW c \in Consumers, NEW m \in Msgs, Deliver(c, m)
        PROVE  OnceInv'
    <2>1. /\ UNCHANGED <<inbox, starts>>
          /\ \A d \in Consumers : pc'[d] = "handle" => pc[d] = "handle" /\ msg'[d] = msg[d]
      BY Zenon, <1>4 DEF Deliver, Goto, InboxTypes, Kind
    <2> QED
      BY <2>1 DEF OnceInv, HandledOnce, Kind, Event, Id
  <1>5. ASSUME NEW s \in Subs, NEW m \in Msgs, AckWait(s, m)
        PROVE  OnceInv'
    BY Zenon, <1>5 DEF AckWait, OnceInv, HandledOnce, Kind, Event, Id
  <1>6. CASE Cleanup
    BY Zenon, <1>6 DEF Cleanup
  <1>7. CASE UNCHANGED vars
    BY Zenon, <1>7 DEF vars, OnceInv, HandledOnce, Kind, Event, Id
  <1> QED
    BY Zenon, <1>1, <1>2, <1>3, <1>4, <1>5, <1>6, <1>7 DEF Next, callback

\* At most once: behind Processor, however often the copies of an event are
\* delivered, to however many consumers and subscriptions of one inbox table,
\* its handler is started once, as long as the copies have one id and markers
\* are not cleaned up under them.
THEOREM HandledOnceAlways ==
  ASSUME SameIds
  PROVE  Spec => []HandledOnce
  <1>1. Init => InboxTypes /\ OnceInv
    BY TypesInit, NamesFact DEF Init, OnceInv, HandledOnce
  <1>2. InboxTypes /\ OnceInv /\ [Next]_vars => (InboxTypes /\ OnceInv)'
    BY Zenon, TypesStep, OnceStep
  <1>3. OnceInv => HandledOnce
    BY Zenon DEF OnceInv, HandledOnce
  <1> QED
    BY <1>1, <1>2, <1>3, PTL DEF Spec
=============================================================================
