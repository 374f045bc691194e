--------------------------- MODULE WorkersProofs ---------------------------
(***************************************************************************)
(* For any number of workers, items and faults and any capacities: the     *)
(* AMQP consumer never loses a task, and a drain of the pool, the          *)
(* pipelines, the sender group and the shards is complete.                 *)
(***************************************************************************)
EXTENDS Workers, FiniteSetTheorems, WellFoundedInduction, TLAPS

-----------------------------------------------------------------------------
\* Sequences

LEMMA TailIndex ==
  ASSUME NEW S, NEW s \in Seq(S), s # <<>>
  PROVE  /\ 1 \in DOMAIN s /\ Head(s) = s[1]
         /\ \A i \in DOMAIN Tail(s) : i + 1 \in DOMAIN s /\ i + 1 # 1 /\ Tail(s)[i] = s[i + 1]
         /\ \A i \in DOMAIN s : i = 1 \/ (i - 1 \in DOMAIN Tail(s) /\ Tail(s)[i - 1] = s[i])
         /\ \A i, j \in DOMAIN Tail(s) : i # j => i + 1 # j + 1
<1>1. Len(s) \in Nat /\ DOMAIN s = 1..Len(s) /\ Len(s) # 0
  OBVIOUS
<1>2. Tail(s) \in Seq(S) /\ DOMAIN Tail(s) = 1..(Len(s) - 1) /\ Head(s) = s[1]
      /\ \A i \in 1..(Len(s) - 1) : Tail(s)[i] = s[i + 1]
  OBVIOUS
<1>3. ASSUME NEW i \in DOMAIN s, i # 1
      PROVE  i - 1 \in DOMAIN Tail(s) /\ Tail(s)[i - 1] = s[i]
  <2>1. i - 1 \in 1..(Len(s) - 1) /\ (i - 1) + 1 = i
    BY <1>1, <1>3
  <2> QED BY Zenon, <1>2, <2>1
<1>4. \A i \in DOMAIN Tail(s) : i + 1 \in DOMAIN s /\ i + 1 # 1
  BY <1>1, <1>2
<1>5. \A i, j \in DOMAIN Tail(s) : i # j => i + 1 # j + 1
  BY <1>1, <1>2
<1>6. 1 \in DOMAIN s
  BY <1>1
<1> QED BY Zenon, <1>2, <1>3, <1>4, <1>5, <1>6

-----------------------------------------------------------------------------
\* The AMQP consumer

Deliveries == Items \X Nat
Brokers    == [ready : SUBSET Items, unacked : SUBSET Items, acked : SUBSET Items,
               discarded : SUBSET Items, epoch : Nat]
Got(w)     == worker[w].pc = "got"

AmqpType ==
  /\ conf \in Configs
  /\ chan \in [{1} -> [buf : Seq(Deliveries), closed : BOOLEAN]]
  /\ worker \in [W -> [pc : {"recv", "got", "exit"}, item : Deliveries \cup {None}]]
  /\ \A w \in W : Got(w) => worker[w].item \in Deliveries
  /\ broker \in Brokers
  /\ handled \in [Items -> Nat]
  /\ todo \subseteq Items

\* A delivery of the current channel is of an unacknowledged task.
Fresh(d) == d[2] <= broker.epoch /\ (d[2] = broker.epoch => d[1] \in broker.unacked)

AllFresh ==
  /\ \A i \in DOMAIN chan[1].buf : Fresh(chan[1].buf[i])
  /\ \A w \in W : Got(w) => Fresh(worker[w].item)

\* It is at one place only,
Single ==
  /\ \A i, j \in DOMAIN chan[1].buf :
       i # j /\ current(chan[1].buf[i]) => chan[1].buf[i] # chan[1].buf[j]
  /\ \A v, w \in W : v # w /\ Got(v) /\ Got(w) /\ current(worker[v].item) =>
                       worker[v].item # worker[w].item
  /\ \A w \in W, i \in DOMAIN chan[1].buf :
       Got(w) /\ current(worker[w].item) => worker[w].item # chan[1].buf[i]

\* and every unacknowledged task has one.
Delivered ==
  \A x \in broker.unacked :
    \/ \E i \in DOMAIN chan[1].buf : chan[1].buf[i] = <<x, broker.epoch>>
    \/ \E w \in W : Got(w) /\ worker[w].item = <<x, broker.epoch>>

Closing ==
  /\ returned => chan[1].closed
  /\ chan[1].closed => broker.unacked = {}

\* A task is at one place only in the queue.
Kept ==
  LET settled == broker.acked \cup broker.discarded IN
  /\ broker.ready \cap (broker.unacked \cup settled) = {}
  /\ broker.unacked \cap settled = {}
  /\ broker.acked \cap broker.discarded = {}
  /\ todo \cap (broker.ready \cup broker.unacked \cup settled) = {}
  /\ Items \subseteq todo \cup lost \cup broker.ready \cup broker.unacked \cup settled
  /\ \A x \in broker.acked : handled[x] > 0
  /\ broker.discarded \subseteq conf.malformed

AmqpInv ==
  kind({"amqp"}) => AmqpType /\ AllFresh /\ Single /\ Delivered /\ Closing /\ Kept

LEMMA AmqpInit == Init => AmqpInv
<1> SUFFICES ASSUME Init, conf.kind = "amqp"
             PROVE  AmqpType /\ AllFresh /\ Single /\ Delivered /\ Closing /\ Kept
  BY Zenon DEF AmqpInv, kind
<1>1. /\ chan = [i \in {1} |-> [buf |-> <<>>, closed |-> FALSE]]
      /\ worker = [w \in W |-> [pc |-> "recv", item |-> None]]
      /\ todo = Items /\ returned = FALSE /\ lost = {} /\ handled = [x \in Items |-> 0]
      /\ broker = [ready |-> {}, unacked |-> {}, acked |-> {}, discarded |-> {}, epoch |-> 1]
      /\ conf \in Configs
  <2>1. shared = TRUE /\ kind({"senders", "sharded"}) = FALSE
    BY DEF shared, kind
  <2> QED BY Zenon, <2>1 DEF Init, Channels, holds
<1>2. AmqpType
  BY <1>1 DEF AmqpType, Got, Brokers
<1>3. AllFresh /\ Single /\ Delivered /\ Closing
  BY <1>1 DEF AllFresh, Single, Delivered, Closing, Got
<1>4. Kept
  BY Zenon, <1>1 DEF Kept
<1> QED BY Zenon, <1>2, <1>3, <1>4

\* A step that leaves the channel, the workers and the broker alone.
LEMMA AmqpFrame ==
  ASSUME AmqpInv, UNCHANGED <<conf, chan, worker, broker, handled, todo, lost, returned>>
  PROVE  AmqpInv'
<1>1. AmqpType => AmqpType'
  BY Zenon DEF AmqpType, Deliveries, Brokers, Items, W, Got, None
<1>2. AllFresh => AllFresh'
  BY Zenon DEF AllFresh, Fresh, W, Got
<1>3. Single => Single'
  BY DEF Single, current, W, Got
<1>4. Delivered => Delivered'
  BY Zenon DEF Delivered, W, Got
<1>5. Closing => Closing'
  BY Zenon DEF Closing
<1>6. Kept => Kept'
  BY Zenon DEF Kept, Items
<1> QED BY Zenon, <1>1, <1>2, <1>3, <1>4, <1>5, <1>6 DEF AmqpInv, kind

LEMMA PublishStep ==
  ASSUME AmqpInv, Publish
  PROVE  AmqpInv'
<1>1. /\ UNCHANGED <<conf, chan, worker, handled, returned>>
      /\ AmqpType /\ AllFresh /\ Single /\ Delivered /\ Closing /\ Kept
  BY Zenon DEF Publish, AmqpInv
<1>2. PICK x \in todo : /\ todo' = todo \ {x}
                        /\ \/ broker' = [broker EXCEPT !.ready = @ \cup {x}] /\ lost' = lost
                           \/ lost' = lost \cup {x} /\ broker' = broker
  BY Zenon DEF Publish
<1>3. /\ broker' \in Brokers'
      /\ broker'.unacked = broker.unacked /\ broker'.acked = broker.acked
      /\ broker'.discarded = broker.discarded /\ broker'.epoch = broker.epoch
      /\ \/ broker'.ready = broker.ready \cup {x} /\ lost' = lost
         \/ broker'.ready = broker.ready /\ lost' = lost \cup {x}
  BY <1>1, <1>2 DEF AmqpType, Brokers, Items
<1>4. AmqpType'
  BY Zenon, <1>1, <1>2, <1>3 DEF AmqpType, Deliveries, Brokers, Items, W, Got, None
<1>5. AllFresh' /\ Single'
  BY <1>1, <1>3 DEF AllFresh, Fresh, Single, current, W, Got
<1>7. Delivered' /\ Closing'
  BY Zenon, <1>1, <1>3 DEF Delivered, Closing, W, Got
<1>6. Kept'
  BY <1>1, <1>2, <1>3 DEF Kept, Items
<1> QED BY Zenon, <1>4, <1>5, <1>6, <1>7 DEF AmqpInv

\* A channel that goes gives its deliveries back.
LEMMA RequeuedFact ==
  ASSUME NEW b \in Brokers
  PROVE  /\ Requeued(b) \in Brokers
         /\ Requeued(b).unacked = {} /\ Requeued(b).acked = b.acked
         /\ Requeued(b).discarded = b.discarded /\ Requeued(b).epoch = b.epoch + 1
         /\ Requeued(b).ready = b.ready \cup b.unacked
<1>1. DOMAIN b = {"ready", "unacked", "acked", "discarded", "epoch"} /\ DOMAIN Requeued(b) = DOMAIN b
  BY Zenon DEF Brokers, Requeued
<1>2. /\ Requeued(b).unacked = {} /\ Requeued(b).acked = b.acked
      /\ Requeued(b).discarded = b.discarded /\ Requeued(b).epoch = b.epoch + 1
      /\ Requeued(b).ready = b.ready \cup b.unacked
  BY Zenon, <1>1 DEF Requeued
<1>3. b.ready \subseteq Items /\ b.unacked \subseteq Items /\ b.acked \subseteq Items
      /\ b.discarded \subseteq Items /\ b.epoch \in Nat
  BY Zenon DEF Brokers
<1>4. Requeued(b) \in Brokers
  <2>1. b.ready \cup b.unacked \in SUBSET Items /\ {} \in SUBSET Items /\ b.epoch + 1 \in Nat
    BY <1>3
  <2>2. [b EXCEPT !.ready = b.ready \cup b.unacked] \in Brokers
    BY Zenon, <2>1 DEF Brokers
  <2>3. \A a \in Brokers : [a EXCEPT !.unacked = {}] \in Brokers
    BY Zenon, <2>1 DEF Brokers
  <2>4. \A a \in Brokers : [a EXCEPT !.epoch = b.epoch + 1] \in Brokers
    BY Zenon, <2>1 DEF Brokers
  <2>5. Requeued(b) = [[[b EXCEPT !.ready = b.ready \cup b.unacked] EXCEPT !.unacked = {}]
                          EXCEPT !.epoch = b.epoch + 1]
    BY Zenon, <1>1 DEF Requeued
  <2> QED BY Zenon, <2>2, <2>3, <2>4, <2>5
<1> QED BY Zenon, <1>2, <1>4

LEMMA DropStep ==
  ASSUME AmqpInv, DropConnection
  PROVE  AmqpInv'
<1>1. /\ UNCHANGED <<conf, worker, handled, todo, lost, returned>>
      /\ AmqpType /\ AllFresh /\ Single /\ Delivered /\ Closing /\ Kept
      /\ chan' = [chan EXCEPT ![1].closed = TRUE]
      /\ broker' = Requeued(broker)
  BY Zenon DEF DropConnection, AmqpInv
<1>2. chan' \in [{1} -> [buf : Seq(Deliveries), closed : BOOLEAN]]
      /\ chan'[1].buf = chan[1].buf /\ chan'[1].closed = TRUE
  BY Zenon, <1>1 DEF AmqpType
<1>3. /\ broker' \in Brokers'
      /\ broker'.unacked = {} /\ broker'.acked = broker.acked
      /\ broker'.discarded = broker.discarded /\ broker'.epoch = broker.epoch + 1
      /\ broker'.ready = broker.ready \cup broker.unacked
  BY Zenon, <1>1, RequeuedFact DEF AmqpType, Brokers, Items
<1>4. AmqpType'
  BY Zenon, <1>1, <1>2, <1>3 DEF AmqpType, Deliveries, Brokers, Items, W, Got, None
<1>5. /\ \A i \in DOMAIN chan[1].buf : chan[1].buf[i][2] \in Nat /\ chan[1].buf[i][2] <= broker.epoch
      /\ \A w \in W : Got(w) => worker[w].item[2] \in Nat /\ worker[w].item[2] <= broker.epoch
      /\ broker.epoch \in Nat
  <2>1. chan[1].buf \in Seq(Deliveries) /\ broker.epoch \in Nat
    BY Zenon, <1>1 DEF AmqpType, Brokers
  <2>2. \A d \in Deliveries : d[2] \in Nat
    BY Zenon DEF Deliveries
  <2>3. \A i \in DOMAIN chan[1].buf : chan[1].buf[i] \in Deliveries
    BY <2>1
  <2>4. \A w \in W : Got(w) => worker[w].item \in Deliveries
    BY Zenon, <1>1 DEF AmqpType
  <2> QED BY Zenon, <1>1, <2>1, <2>2, <2>3, <2>4 DEF AllFresh, Fresh
<1>6. /\ \A i \in DOMAIN chan[1].buf : /\ chan[1].buf[i][2] <= broker.epoch + 1
                                       /\ chan[1].buf[i][2] # broker.epoch + 1
      /\ \A w \in W : Got(w) => /\ worker[w].item[2] <= broker.epoch + 1
                                /\ worker[w].item[2] # broker.epoch + 1
  BY <1>5
<1>7. AllFresh' /\ Single'
  BY <1>1, <1>2, <1>3, <1>6 DEF AllFresh, Fresh, Single, current, W, Got
<1>8. Delivered' /\ Closing'
  BY Zenon, <1>1, <1>2, <1>3 DEF Delivered, Closing
<1>9. Kept'
  BY Zenon, <1>1, <1>3 DEF Kept, Items
<1> QED BY Zenon, <1>4, <1>7, <1>8, <1>9 DEF AmqpInv

\* Where the elements of an extended sequence are.
LEMMA AppendPlaces ==
  ASSUME NEW S, NEW s \in Seq(S), NEW e \in S
  PROVE  /\ \A i \in DOMAIN Append(s, e) : \/ i \in DOMAIN s /\ Append(s, e)[i] = s[i]
                                           \/ i = Len(s) + 1 /\ Append(s, e)[i] = e
         /\ \A i \in DOMAIN s : i \in DOMAIN Append(s, e) /\ Append(s, e)[i] = s[i]
         /\ Len(s) + 1 \in DOMAIN Append(s, e) /\ Append(s, e)[Len(s) + 1] = e
  OBVIOUS

\* A task goes out on the current channel.
LEMMA DeliverStep ==
  ASSUME AmqpInv, Deliver
  PROVE  AmqpInv'
<1>1. /\ UNCHANGED <<conf, worker, handled, todo, lost, returned>>
      /\ AmqpType /\ AllFresh /\ Single /\ Delivered /\ Closing /\ Kept
      /\ chan[1].closed = FALSE
  <2>1. AmqpType /\ ~chan[1].closed
    BY Zenon DEF Deliver, AmqpInv, open
  <2>2. chan[1].closed \in BOOLEAN
    BY Zenon, <2>1 DEF AmqpType
  <2> QED BY Zenon, <2>1, <2>2 DEF Deliver, AmqpInv
<1> DEFINE buf == chan[1].buf
<1>2. PICK x \in broker.ready :
        /\ broker' = [broker EXCEPT !.ready = @ \ {x}, !.unacked = @ \cup {x}]
        /\ Put(1, <<x, broker.epoch>>)
  BY Zenon DEF Deliver
<1> DEFINE d == <<x, broker.epoch>>
<1>3. /\ broker' \in Brokers'
      /\ broker'.unacked = broker.unacked \cup {x} /\ broker'.acked = broker.acked
      /\ broker'.discarded = broker.discarded /\ broker'.epoch = broker.epoch
      /\ broker'.ready = broker.ready \ {x}
  BY ZenonT(60), <1>1, <1>2 DEF AmqpType, Brokers, Items
<1>4. d \in Deliveries /\ x \in Items /\ broker.epoch \in Nat /\ buf \in Seq(Deliveries)
  BY Zenon, <1>1 DEF AmqpType, Brokers, Deliveries
<1>5. /\ chan' \in [{1} -> [buf : Seq(Deliveries), closed : BOOLEAN]]
      /\ chan'[1].buf = Append(buf, d) /\ chan'[1].closed = FALSE
  <2>1. Append(buf, d) \in Seq(Deliveries)
    BY <1>4
  <2> QED BY Zenon, <1>1, <1>2, <2>1 DEF AmqpType, Put
<1>6. AmqpType'
  BY Zenon, <1>1, <1>3, <1>5 DEF AmqpType, Deliveries, Brokers, Items, W, Got, None
<1>7. x \notin broker.unacked
  BY Zenon, <1>1 DEF Kept
<1> HIDE DEF buf, d
<1>8. /\ \A i \in DOMAIN Append(buf, d) : \/ i \in DOMAIN buf /\ Append(buf, d)[i] = buf[i]
                                          \/ i = Len(buf) + 1 /\ Append(buf, d)[i] = d
      /\ \A i \in DOMAIN buf : i \in DOMAIN Append(buf, d) /\ Append(buf, d)[i] = buf[i]
      /\ Len(buf) + 1 \in DOMAIN Append(buf, d) /\ Append(buf, d)[Len(buf) + 1] = d
  BY Zenon, <1>4, AppendPlaces
<1>9. /\ \A i \in DOMAIN buf : buf[i] # d
      /\ \A w \in W : Got(w) => worker[w].item # d
  BY <1>1, <1>7 DEF AllFresh, Fresh, buf, d
<1>10. AllFresh'
  <2>1. broker.epoch <= broker.epoch
    BY <1>4
  <2>2. d[1] = x /\ d[2] = broker.epoch
    BY Zenon DEF d
  <2>3. \A i \in DOMAIN chan'[1].buf : Fresh(chan[1].buf[i])'
    BY <1>1, <1>3, <1>5, <1>8, <2>1, <2>2 DEF AllFresh, Fresh, buf
  <2>4. \A w \in W : Got(w) => Fresh(worker[w].item)'
    BY Zenon, <1>1, <1>3 DEF AllFresh, Fresh
  <2> QED BY Zenon, <1>1, <2>3, <2>4 DEF AllFresh, W, Got
<1>11. Single'
  <2>1. ASSUME NEW i \in DOMAIN chan'[1].buf, NEW j \in DOMAIN chan'[1].buf, i # j,
               current(chan[1].buf[i])'
        PROVE  chan'[1].buf[i] # chan'[1].buf[j]
    <3>1. /\ \/ i \in DOMAIN buf /\ chan'[1].buf[i] = buf[i]
             \/ i = Len(buf) + 1 /\ chan'[1].buf[i] = d
          /\ \/ j \in DOMAIN buf /\ chan'[1].buf[j] = buf[j]
             \/ j = Len(buf) + 1 /\ chan'[1].buf[j] = d
      BY Zenon, <1>5, <1>8
    <3>2. chan'[1].buf[i][2] = broker.epoch
      BY Zenon, <1>3, <2>1 DEF current
    <3>3. CASE i \in DOMAIN buf /\ chan'[1].buf[i] = buf[i] /\ j \in DOMAIN buf /\ chan'[1].buf[j] = buf[j]
      BY Zenon, <1>1, <2>1, <3>2, <3>3 DEF Single, current, buf
    <3> QED BY Zenon, <1>9, <2>1, <3>1, <3>3
  <2>2. \A v, w \in W : v # w /\ Got(v)' /\ Got(w)' /\ current(worker[v].item)' =>
                           worker'[v].item # worker'[w].item
    BY <1>1, <1>3 DEF Single, current, Got
  <2>3. ASSUME NEW w \in W, NEW i \in DOMAIN chan'[1].buf, Got(w)', current(worker[w].item)'
        PROVE  worker'[w].item # chan'[1].buf[i]
    <3>1. \/ i \in DOMAIN buf /\ chan'[1].buf[i] = buf[i]
          \/ i = Len(buf) + 1 /\ chan'[1].buf[i] = d
      BY Zenon, <1>5, <1>8
    <3>2. Got(w) /\ worker'[w].item = worker[w].item /\ current(worker[w].item)
      BY Zenon, <1>1, <1>3, <2>3 DEF Got, current
    <3> QED BY Zenon, <1>1, <1>9, <3>1, <3>2 DEF Single, buf
  <2> QED BY ZenonT(60), <1>1, <2>1, <2>2, <2>3 DEF Single, W
<1>12. Delivered'
  <2> SUFFICES ASSUME NEW y \in broker'.unacked
               PROVE  \/ \E i \in DOMAIN chan'[1].buf : chan'[1].buf[i] = <<y, broker'.epoch>>
                      \/ \E w \in W : Got(w) /\ worker[w].item = <<y, broker'.epoch>>
    BY Zenon, <1>1 DEF Delivered, W, Got
  <2>1. CASE y = x
    BY Zenon, <1>3, <1>5, <1>8, <2>1 DEF d
  <2>2. CASE y \in broker.unacked
    <3>1. CASE \E w \in W : Got(w) /\ worker[w].item = <<y, broker.epoch>>
      BY Zenon, <1>3, <3>1
    <3>2. CASE \E i \in DOMAIN buf : buf[i] = <<y, broker.epoch>>
      <4>1. PICK i \in DOMAIN buf : buf[i] = <<y, broker.epoch>>
        BY Zenon, <3>2
      <4>2. i \in DOMAIN chan'[1].buf /\ chan'[1].buf[i] = <<y, broker'.epoch>>
        BY Zenon, <1>3, <1>5, <1>8, <4>1
      <4> QED BY Zenon, <4>2
    <3> QED BY Zenon, <1>1, <2>2, <3>1, <3>2 DEF Delivered, buf
  <2> QED BY Zenon, <1>3, <2>1, <2>2
<1>13. Closing'
  BY Zenon, <1>1, <1>5 DEF Closing
<1>14. Kept'
  BY <1>1, <1>3, <1>4 DEF Kept, Items
<1> QED BY Zenon, <1>6, <1>10, <1>11, <1>12, <1>13, <1>14 DEF AmqpInv

\* Start returns, and is called again.
LEMMA StartStep ==
  ASSUME AmqpInv, StartReturns \/ StartAgain
  PROVE  AmqpInv'
<1>1. /\ UNCHANGED <<conf, handled, todo, lost>>
      /\ AmqpType /\ AllFresh /\ Single /\ Delivered /\ Closing /\ Kept
  BY Zenon DEF StartReturns, StartAgain, AmqpInv
<1>2. \A w \in W : worker'[w].pc # "got"
  BY DEF StartReturns, StartAgain, Exited, holds
<1>3. worker' \in [W -> [pc : {"recv", "got", "exit"}, item : Deliveries \cup {None}]]
  BY <1>1 DEF StartReturns, StartAgain, holds, AmqpType
<1>5. /\ chan' \in [{1} -> [buf : Seq(Deliveries), closed : BOOLEAN]]
      /\ chan'[1].buf = <<>>
      /\ chan'[1].closed = TRUE \/ returned' = FALSE
  <2>1. <<>> \in Seq(Deliveries)
    OBVIOUS
  <2>2. chan \in [{1} -> [buf : Seq(Deliveries), closed : BOOLEAN]]
    BY Zenon, <1>1 DEF AmqpType
  <2>3. CASE StartReturns
    <3>1. chan' = [chan EXCEPT ![1] = [buf |-> <<>>, closed |-> TRUE]]
      BY Zenon, <2>3 DEF StartReturns
    <3> QED BY Zenon, <2>1, <2>2, <3>1
  <2>4. CASE StartAgain
    <3>1. chan' = [chan EXCEPT ![1] = [buf |-> <<>>, closed |-> FALSE]] /\ returned' = FALSE
      BY Zenon, <2>4 DEF StartAgain
    <3> QED BY Zenon, <2>1, <2>2, <3>1
  <2> QED BY Zenon, <2>3, <2>4
<1>6. /\ broker' \in Brokers /\ broker'.unacked = {} /\ broker'.acked = broker.acked
      /\ broker'.discarded = broker.discarded
      /\ broker'.ready = broker.ready \cup broker.unacked
  <2>1. CASE broker' = Requeued(broker)
    BY Zenon, <1>1, <2>1, RequeuedFact DEF AmqpType
  <2>2. CASE broker' # Requeued(broker)
    <3>1. broker' = broker /\ chan[1].closed
      BY Zenon, <1>1, <2>2 DEF StartReturns, StartAgain, Closing, open
    <3> QED BY Zenon, <1>1, <3>1 DEF AmqpType, Closing, Brokers
  <2> QED BY Zenon, <2>1, <2>2
<1>7. AmqpType'
  BY Zenon, <1>1, <1>2, <1>3, <1>5, <1>6 DEF AmqpType, Deliveries, Brokers, Items, W, Got, None
<1>8. AllFresh' /\ Single'
  BY <1>1, <1>2, <1>5 DEF AllFresh, Single, W, Got
<1>9. Delivered' /\ Closing'
  <2>1. returned' => chan'[1].closed
    BY Zenon, <1>5
  <2> QED BY Zenon, <1>6, <2>1 DEF Delivered, Closing
<1>10. Kept'
  BY Zenon, <1>1, <1>6 DEF Kept, Items
<1> QED BY Zenon, <1>7, <1>8, <1>9, <1>10 DEF AmqpInv

\* A worker takes a delivery, or leaves.
LEMMA WorkStep ==
  ASSUME AmqpInv, NEW w \in W, Work(w)
  PROVE  AmqpInv'
<1>1. /\ UNCHANGED <<conf, broker, handled, todo, lost, returned>>
      /\ AmqpType /\ AllFresh /\ Single /\ Delivered /\ Closing /\ Kept
      /\ worker[w].pc = "recv"
  BY Zenon DEF Work, AmqpInv
<1> DEFINE buf == chan[1].buf
<1>2. CASE chan' = chan /\ worker' = [worker EXCEPT ![w] = [pc |-> "exit", item |-> None]]
  <2>1. \A v \in W : IF v = w THEN worker'[v].pc = "exit" ELSE worker'[v] = worker[v]
    BY Zenon, <1>1, <1>2 DEF AmqpType
  <2>2. worker' \in [W -> [pc : {"recv", "got", "exit"}, item : Deliveries \cup {None}]]
    BY Zenon, <1>1, <1>2 DEF AmqpType
  <2>3. \A v \in W : (Got(v)' <=> Got(v)) /\ (Got(v) => worker'[v].item = worker[v].item)
    BY Zenon, <1>1, <2>1 DEF Got
  <2>4. AmqpType'
    BY ZenonT(60), <1>1, <1>2, <2>2, <2>3 DEF AmqpType, Deliveries, Brokers, Items, W, None
  <2>5. AllFresh' /\ Single'
    BY <1>1, <1>2, <2>3 DEF AllFresh, Fresh, Single, current, W
  <2>6. Delivered' /\ Closing'
    BY ZenonT(60), <1>1, <1>2, <2>3 DEF Delivered, Closing, W
  <2>7. Kept'
    BY Zenon, <1>1 DEF Kept, Items
  <2> QED BY Zenon, <2>4, <2>5, <2>6, <2>7 DEF AmqpInv
<1>3. CASE /\ buf # <<>>
           /\ worker' = [worker EXCEPT ![w] = [pc |-> "got", item |-> Head(buf)]]
           /\ chan' = [chan EXCEPT ![1].buf = Tail(buf)]
  <2>1. buf \in Seq(Deliveries) /\ Head(buf) \in Deliveries /\ Tail(buf) \in Seq(Deliveries)
    BY <1>1, <1>3 DEF AmqpType
  <2>2. /\ 1 \in DOMAIN buf /\ Head(buf) = buf[1]
        /\ \A i \in DOMAIN Tail(buf) : i + 1 \in DOMAIN buf /\ i + 1 # 1 /\ Tail(buf)[i] = buf[i + 1]
        /\ \A i \in DOMAIN buf : i = 1 \/ (i - 1 \in DOMAIN Tail(buf) /\ Tail(buf)[i - 1] = buf[i])
        /\ \A i, j \in DOMAIN Tail(buf) : i # j => i + 1 # j + 1
    BY Zenon, <1>3, <2>1, TailIndex
  <2>3. /\ worker' \in [W -> [pc : {"recv", "got", "exit"}, item : Deliveries \cup {None}]]
        /\ \A v \in W : IF v = w THEN Got(v)' /\ worker'[v].item = Head(buf)
                                   ELSE (Got(v)' <=> Got(v)) /\ worker'[v].item = worker[v].item
    BY Zenon, <1>1, <1>3, <2>1 DEF AmqpType, Got
  <2>4. /\ chan' \in [{1} -> [buf : Seq(Deliveries), closed : BOOLEAN]]
        /\ chan'[1].buf = Tail(buf) /\ chan'[1].closed = chan[1].closed
    BY Zenon, <1>1, <1>3, <2>1 DEF AmqpType
  <2> HIDE DEF buf
  <2>5. AmqpType'
    BY Zenon, <1>1, <2>1, <2>3, <2>4 DEF AmqpType, Deliveries, Brokers, Items, W, None
  <2>6. AllFresh'
    <3>1. \A i \in DOMAIN Tail(buf) : Fresh(Tail(buf)[i])
      BY Zenon, <1>1, <2>2 DEF AllFresh, buf
    <3>2. \A v \in W : Got(v)' => Fresh(worker'[v].item)
      BY ZenonT(60), <1>1, <2>2, <2>3 DEF AllFresh, buf
    <3> QED BY Zenon, <1>1, <2>4, <3>1, <3>2 DEF AllFresh, Fresh, W
  <2>7. Single'
    <3>1. \A i, j \in DOMAIN Tail(buf) : i # j /\ current(Tail(buf)[i]) => Tail(buf)[i] # Tail(buf)[j]
      BY <1>1, <2>2 DEF Single, buf
    <3>2. \A u, v \in W : u # v /\ Got(u)' /\ Got(v)' /\ current(worker'[u].item) =>
                             worker'[u].item # worker'[v].item
      BY <1>1, <2>2, <2>3 DEF Single, current, buf
    <3>3. \A v \in W, i \in DOMAIN Tail(buf) :
            Got(v)' /\ current(worker'[v].item) => worker'[v].item # Tail(buf)[i]
      BY <1>1, <2>2, <2>3 DEF Single, buf
    <3> QED BY <1>1, <2>4, <3>1, <3>2, <3>3 DEF Single, current, W
  <2>8. Delivered'
    <3> SUFFICES ASSUME NEW y \in broker.unacked
                 PROVE  \/ \E i \in DOMAIN Tail(buf) : Tail(buf)[i] = <<y, broker.epoch>>
                        \/ \E v \in W : Got(v)' /\ worker'[v].item = <<y, broker.epoch>>
      BY Zenon, <1>1, <2>4 DEF Delivered, W
    <3>1. CASE \E v \in W : Got(v) /\ worker[v].item = <<y, broker.epoch>>
      BY Zenon, <1>1, <2>3, <3>1 DEF Got
    <3>2. CASE \E i \in DOMAIN buf : buf[i] = <<y, broker.epoch>>
      BY ZenonT(60), <2>2, <2>3, <3>2
    <3> QED BY Zenon, <1>1, <3>1, <3>2 DEF Delivered, buf
  <2>9. Closing'
    BY Zenon, <1>1, <2>4 DEF Closing
  <2>10. Kept'
    BY Zenon, <1>1 DEF Kept, Items
  <2> QED BY Zenon, <2>5, <2>6, <2>7, <2>8, <2>9, <2>10 DEF AmqpInv
<1> QED BY Zenon, <1>2, <1>3 DEF Work, Moves, holds

\* A delivery of a channel that is gone cannot be settled any more; one of the
\* current channel moves its task.
LEMMA SettleFact ==
  ASSUME broker \in Brokers, NEW d \in Deliveries,
         NEW to \in {"ack", "discard", "requeue"}, Settle(d, to), UNCHANGED conf
  PROVE  /\ broker' \in Brokers /\ broker'.epoch = broker.epoch
         /\ ~current(d) => broker' = broker
         /\ current(d) =>
              /\ broker'.unacked = broker.unacked \ {d[1]}
              /\ broker'.ready = IF to = "requeue" THEN broker.ready \cup {d[1]} ELSE broker.ready
              /\ broker'.acked = IF to = "ack" THEN broker.acked \cup {d[1]} ELSE broker.acked
              /\ broker'.discarded = IF to = "discard" THEN broker.discarded \cup {d[1]}
                                                       ELSE broker.discarded
<1>1. d[1] \in Items
  BY Zenon DEF Deliveries
<1>2. CASE ~current(d)
  BY Zenon, <1>2 DEF Settle, Brokers
<1>3. CASE current(d) /\ to = "ack"
  <2>1. broker' = [broker EXCEPT !.unacked = @ \ {d[1]}, !.acked = @ \cup {d[1]}]
    BY Zenon, <1>3 DEF Settle
  <2> QED BY Zenon, <1>1, <1>3, <2>1 DEF Brokers
<1>4. CASE current(d) /\ to = "discard"
  <2>1. broker' = [broker EXCEPT !.unacked = @ \ {d[1]}, !.discarded = @ \cup {d[1]}]
    BY Zenon, <1>4 DEF Settle
  <2> QED BY Zenon, <1>1, <1>4, <2>1 DEF Brokers
<1>5. CASE current(d) /\ to = "requeue"
  <2>1. broker' = [broker EXCEPT !.unacked = @ \ {d[1]}, !.ready = @ \cup {d[1]}]
    BY Zenon, <1>5 DEF Settle
  <2> QED BY Zenon, <1>1, <1>5, <2>1 DEF Brokers
<1> QED BY Zenon, <1>2, <1>3, <1>4, <1>5

\* A worker handles and settles its delivery.
LEMMA ProcessStep ==
  ASSUME AmqpInv, NEW w \in W, process(w)
  PROVE  AmqpInv'
<1>1. /\ UNCHANGED <<conf, chan, todo, lost, returned>>
      /\ AmqpType /\ AllFresh /\ Single /\ Delivered /\ Closing /\ Kept
      /\ Got(w)
      /\ worker' = [worker EXCEPT ![w] = [pc |-> "recv", item |-> None]]
  BY Zenon DEF process, AmqpInv, Moves, holds, Got
<1>2. PICK d \in Deliveries : d = worker[w].item
  BY Zenon, <1>1 DEF AmqpType
<1>3. PICK to \in {"ack", "discard", "requeue"} :
        /\ Settle(d, to)
        /\ to = "discard" => d[1] \in conf.malformed
        /\ to = "ack" => Handled(d[1])
        /\ to # "ack" => handled' = handled
  BY Zenon, <1>2 DEF process
<1>4. d[1] \in Items /\ d[2] \in Nat /\ d = <<d[1], d[2]>> /\ broker.epoch \in Nat
  BY <1>1 DEF Deliveries, AmqpType, Brokers
<1>5. /\ handled' \in [Items -> Nat]
      /\ \A x \in Items : handled[x] > 0 => handled'[x] > 0
      /\ to = "ack" => handled'[d[1]] > 0
  <2>0. handled \in [Items -> Nat]
    BY Zenon, <1>1 DEF AmqpType
  <2>1. CASE to = "ack"
    <3>1. handled' = [handled EXCEPT ![d[1]] = handled[d[1]] + 1]
      BY Zenon, <1>3, <2>1 DEF Handled
    <3> QED BY <1>4, <2>0, <3>1
  <2>2. CASE to # "ack"
    BY Zenon, <1>3, <2>0, <2>2
  <2> QED BY Zenon, <2>1, <2>2
<1>6. /\ broker' \in Brokers /\ broker'.epoch = broker.epoch
      /\ ~current(d) => broker' = broker
      /\ current(d) =>
           /\ broker'.unacked = broker.unacked \ {d[1]}
           /\ broker'.ready = IF to = "requeue" THEN broker.ready \cup {d[1]} ELSE broker.ready
           /\ broker'.acked = IF to = "ack" THEN broker.acked \cup {d[1]} ELSE broker.acked
           /\ broker'.discarded = IF to = "discard" THEN broker.discarded \cup {d[1]}
                                                    ELSE broker.discarded
  BY Zenon, <1>1, <1>3, SettleFact DEF AmqpType
<1>7. /\ worker' \in [W -> [pc : {"recv", "got", "exit"}, item : Deliveries \cup {None}]]
      /\ \A v \in W : IF v = w THEN ~(Got(v)') ELSE worker'[v] = worker[v]
  BY Zenon, <1>1 DEF AmqpType, Got
<1>8. \A v \in W : Got(v)' => v # w /\ Got(v) /\ worker'[v].item = worker[v].item
  BY Zenon, <1>7 DEF Got
<1>9. AmqpType'
  BY Zenon, <1>1, <1>5, <1>6, <1>7, <1>8 DEF AmqpType, Deliveries, Brokers, Items, W, None
<1>10. current(d) => d[1] \in broker.unacked
  BY Zenon, <1>1, <1>2 DEF AllFresh, Fresh, current
<1>11. ASSUME NEW e \in Deliveries, Fresh(e), current(d) => e # d
       PROVE  Fresh(e)'
  <2>1. e[2] = broker.epoch /\ current(d) => e[1] # d[1]
    <3>1. e = <<e[1], e[2]>>
      BY DEF Deliveries
    <3> QED BY Zenon, <1>4, <1>11, <3>1 DEF current
  <2>2. CASE current(d)
    BY Zenon, <1>6, <1>11, <2>1, <2>2 DEF Fresh
  <2>3. CASE ~current(d)
    BY Zenon, <1>6, <1>11, <2>3 DEF Fresh
  <2> QED BY Zenon, <2>2, <2>3
<1>12. /\ \A i \in DOMAIN chan[1].buf : chan[1].buf[i] \in Deliveries
       /\ \A v \in W : Got(v) => worker[v].item \in Deliveries
  BY <1>1 DEF AmqpType
<1>13. AllFresh'
  <2>1. \A i \in DOMAIN chan[1].buf : current(d) => chan[1].buf[i] # d
    BY Zenon, <1>1, <1>2 DEF Single
  <2>2. \A v \in W : Got(v) /\ v # w /\ current(d) => worker[v].item # d
    BY Zenon, <1>1, <1>2 DEF Single
  <2>3. ASSUME NEW i \in DOMAIN chan'[1].buf PROVE Fresh(chan[1].buf[i])'
    <3>1. PICK e \in Deliveries : e = chan[1].buf[i]
      BY Zenon, <1>1, <1>12
    <3>2. Fresh(e)'
      BY Zenon, <1>1, <1>11, <2>1, <3>1 DEF AllFresh
    <3> QED BY Zenon, <1>1, <3>1, <3>2 DEF Fresh
  <2>4. ASSUME NEW v \in W, Got(v)' PROVE Fresh(worker[v].item)'
    <3>1. PICK e \in Deliveries : e = worker[v].item
      BY Zenon, <1>8, <1>12, <2>4
    <3>2. Fresh(e)'
      BY ZenonT(60), <1>1, <1>8, <1>11, <2>2, <2>4, <3>1 DEF AllFresh
    <3> QED BY Zenon, <1>8, <2>4, <3>1, <3>2 DEF Fresh
  <2> QED BY Zenon, <1>1, <2>3, <2>4 DEF AllFresh, W
<1>14. Single'
  BY <1>1, <1>6, <1>8 DEF Single, current, W
<1>15. Delivered'
  <2> SUFFICES ASSUME NEW y \in broker'.unacked
               PROVE  \/ \E i \in DOMAIN chan[1].buf : chan[1].buf[i] = <<y, broker.epoch>>
                      \/ \E v \in W : Got(v)' /\ worker'[v].item = <<y, broker.epoch>>
    BY ZenonT(60), <1>1, <1>6 DEF Delivered, W
  <2>1. y \in broker.unacked /\ <<y, broker.epoch>> # d
    BY <1>6 DEF current
  <2>2. CASE \E i \in DOMAIN chan[1].buf : chan[1].buf[i] = <<y, broker.epoch>>
    BY Zenon, <2>2
  <2>3. CASE \E v \in W : Got(v) /\ worker[v].item = <<y, broker.epoch>>
    BY Zenon, <1>2, <1>7, <2>1, <2>3 DEF Got
  <2> QED BY Zenon, <1>1, <2>1, <2>2, <2>3 DEF Delivered
<1>16. Closing'
  BY Zenon, <1>1, <1>6 DEF Closing
<1>17. Kept'
  <2>1. CASE current(d)
    <3>1. d[1] \in broker.unacked
      BY ZenonT(60), <1>10, <2>1
    <3>2. CASE to = "ack"
      BY <1>1, <1>5, <1>6, <2>1, <3>1, <3>2 DEF Kept, Items, AmqpType, Brokers
    <3>3. CASE to = "discard"
      BY <1>1, <1>3, <1>5, <1>6, <2>1, <3>1, <3>3 DEF Kept, Items, AmqpType, Brokers
    <3>4. CASE to = "requeue"
      BY <1>1, <1>5, <1>6, <2>1, <3>1, <3>4 DEF Kept, Items, AmqpType, Brokers
    <3> QED BY Zenon, <3>2, <3>3, <3>4
  <2>2. CASE ~current(d)
    BY Zenon, <1>1, <1>5, <1>6, <2>2 DEF Kept, Items, AmqpType, Brokers
  <2> QED BY Zenon, <2>1, <2>2
<1> QED BY Zenon, <1>9, <1>13, <1>14, <1>15, <1>16, <1>17 DEF AmqpInv

LEMMA AmqpStep ==
  ASSUME AmqpInv, [Next]_vars
  PROVE  AmqpInv'
<1>1. CASE conf.kind # "amqp"
  <2>1. conf' = conf
    BY ZenonT(60) DEF Next, vars, Submit, Produce, Cancel, Read, Return, CloseInput, Publish, Deliver,
           DropConnection, StartReturns, StartAgain, WorkerStep, Receive, Handle, Send, RunShard,
           Work, process
  <2> QED BY Zenon, <1>1, <2>1 DEF AmqpInv, kind
<1>2. CASE conf.kind = "amqp"
  <2>1. CASE Cancel \/ Read \/ UNCHANGED vars
    BY Zenon, <2>1, AmqpFrame DEF Cancel, Read, vars, flow
  <2>2. CASE Submit \/ Produce \/ Return \/ \E i \in Channels : CloseInput(i)
    BY Zenon, <1>2, <2>2 DEF Submit, Produce, Return, CloseInput, kind
  <2>3. ASSUME NEW w \in W, Receive(w) \/ Handle(w) \/ Send(w) \/ RunShard(w)
        PROVE  AmqpInv'
    <3>1. worker[w].pc \in {"recv", "got", "exit"}
      BY Zenon, <1>2 DEF AmqpInv, AmqpType, kind
    <3> QED BY Zenon, <1>2, <2>3, <3>1 DEF Receive, Handle, Send, RunShard, kind
  <2> QED BY Zenon, <2>1, <2>2, <2>3, PublishStep, DeliverStep, DropStep, StartStep, WorkStep, ProcessStep
          DEF Next, WorkerStep
<1> QED BY Zenon, <1>1, <1>2

\* A task of the AMQP queue is never lost, whenever the connection drops, the
\* context ends or the consumer starts again: it is ready, out on the current
\* channel or settled, in one place only; Consumer.process acknowledges it only
\* after a handler succeeded, and discards it only if it does not parse.
THEOREM TasksConservedAlways == Spec => []TasksConserved
<1>1. AmqpInv => TasksConserved
  <2> SUFFICES ASSUME AmqpType, Delivered, Kept, conf.kind = "amqp"
               PROVE  TasksConserved
    BY Zenon DEF AmqpInv, TasksConserved, kind
  <2> DEFINE places == <<broker.ready, broker.unacked, broker.acked, broker.discarded>>
  <2>1. ASSUME NEW x \in Items \ (todo \cup lost) PROVE \E i \in 1..4 : x \in places[i]
    <3>1. x \in places[1] \/ x \in places[2] \/ x \in places[3] \/ x \in places[4]
      BY Zenon, <2>1 DEF Kept
    <3> QED BY <3>1
  <2>2. ASSUME NEW i \in 1..4, NEW j \in 1..4, i # j PROVE places[i] \cap places[j] = {}
    <3>1. i \in {1, 2, 3, 4} /\ j \in {1, 2, 3, 4}
      OBVIOUS
    <3> QED BY <2>2, <3>1 DEF Kept
  <2>3. ASSUME NEW x \in broker.unacked PROVE <<x, broker.epoch>> \in (waiting \cup inHand)
    <3>1. Channels = {1}
      BY Zenon DEF Channels, shared, kind
    <3>2. CASE \E i \in DOMAIN chan[1].buf : chan[1].buf[i] = <<x, broker.epoch>>
      <4>1. <<x, broker.epoch>> \in Range(chan[1].buf)
        BY Zenon, <3>2 DEF Range
      <4> QED BY Zenon, <3>1, <4>1 DEF waiting
    <3>3. CASE \E w \in W : Got(w) /\ worker[w].item = <<x, broker.epoch>>
      BY Zenon, <3>3 DEF inHand, Got
    <3> QED BY Zenon, <3>2, <3>3 DEF Delivered
  <2> QED BY Zenon, <2>1, <2>2, <2>3 DEF TasksConserved, Kept
<1> QED BY <1>1, AmqpInit, AmqpStep, PTL DEF Spec

-----------------------------------------------------------------------------
\* The shards

\* The first index of shard i, less one, of n items and k workers.
Off(i, n, k) == (i - 1) * (n \div k) + (IF i - 1 < n % k THEN i - 1 ELSE n % k)

LEMMA ProductFact ==
  ASSUME NEW m \in Nat, NEW n \in Nat, NEW k \in Nat
  PROVE  /\ m * k \in Nat
         /\ (m + 1) * k = m * k + k
         /\ m <= n => m * k <= n * k
<1>1. m * k \in Nat /\ (m + 1) * k = m * k + k
  OBVIOUS
<1>2. ASSUME m <= n PROVE m * k <= n * k
  <2>1. PICK d \in Nat : n = m + d
    <3>1. n - m \in Nat /\ n = m + (n - m)
      BY <1>2
    <3> QED BY Zenon, <3>1
  <2>2. (m + d) * k = m * k + d * k /\ d * k \in Nat /\ m * k \in Nat
    OBVIOUS
  <2> QED BY <2>1, <2>2
<1> QED BY Zenon, <1>1, <1>2

LEMMA DivFact ==
  ASSUME NEW n \in Nat, NEW k \in Nat, k > 0
  PROVE  \E q, r \in Nat : q = n \div k /\ r = n % k /\ r < k /\ n = k * q + r
<1>1. n \div k \in Nat /\ n % k \in Nat /\ n % k < k
  OBVIOUS
<1>2. ASSUME NEW q \in Int, NEW r \in Int, q = n \div k, r = n % k
      PROVE  n = k * q + r
  BY <1>2
<1> QED BY <1>1, <1>2

\* A set of numbers has a least one.
LEMMA Least ==
  ASSUME NEW T, T \subseteq Nat, T # {}
  PROVE  \E i \in T : \A j \in T : ~(j < i)
<1>1. \E i \in T : \A j \in T : <<j, i>> \notin OpToRel(<, Nat)
  BY Zenon, NatLessThanWellFounded, WFMin
<1>2. \A i, j \in Nat : j < i => <<j, i>> \in OpToRel(<, Nat)
  BY Zenon DEF OpToRel
<1> QED BY Zenon, <1>1, <1>2, Zenon

LEMMA OffFact ==
  ASSUME NEW n \in Nat, NEW k \in Nat, k > 0
  PROVE  /\ Off(1, n, k) = 0 /\ Off(k + 1, n, k) = n
         /\ \A i \in Nat \ {0} : Off(i, n, k) \in Nat
         /\ \A i, j \in Nat \ {0} : i <= j => Off(i, n, k) <= Off(j, n, k)
         /\ \A i \in Nat \ {0} :
              Off(i + 1, n, k) = Off(i, n, k) + (n \div k) + (IF i - 1 < n % k THEN 1 ELSE 0)
<1>1. PICK b \in Nat, r \in Nat : b = n \div k /\ r = n % k /\ r < k /\ n = k * b + r
  BY Zenon, DivFact
<1>2. ASSUME NEW i \in Nat \ {0}
      PROVE  /\ (i - 1) * b \in Nat /\ i * b = (i - 1) * b + b
             /\ (i + 1) - 1 = i /\ i - 1 \in Nat
  <2>1. i - 1 \in Nat /\ (i - 1) + 1 = i
    OBVIOUS
  <2>2. (i - 1) * b \in Nat /\ ((i - 1) + 1) * b = (i - 1) * b + b
    BY Zenon, <1>1, <2>1, ProductFact
  <2> QED BY <2>1, <2>2
<1>3. \A i \in Nat \ {0} : Off(i, n, k) = (i - 1) * b + (IF i - 1 < r THEN i - 1 ELSE r)
  BY Zenon, <1>1 DEF Off
<1>4. ASSUME NEW i \in Nat \ {0}
      PROVE  /\ Off(i, n, k) \in Nat
             /\ Off(i + 1, n, k) = Off(i, n, k) + b + (IF i - 1 < r THEN 1 ELSE 0)
  <2>1. i + 1 \in Nat \ {0} /\ (i + 1) - 1 = i
    OBVIOUS
  <2>2. Off(i + 1, n, k) = i * b + (IF i < r THEN i ELSE r)
    BY Zenon, <1>3, <2>1
  <2>3. Off(i, n, k) = (i - 1) * b + (IF i - 1 < r THEN i - 1 ELSE r)
    BY Zenon, <1>3
  <2>4. PICK p \in Nat : p = (i - 1) * b /\ i * b = p + b
    BY Zenon, <1>2
  <2> QED BY <1>1, <2>2, <2>3, <2>4
<1>5. Off(1, n, k) = 0
  BY <1>1, <1>3
<1>6. Off(k + 1, n, k) = n
  <2>1. k + 1 \in Nat \ {0} /\ (k + 1) - 1 = k /\ ~(k < r)
    BY <1>1
  <2>2. Off(k + 1, n, k) = k * b + r
    BY Zenon, <1>3, <2>1
  <2> QED BY Zenon, <1>1, <2>2
<1>7. ASSUME NEW i \in Nat \ {0}, NEW j \in Nat \ {0}, i <= j
      PROVE  Off(i, n, k) <= Off(j, n, k)
  <2>1. i - 1 \in Nat /\ j - 1 \in Nat /\ i - 1 <= j - 1
    BY <1>7
  <2>2. (i - 1) * b <= (j - 1) * b /\ (i - 1) * b \in Nat /\ (j - 1) * b \in Nat
    BY Zenon, <1>1, <2>1, ProductFact
  <2>3. PICK p, q \in Nat : p = (i - 1) * b /\ q = (j - 1) * b /\ p <= q
    BY Zenon, <2>2
  <2>4. Off(i, n, k) = p + (IF i - 1 < r THEN i - 1 ELSE r)
        /\ Off(j, n, k) = q + (IF j - 1 < r THEN j - 1 ELSE r)
    BY Zenon, <1>3, <2>3
  <2> QED BY <1>1, <1>7, <2>3, <2>4
<1> QED BY Zenon, <1>1, <1>4, <1>5, <1>6, <1>7

\* The shards are what lies between consecutive offsets.
LEMMA ShardFact ==
  ASSUME conf.workers \in Nat, conf.workers > 0, NEW n \in Nat, NEW i \in W
  PROVE  /\ Shard(i, n) \in Seq(1..n)
         /\ \A x : x \in Range(Shard(i, n)) <=>
                     x \in Nat /\ Off(i, n, conf.workers) < x /\ x <= Off(i + 1, n, conf.workers)
         /\ \A p, q \in DOMAIN Shard(i, n) : p # q => Shard(i, n)[p] # Shard(i, n)[q]
<1> DEFINE k == conf.workers
           off == Off(i, n, k)
           size == (n \div k) + (IF i - 1 < n % k THEN 1 ELSE 0)
<1>0. i \in Nat \ {0} /\ i <= k /\ k \in Nat /\ k > 0 /\ i + 1 \in Nat \ {0} /\ i + 1 <= k + 1 /\ k + 1 \in Nat \ {0}
  BY DEF W
<1>1. Shard(i, n) = [j \in 1..size |-> off + j]
  BY Zenon DEF Shard, Off
<1>2. /\ off \in Nat /\ Off(i + 1, n, k) <= n /\ Off(i + 1, n, k) \in Nat
      /\ Off(i + 1, n, k) = off + size
  <2>1. Off(i + 1, n, k) = off + (n \div k) + (IF i - 1 < n % k THEN 1 ELSE 0)
    BY ZenonT(60), <1>0, OffFact
  <2>2. off \in Nat /\ Off(i + 1, n, k) \in Nat /\ Off(i + 1, n, k) <= Off(k + 1, n, k) /\ Off(k + 1, n, k) = n
    BY Zenon, <1>0, OffFact
  <2>3. n \div k \in Nat /\ n % k \in Nat
    BY <1>0, DivFact
  <2> QED BY <2>1, <2>2, <2>3
<1>3. size \in Nat
  <2>3. n \div k \in Nat /\ n % k \in Nat
    BY <1>0, DivFact
  <2> QED BY <2>3
<1> HIDE DEF size, off
<1>4. \A j \in 1..size : off + j \in 1..n
  BY <1>2, <1>3
<1>5. Shard(i, n) \in Seq(1..n)
  BY <1>1, <1>3, <1>4
<1>6. ASSUME NEW x
      PROVE  x \in Range(Shard(i, n)) <=> x \in Nat /\ off < x /\ x <= off + size
  <2>1. x \in Range(Shard(i, n)) <=> \E j \in 1..size : x = off + j
    BY Zenon, <1>1 DEF Range
  <2>2. ASSUME x \in Nat, off < x, x <= off + size PROVE \E j \in 1..size : x = off + j
    <3>1. x - off \in 1..size /\ x = off + (x - off)
      BY <1>2, <1>3, <2>2
    <3> QED BY Zenon, <3>1
  <2> QED BY <1>2, <1>3, <2>1, <2>2
<1>7. \A p, q \in DOMAIN Shard(i, n) : p # q => Shard(i, n)[p] # Shard(i, n)[q]
  BY <1>1, <1>2, <1>3
<1> QED BY Zenon, <1>2, <1>5, <1>6, <1>7 DEF off

\* Every item is in exactly one shard.
LEMMA ShardPartition ==
  ASSUME conf.workers \in Nat, conf.workers > 0, conf.items \in Nat
  PROVE  /\ \A i, j \in W, x \in Items :
              x \in Range(Shard(i, conf.items)) /\ x \in Range(Shard(j, conf.items)) => i = j
         /\ \A x \in Items : \E i \in W : x \in Range(Shard(i, conf.items))
<1> DEFINE n == conf.items
           k == conf.workers
<1>1. ASSUME NEW i \in W, NEW j \in W, NEW x, i < j,
             x \in Range(Shard(i, n)), x \in Range(Shard(j, n))
      PROVE  FALSE
  <2>1. x \in Nat /\ x <= Off(i + 1, n, k) /\ Off(j, n, k) < x
    BY Zenon, <1>1, ShardFact
  <2>2. i + 1 \in Nat \ {0} /\ j \in Nat \ {0} /\ i + 1 <= j
    BY <1>1 DEF W
  <2>3. Off(i + 1, n, k) <= Off(j, n, k) /\ Off(i + 1, n, k) \in Nat /\ Off(j, n, k) \in Nat
    BY Zenon, <2>2, OffFact
  <2> QED BY <2>1, <2>3
<1>2. ASSUME NEW x \in Items PROVE \E i \in W : x \in Range(Shard(i, n))
  <2> DEFINE T == {i \in W : x <= Off(i + 1, n, k)}
  <2>1. x \in Nat /\ x > 0 /\ x <= n
    BY <1>2 DEF Items
  <2>2. k \in T
    <3>1. Off(k + 1, n, k) = n
      BY Zenon, OffFact
    <3>2. k \in W
      BY DEF W
    <3> QED BY Zenon, <2>1, <3>1, <3>2
  <2>3. T \subseteq Nat
    BY DEF W
  <2>4. PICK i \in T : \A j \in T : ~(j < i)
    BY Zenon, <2>2, <2>3, Least
  <2>5. i \in W /\ i \in Nat \ {0} /\ \A j \in T : ~(j < i)
    BY <2>3, <2>4 DEF W
  <2>6. Off(i, n, k) < x
    <3>1. CASE i = 1
      BY Zenon, <2>1, <3>1, OffFact
    <3>2. CASE i # 1
      <4>1. i - 1 \in W /\ i - 1 < i /\ (i - 1) + 1 = i
        BY <2>5, <3>2 DEF W
      <4>2. ~(x <= Off(i, n, k))
        BY Zenon, <2>5, <4>1
      <4>3. Off(i, n, k) \in Nat
        BY Zenon, <2>5, OffFact
      <4> QED BY <2>1, <4>2, <4>3
    <3> QED BY Zenon, <3>1, <3>2
  <2>7. x \in Range(Shard(i, n))
    BY Zenon, <2>1, <2>4, <2>5, <2>6, ShardFact
  <2> QED BY Zenon, <2>5, <2>7
<1>3. ASSUME NEW i \in W, NEW j \in W PROVE i < j \/ j < i \/ i = j
  BY DEF W
<1> QED BY Zenon, <1>1, <1>2, <1>3

-----------------------------------------------------------------------------
\* ProcessSharded

\* A shard is handled, as a whole, by its worker; the shards are disjoint.
ShardInv ==
  kind({"sharded"}) =>
    /\ todo = {} /\ out.buf = <<>>
    /\ worker \in [W -> [pc : {"recv", "exit"}, item : {None}]]
    /\ handled \in [Items -> 0..1]
    /\ received = [x \in Items |-> 0]
    /\ returned => Exited
    /\ \A w \in W : Range(chan[w].buf) \subseteq Items
    /\ \A x \in Items : \E w \in W : x \in Range(chan[w].buf)
    /\ \A v, w \in W, x \in Items : x \in Range(chan[v].buf) /\ x \in Range(chan[w].buf) => v = w
    /\ \A w \in W : \A x \in Range(chan[w].buf) :
         IF worker[w].pc = "recv" THEN handled[x] = 0 ELSE handled[x] = 1 \/ x \in lost

\* The shards there are from the start, each item in one of them.
LEMMA ShardsInit ==
  ASSUME Init, conf.kind \in {"senders", "sharded"}
  PROVE  /\ conf \in Configs /\ Channels = W /\ todo = {}
         /\ chan = [w \in W |-> [buf |-> Shard(w, conf.items), closed |-> TRUE]]
         /\ \A w \in W : /\ chan[w].buf \in Seq(Items) /\ Range(chan[w].buf) \subseteq Items
                         /\ \A p, q \in DOMAIN chan[w].buf : p # q => chan[w].buf[p] # chan[w].buf[q]
         /\ \A x \in Items : \E w \in W : x \in Range(chan[w].buf)
         /\ \A v, w \in W, x \in Items : x \in Range(chan[v].buf) /\ x \in Range(chan[w].buf) => v = w
<1>1. shared = FALSE /\ kind({"senders", "sharded"}) = TRUE
  BY DEF shared, kind
<1>2. /\ conf \in Configs /\ todo = {} /\ Channels = W
      /\ chan = [w \in W |-> [buf |-> Shard(w, conf.items), closed |-> TRUE]]
  BY Zenon, <1>1 DEF Init, Channels
<1>3. conf.workers \in Nat /\ conf.workers > 0 /\ conf.items \in Nat
  BY Zenon, <1>2, WorkersAssumption
<1>4. ASSUME NEW w \in W
      PROVE  /\ Shard(w, conf.items) \in Seq(Items)
             /\ \A p, q \in DOMAIN Shard(w, conf.items) :
                  p # q => Shard(w, conf.items)[p] # Shard(w, conf.items)[q]
  BY Zenon, <1>3, ShardFact DEF Items
<1>5. \A w \in W : Range(Shard(w, conf.items)) \subseteq Items
  BY <1>4 DEF Range
<1>6. /\ \A v, w \in W, x \in Items :
           x \in Range(Shard(v, conf.items)) /\ x \in Range(Shard(w, conf.items)) => v = w
      /\ \A x \in Items : \E w \in W : x \in Range(Shard(w, conf.items))
  BY Zenon, <1>3, ShardPartition
<1>7. \A w \in W : chan[w].buf = Shard(w, conf.items)
  BY Zenon, <1>2
<1> QED BY <1>2, <1>4, <1>5, <1>6, <1>7

LEMMA ShardInit == Init => ShardInv
<1> SUFFICES ASSUME Init, conf.kind = "sharded" PROVE ShardInv
  BY Zenon DEF ShardInv, kind
<1>1. /\ out.buf = <<>> /\ returned = FALSE
      /\ worker = [w \in W |-> [pc |-> "recv", item |-> None]]
      /\ handled = [x \in Items |-> 0]
      /\ received = [x \in Items |-> 0]
  BY Zenon DEF Init, holds
<1>2. /\ worker \in [W -> [pc : {"recv", "exit"}, item : {None}]]
      /\ handled \in [Items -> 0..1]
      /\ \A w \in W : worker[w].pc = "recv"
  BY <1>1
<1> QED BY Zenon, <1>1, <1>2, ShardsInit DEF ShardInv

LEMMA RunShardStep ==
  ASSUME ShardInv, NEW w \in W, RunShard(w)
  PROVE  ShardInv'
<1> DEFINE shard == Range(chan[w].buf)
<1>1. /\ conf.kind = "sharded"
      /\ UNCHANGED <<conf, todo, chan, out, received, returned>>
      /\ worker' = [worker EXCEPT ![w] = [pc |-> "exit", item |-> None]]
      /\ worker[w].pc = "recv"
      /\ \/ handled' = [x \in Items |-> handled[x] + IF x \in shard THEN 1 ELSE 0] /\ lost' = lost
         \/ handled' = handled /\ lost' = lost \cup shard
  BY Zenon DEF RunShard, kind, Moves, holds
<1>5. /\ handled \in [Items -> 0..1] /\ shard \subseteq Items
      /\ worker \in [W -> [pc : {"recv", "exit"}, item : {None}]]
      /\ \A x \in shard : handled[x] = 0
      /\ \A v \in W : \A x \in Range(chan[v].buf) :
           IF worker[v].pc = "recv" THEN handled[x] = 0 ELSE handled[x] = 1 \/ x \in lost
      /\ \A v \in W, x \in Items : x \in Range(chan[v].buf) /\ x \in shard => v = w
      /\ \A v \in W : Range(chan[v].buf) \subseteq Items
  BY Zenon, <1>1 DEF ShardInv, kind
<1>6. /\ worker' \in [W -> [pc : {"recv", "exit"}, item : {None}]]
      /\ \A v \in W : worker'[v].pc = IF v = w THEN "exit" ELSE worker[v].pc
  BY Zenon, <1>1, <1>5
<1>7. /\ handled' \in [Items -> 0..1] /\ lost \subseteq lost'
      /\ \A x \in Items \ shard : handled'[x] = handled[x]
      /\ \A x \in shard : handled'[x] = 1 \/ x \in lost'
  <2>1. CASE handled' = [x \in Items |-> handled[x] + IF x \in shard THEN 1 ELSE 0] /\ lost' = lost
    <3>1. \A x \in Items : handled'[x] = IF x \in shard THEN 1 ELSE handled[x]
      BY <1>5, <2>1
    <3> QED BY <1>5, <2>1, <3>1
  <2>2. CASE handled' = handled /\ lost' = lost \cup shard
    BY Zenon, <1>5, <2>2
  <2> QED BY Zenon, <1>1, <2>1, <2>2
<1>8. ASSUME NEW v \in W, NEW x \in Range(chan[v].buf)
      PROVE  IF worker'[v].pc = "recv" THEN handled'[x] = 0 ELSE handled'[x] = 1 \/ x \in lost'
  <2>1. CASE v = w
    BY Zenon, <1>6, <1>7, <2>1
  <2>2. CASE v # w
    <3>1. x \in Items \ shard
      BY Zenon, <1>5, <2>2
    <3> QED BY Zenon, <1>5, <1>6, <1>7, <2>2, <3>1
  <2> QED BY Zenon, <2>1, <2>2
<1>9. returned' => \A v \in W : worker'[v].pc = "exit"
  BY Zenon, <1>1, <1>6 DEF ShardInv, kind, Exited
<1>10. /\ todo' = {} /\ out'.buf = <<>> /\ received' = [x \in Items |-> 0]
       /\ \A v \in W : Range(chan'[v].buf) \subseteq Items
       /\ \A x \in Items : \E v \in W : x \in Range(chan'[v].buf)
       /\ \A u, v \in W, x \in Items : x \in Range(chan'[u].buf) /\ x \in Range(chan'[v].buf) => u = v
  BY Zenon, <1>1 DEF ShardInv, kind
<1> QED BY Zenon, <1>1, <1>6, <1>7, <1>8, <1>9, <1>10 DEF ShardInv, W, Items, Exited, None

LEMMA ShardStep ==
  ASSUME ShardInv, [Next]_vars
  PROVE  ShardInv'
<1>1. CASE conf.kind # "sharded"
  <2>1. conf' = conf
    BY Zenon DEF Next, vars, Submit, Produce, Cancel, Read, Return, CloseInput, Publish, Deliver,
           DropConnection, StartReturns, StartAgain, WorkerStep, Receive, Handle, Send, RunShard,
           Work, process
  <2> QED BY Zenon, <1>1, <2>1 DEF ShardInv, kind
<1>2. CASE conf.kind = "sharded"
  <2>1. CASE Cancel \/ UNCHANGED vars
    <3>1. UNCHANGED <<conf, todo, out, chan, worker, handled, received, returned, lost>>
      BY Zenon, <2>1 DEF Cancel, vars, flow
    <3> QED BY <3>1 DEF ShardInv, W, Items, Exited, None, kind
  <2>2. CASE Return
    <3>1. UNCHANGED <<conf, todo, chan, worker, handled, received, lost>> /\ Exited
      BY Zenon, <2>2 DEF Return
    <3>2. out' = [out EXCEPT !.closed = TRUE]
      BY Zenon, <2>2 DEF Return
    <3>3. out'.buf = out.buf
      BY <3>2
    <3> QED BY Zenon, <3>1, <3>3 DEF ShardInv, W, Items, Exited, None, kind
  <2>3. CASE \/ Read \/ Submit \/ Produce \/ \E i \in Channels : CloseInput(i)
             \/ Publish \/ Deliver \/ DropConnection \/ StartReturns \/ StartAgain
    BY Zenon, <1>2, <2>3 DEF ShardInv, Read, Submit, Produce, CloseInput, Publish, Deliver, DropConnection,
                      StartReturns, StartAgain, kind
  <2>4. ASSUME NEW w \in W, Receive(w) \/ Handle(w) \/ Send(w) \/ Work(w) \/ process(w)
        PROVE  ShardInv'
    <3>1. worker[w].pc \in {"recv", "exit"}
      BY Zenon, <1>2 DEF ShardInv, kind
    <3> QED BY Zenon, <1>2, <2>4, <3>1 DEF Receive, Handle, Send, Work, process, kind
  <2> QED BY ZenonT(60), <2>1, <2>2, <2>3, <2>4, RunShardStep DEF Next, WorkerStep
<1> QED BY Zenon, <1>1, <1>2

-----------------------------------------------------------------------------
\* The pool, the pipelines and the sender group: an item is at one place.

FlowKinds == {"pool", "fanout", "fanin", "senders"}

Distinct(s) == \A p, q \in DOMAIN s : p # q => s[p] # s[q]
Has(k, pc, x) == k.pc = pc /\ k.item = x
Busy(k, x) == Has(k, "got", x) \/ Has(k, "send", x)

FlowType ==
  /\ conf \in Configs
  /\ todo \subseteq Items
  /\ chan \in [Channels -> [buf : Seq(Items), closed : BOOLEAN]]
  /\ worker \in [W -> [pc : {"recv", "got", "send", "exit"}, item : Items \cup {None}]]
  /\ out \in [buf : Seq(Items), closed : BOOLEAN]
  /\ handled \in [Items -> 0..1]
  /\ received \in [Items -> 0..1]

FlowShape ==
  /\ \A i \in Channels : Distinct(chan[i].buf)
  /\ Distinct(out.buf)
  /\ \A w \in W : worker[w].pc \in {"got", "send"} => worker[w].item \in Items
  /\ \A w \in W : worker[w].pc = "got" => conf.kind \in {"pool", "fanout"}
  /\ conf.kind = "pool" => out.buf = <<>> /\ \A w \in W : worker[w].pc # "send"

Once(x) ==
  /\ \A i, j \in Channels : x \in Range(chan[i].buf) /\ x \in Range(chan[j].buf) => i = j
  /\ \A v, w \in W : Busy(worker[v], x) /\ Busy(worker[w], x) => v = w
  /\ x \in todo => \A i \in Channels : x \notin Range(chan[i].buf)
  /\ (x \in todo \/ \E i \in Channels : x \in Range(chan[i].buf)) =>
       handled[x] = 0 /\ \A w \in W : ~Busy(worker[w], x)
  /\ (\E w \in W : Has(worker[w], "got", x)) => handled[x] = 0
  /\ (\/ x \in todo
      \/ \E i \in Channels : x \in Range(chan[i].buf)
      \/ \E w \in W : Busy(worker[w], x)) => x \notin Range(out.buf) /\ received[x] = 0
  /\ x \in Range(out.buf) => received[x] = 0

Somewhere(x) ==
  \/ x \in todo \/ x \in lost
  \/ \E i \in Channels : x \in Range(chan[i].buf)
  \/ \E w \in W : Busy(worker[w], x)
  \/ x \in Range(out.buf)
  \/ conf.kind = "pool" /\ handled[x] = 1
  \/ conf.kind # "pool" /\ received[x] = 1

\* Unless the caller cancels, a worker leaves only an empty, closed channel.
FlowEnd ==
  /\ returned => Exited
  /\ ctxDone /\ ~asked => returned
  /\ ~asked => \A w \in W : worker[w].pc = "exit" =>
                  chan[chanOf(w)].closed /\ chan[chanOf(w)].buf = <<>>

FlowInv ==
  conf.kind \in FlowKinds =>
    /\ FlowType /\ FlowShape /\ FlowEnd
    /\ \A x \in Items : Once(x)
    /\ ~asked => \A x \in Items : Somewhere(x)

\* What a step that moves another item leaves alone of y.
Same(y) ==
  /\ y \in todo' <=> y \in todo
  /\ y \in lost => y \in lost'
  /\ \A i \in Channels : y \in Range(chan'[i].buf) <=> y \in Range(chan[i].buf)
  /\ \A w \in W : /\ Has(worker'[w], "got", y) <=> Has(worker[w], "got", y)
                  /\ Has(worker'[w], "send", y) <=> Has(worker[w], "send", y)
  /\ y \in Range(out'.buf) <=> y \in Range(out.buf)
  /\ handled'[y] = handled[y]
  /\ received'[y] = received[y]

LEMMA ConfFrame ==
  ASSUME conf' = conf
  PROVE  /\ W' = W /\ Items' = Items /\ Channels' = Channels
         /\ \A w \in W : chanOf(w)' = chanOf(w)
BY Zenon DEF W, Items, Channels, chanOf, shared, kind

LEMMA ChanOf ==
  \A w \in W : chanOf(w) \in Channels
BY Zenon DEF chanOf, Channels

LEMMA SameKeeps ==
  ASSUME conf' = conf, NEW y, Same(y)
  PROVE  (Once(y) => Once(y)') /\ (Somewhere(y) => Somewhere(y)')
<1>1. W' = W /\ Channels' = Channels
  BY Zenon, ConfFrame
<1>2. \A w \in W : Busy(worker'[w], y) <=> Busy(worker[w], y)
  BY Zenon DEF Same, Busy
<1>3. Once(y) => Once(y)'
  BY Zenon, <1>1, <1>2 DEF Once, Same
<1>4. Somewhere(y) => Somewhere(y)'
  BY Zenon, <1>1, <1>2 DEF Somewhere, Same
<1> QED BY Zenon, <1>3, <1>4

\* One item moves per step.
LEMMA FlowMove ==
  ASSUME FlowInv, conf.kind \in FlowKinds, conf' = conf, asked' = asked, NEW x,
         \A y \in Items : y # x => Same(y),
         FlowType', FlowShape', FlowEnd',
         x \in Items => Once(x)' /\ (~asked => Somewhere(x)')
  PROVE  FlowInv'
<1>1. Items' = Items
  BY Zenon, ConfFrame
<1>2. \A y \in Items : Once(y)'
  BY Zenon, SameKeeps DEF FlowInv
<1>3. ~asked => \A y \in Items : Somewhere(y)'
  BY Zenon, SameKeeps DEF FlowInv
<1> QED BY Zenon, <1>1, <1>2, <1>3 DEF FlowInv

LEMMA TailFact ==
  ASSUME NEW S, NEW s \in Seq(S), s # <<>>, Distinct(s)
  PROVE  /\ Head(s) \in S /\ Tail(s) \in Seq(S) /\ Distinct(Tail(s))
         /\ Head(s) \in Range(s) /\ Head(s) \notin Range(Tail(s))
         /\ \A y : y # Head(s) => (y \in Range(Tail(s)) <=> y \in Range(s))
<1>1. Head(s) \in S /\ Tail(s) \in Seq(S)
  OBVIOUS
<1>2. Distinct(Tail(s))
  BY TailIndex DEF Distinct
<1>3. Head(s) \in Range(s)
  BY TailIndex DEF Range
<1>4. Head(s) \notin Range(Tail(s))
  BY TailIndex DEF Distinct, Range
<1>5. ASSUME NEW y, y # Head(s)
      PROVE  y \in Range(Tail(s)) <=> y \in Range(s)
  <2>1. ASSUME NEW p \in DOMAIN Tail(s), y = Tail(s)[p] PROVE y \in Range(s)
    BY <2>1, TailIndex DEF Range
  <2>2. ASSUME NEW p \in DOMAIN s, y = s[p] PROVE y \in Range(Tail(s))
    <3>1. p # 1
      BY Zenon, <1>5, <2>2, TailIndex
    <3>2. p - 1 \in DOMAIN Tail(s) /\ Tail(s)[p - 1] = y
      BY Zenon, <2>2, <3>1, TailIndex
    <3> QED BY Zenon, <3>2 DEF Range
  <2> QED BY Zenon, <2>1, <2>2 DEF Range
<1> QED BY Zenon, <1>1, <1>2, <1>3, <1>4, <1>5

LEMMA AppendFact ==
  ASSUME NEW S, NEW s \in Seq(S), NEW x \in S, x \notin Range(s), Distinct(s)
  PROVE  /\ Append(s, x) \in Seq(S) /\ Distinct(Append(s, x)) /\ Append(s, x) # <<>>
         /\ x \in Range(Append(s, x))
         /\ \A y : y # x => (y \in Range(Append(s, x)) <=> y \in Range(s))
<1>1. /\ Append(s, x) \in Seq(S) /\ Append(s, x) # <<>>
      /\ DOMAIN Append(s, x) = 1..(Len(s) + 1) /\ DOMAIN s = 1..Len(s) /\ Len(s) \in Nat
      /\ \A p \in 1..Len(s) : Append(s, x)[p] = s[p]
      /\ Append(s, x)[Len(s) + 1] = x
  OBVIOUS
<1>2. \A p \in 1..(Len(s) + 1) : p \in 1..Len(s) \/ p = Len(s) + 1
  BY <1>1
<1>3. \A p \in 1..Len(s) : s[p] # x
  BY Zenon, <1>1 DEF Range
<1>4. Distinct(Append(s, x))
  BY Zenon, <1>1, <1>2, <1>3 DEF Distinct
<1>5. Len(s) + 1 \in 1..(Len(s) + 1) /\ \A p \in 1..Len(s) : p \in 1..(Len(s) + 1)
  BY <1>1
<1>6. x \in Range(Append(s, x))
  BY Zenon, <1>1, <1>5 DEF Range
<1>7. ASSUME NEW y, y # x PROVE y \in Range(Append(s, x)) <=> y \in Range(s)
  BY Zenon, <1>1, <1>2, <1>5, <1>7 DEF Range
<1> QED BY Zenon, <1>1, <1>4, <1>6, <1>7

-----------------------------------------------------------------------------
\* The steps of a flow

\* An item is put on a channel.
LEMMA PutStep ==
  ASSUME FlowInv, conf.kind \in FlowKinds, NEW x \in todo, NEW i \in Channels,
         ~chan[i].closed, Put(i, x), todo' = todo \ {x},
         UNCHANGED <<conf, worker, out, ctxDone, asked, handled, received, lost, returned>>
  PROVE  FlowInv'
<1>1. FlowType /\ FlowShape /\ FlowEnd /\ x \in Items /\ Once(x)
  BY Zenon DEF FlowInv, FlowType
<1>2. /\ W' = W /\ Items' = Items /\ Channels' = Channels
      /\ \A w \in W : chanOf(w)' = chanOf(w) /\ chanOf(w) \in Channels
  BY Zenon, ConfFrame, ChanOf
<1>3. chan[i].buf \in Seq(Items) /\ x \notin Range(chan[i].buf) /\ Distinct(chan[i].buf)
  BY Zenon, <1>1 DEF FlowType, FlowShape, Once
<1>4. /\ Append(chan[i].buf, x) \in Seq(Items) /\ Distinct(Append(chan[i].buf, x))
      /\ x \in Range(Append(chan[i].buf, x))
      /\ \A y : y # x => (y \in Range(Append(chan[i].buf, x)) <=> y \in Range(chan[i].buf))
  BY Zenon, <1>1, <1>3, AppendFact
<1>5. /\ chan' \in [Channels -> [buf : Seq(Items), closed : BOOLEAN]]
      /\ chan'[i].buf = Append(chan[i].buf, x)
      /\ \A j \in Channels : chan'[j].closed = chan[j].closed /\ (j # i => chan'[j].buf = chan[j].buf)
  BY Zenon, <1>1, <1>4 DEF FlowType, Put
<1>6. FlowType'
  BY Zenon, <1>1, <1>2, <1>5 DEF FlowType, None
<1>7. FlowShape'
  BY ZenonT(60), <1>1, <1>2, <1>4, <1>5 DEF FlowShape
<1>8. FlowEnd'
  BY <1>1, <1>2, <1>5 DEF FlowEnd, Exited
<1>9. ASSUME NEW y \in Items, y # x PROVE Same(y)
  BY ZenonT(60), <1>4, <1>5, <1>9 DEF Same
<1>10. Once(x)'
  BY <1>1, <1>2, <1>4, <1>5 DEF Once
<1>11. Somewhere(x)'
  BY Zenon, <1>2, <1>4, <1>5 DEF Somewhere
<1> QED BY ZenonT(60), <1>6, <1>7, <1>8, <1>9, <1>10, <1>11, FlowMove

LEMMA SubmitStep ==
  ASSUME FlowInv, Submit
  PROVE  FlowInv'
<1>1. /\ conf.kind = "pool" /\ conf.kind \in FlowKinds /\ 1 \in Channels
  BY Zenon DEF Submit, kind, FlowKinds, Channels, shared
<1>2. PICK x \in todo :
        /\ todo' = todo \ {x}
        /\ IF ~chan[1].closed /\ Len(chan[1].buf) < conf.cap THEN Put(1, x) /\ UNCHANGED lost
           ELSE lost' = lost \cup {x} /\ UNCHANGED chan
  BY Zenon DEF Submit
<1>3. UNCHANGED <<conf, worker, out, ctxDone, asked, handled, received, returned>>
  BY Zenon DEF Submit
<1>4. CASE ~chan[1].closed /\ Put(1, x) /\ UNCHANGED lost
  BY Zenon, <1>1, <1>2, <1>3, <1>4, PutStep
<1>5. CASE lost' = lost \cup {x} /\ UNCHANGED chan
  <2>1. FlowType /\ FlowShape /\ FlowEnd /\ x \in Items /\ Once(x)
    BY Zenon, <1>1 DEF FlowInv, FlowType
  <2>2. /\ W' = W /\ Items' = Items /\ Channels' = Channels
        /\ \A w \in W : chanOf(w)' = chanOf(w)
    BY ZenonT(60), <1>3, ConfFrame
  <2>3. FlowType' /\ FlowShape' /\ FlowEnd'
    BY <1>2, <1>3, <1>5, <2>1, <2>2 DEF FlowType, FlowShape, FlowEnd, Exited, None
  <2>4. \A y \in Items : y # x => Same(y)
    BY Zenon, <1>2, <1>3, <1>5 DEF Same
  <2>5. Once(x)'
    BY Zenon, <1>2, <1>3, <1>5, <2>1, <2>2 DEF Once
  <2>6. Somewhere(x)'
    BY Zenon, <1>5 DEF Somewhere
  <2> QED BY ZenonT(60), <1>1, <1>3, <2>3, <2>4, <2>5, <2>6, FlowMove
<1> QED BY Zenon, <1>2, <1>4, <1>5

LEMMA ProduceStep ==
  ASSUME FlowInv, Produce
  PROVE  FlowInv'
<1>1. conf.kind \in FlowKinds
  BY Zenon DEF Produce, kind, FlowKinds
<1> QED BY Zenon, <1>1, PutStep DEF Produce

\* A step that moves no item.
LEMMA FlowQuiet ==
  ASSUME FlowInv, conf.kind \in FlowKinds,
         UNCHANGED <<conf, todo, handled, received, lost>>,
         asked' = asked \/ asked' = TRUE,
         out'.buf = out.buf,
         \A i \in Channels : chan'[i].buf = chan[i].buf,
         \A w \in W : \/ worker'[w] = worker[w]
                      \/ worker[w].pc = "recv" /\ worker'[w].pc = "exit",
         FlowType', FlowEnd'
  PROVE  FlowInv'
<1>1. FlowType /\ FlowShape
  BY Zenon DEF FlowInv
<1>2. /\ W' = W /\ Items' = Items /\ Channels' = Channels
  BY Zenon, ConfFrame
<1>4. FlowShape'
  BY Zenon, <1>1, <1>2 DEF FlowShape
<1>5. ASSUME NEW y \in Items PROVE Same(y)
  BY Zenon DEF Same, Has
<1>6. \A y \in Items : Once(y)'
  BY Zenon, <1>5, SameKeeps DEF FlowInv
<1>7. ~asked' => \A y \in Items : Somewhere(y)'
  BY Zenon, <1>5, SameKeeps DEF FlowInv
<1> QED BY Zenon, <1>2, <1>4, <1>6, <1>7 DEF FlowInv

LEMMA QuietStep ==
  ASSUME FlowInv, conf.kind \in FlowKinds,
         Cancel \/ Return \/ (\E i \in Channels : CloseInput(i)) \/ UNCHANGED vars
  PROVE  FlowInv'
<1>1. FlowType /\ FlowShape /\ FlowEnd
  BY Zenon DEF FlowInv
<1>2. /\ out \in [buf : Seq(Items), closed : BOOLEAN]
      /\ chan \in [Channels -> [buf : Seq(Items), closed : BOOLEAN]]
      /\ worker \in [W -> [pc : {"recv", "got", "send", "exit"}, item : Items \cup {None}]]
  BY Zenon, <1>1 DEF FlowType
<1>3. CASE Cancel \/ UNCHANGED vars
  <2>1. /\ UNCHANGED <<conf, todo, handled, received, lost, out, chan, worker, returned>>
        /\ (asked' = asked /\ ctxDone' = ctxDone) \/ asked' = TRUE
    BY Zenon, <1>3 DEF Cancel, vars, flow
  <2>3. W' = W /\ \A w \in W : chanOf(w)' = chanOf(w)
    BY ZenonT(60), <2>1, ConfFrame
  <2>4. FlowEnd'
    BY <1>1, <2>1, <2>3 DEF FlowEnd, Exited
  <2>5. /\ out' \in [buf : Seq(Items), closed : BOOLEAN] /\ out'.buf = out.buf
        /\ chan' \in [Channels -> [buf : Seq(Items), closed : BOOLEAN]]
        /\ \A j \in Channels : chan'[j].buf = chan[j].buf
        /\ worker' \in [W -> [pc : {"recv", "got", "send", "exit"}, item : Items \cup {None}]]
        /\ \A w \in W : worker'[w] = worker[w]
        /\ asked' = asked \/ asked' = TRUE
    BY Zenon, <1>2, <2>1
  <2>6. Items' = Items /\ Channels' = Channels
    BY Zenon, <2>1, ConfFrame
  <2>7. FlowType'
    BY Zenon, <1>1, <2>1, <2>3, <2>5, <2>6 DEF FlowType, None
  <2> QED BY ZenonT(60), <2>1, <2>4, <2>5, <2>7, FlowQuiet
<1>4. CASE Return
  <2>1. /\ UNCHANGED <<conf, todo, handled, received, lost, chan, worker, asked>>
        /\ returned' = TRUE /\ Exited
        /\ out' = [out EXCEPT !.closed = TRUE]
    BY Zenon, <1>4 DEF Return
  <2>2. out' \in [buf : Seq(Items), closed : BOOLEAN] /\ out'.buf = out.buf
    BY Zenon, <1>2, <2>1
  <2>3. W' = W /\ \A w \in W : chanOf(w)' = chanOf(w)
    BY Zenon, <2>1, ConfFrame
  <2>4. FlowEnd'
    BY Zenon, <1>1, <2>1, <2>3 DEF FlowEnd, Exited
  <2>5. /\ out' \in [buf : Seq(Items), closed : BOOLEAN] /\ out'.buf = out.buf
        /\ chan' \in [Channels -> [buf : Seq(Items), closed : BOOLEAN]]
        /\ \A j \in Channels : chan'[j].buf = chan[j].buf
        /\ worker' \in [W -> [pc : {"recv", "got", "send", "exit"}, item : Items \cup {None}]]
        /\ \A w \in W : worker'[w] = worker[w]
        /\ asked' = asked \/ asked' = TRUE
    BY Zenon, <1>2, <2>1, <2>2
  <2>6. Items' = Items /\ Channels' = Channels
    BY Zenon, <2>1, ConfFrame
  <2>7. FlowType'
    BY Zenon, <1>1, <2>1, <2>3, <2>5, <2>6 DEF FlowType, None
  <2> QED BY Zenon, <2>1, <2>4, <2>5, <2>7, FlowQuiet
<1>5. ASSUME NEW i \in Channels, CloseInput(i) PROVE FlowInv'
  <2>1. /\ UNCHANGED <<conf, todo, handled, received, lost, out, worker, asked, ctxDone, returned>>
        /\ chan' = [chan EXCEPT ![i].closed = TRUE]
    BY Zenon, <1>5 DEF CloseInput
  <2>2. /\ chan' \in [Channels -> [buf : Seq(Items), closed : BOOLEAN]]
        /\ \A j \in Channels : chan'[j].buf = chan[j].buf /\ (chan[j].closed => chan'[j].closed)
    BY Zenon, <1>2, <2>1
  <2>3. W' = W /\ \A w \in W : chanOf(w)' = chanOf(w) /\ chanOf(w) \in Channels
    BY Zenon, <2>1, ConfFrame, ChanOf
  <2>4. FlowEnd'
    BY <1>1, <2>1, <2>2, <2>3 DEF FlowEnd, Exited
  <2>5. /\ out' \in [buf : Seq(Items), closed : BOOLEAN] /\ out'.buf = out.buf
        /\ chan' \in [Channels -> [buf : Seq(Items), closed : BOOLEAN]]
        /\ \A j \in Channels : chan'[j].buf = chan[j].buf
        /\ worker' \in [W -> [pc : {"recv", "got", "send", "exit"}, item : Items \cup {None}]]
        /\ \A w \in W : worker'[w] = worker[w]
        /\ asked' = asked \/ asked' = TRUE
    BY Zenon, <1>2, <2>1, <2>2
  <2>6. Items' = Items /\ Channels' = Channels
    BY Zenon, <2>1, ConfFrame
  <2>7. FlowType'
    BY Zenon, <1>1, <2>1, <2>3, <2>5, <2>6 DEF FlowType, None
  <2> QED BY Zenon, <2>1, <2>4, <2>5, <2>7, FlowQuiet
<1> QED BY Zenon, <1>3, <1>4, <1>5

LEMMA ReadStep ==
  ASSUME FlowInv, conf.kind \in FlowKinds, Read
  PROVE  FlowInv'
<1>1. FlowType /\ FlowShape /\ FlowEnd
  BY Zenon DEF FlowInv
<1>2. /\ out.buf # <<>>
      /\ received' = [received EXCEPT ![Head(out.buf)] = @ + 1]
      /\ out' = [out EXCEPT !.buf = Tail(@)]
      /\ UNCHANGED <<conf, todo, chan, worker, ctxDone, asked, handled, lost, returned>>
  BY Zenon DEF Read
<1>3. out \in [buf : Seq(Items), closed : BOOLEAN] /\ received \in [Items -> 0..1] /\ Distinct(out.buf)
  BY Zenon, <1>1 DEF FlowType, FlowShape
<1>4. PICK x \in Items : x = Head(out.buf)
  BY <1>2, <1>3
<1>5. /\ Tail(out.buf) \in Seq(Items) /\ Distinct(Tail(out.buf))
      /\ x \in Range(out.buf) /\ x \notin Range(Tail(out.buf))
      /\ \A y : y # x => (y \in Range(Tail(out.buf)) <=> y \in Range(out.buf))
  BY Zenon, <1>2, <1>3, <1>4, TailFact
<1>6. out' \in [buf : Seq(Items), closed : BOOLEAN] /\ out'.buf = Tail(out.buf)
  BY Zenon, <1>2, <1>3, <1>5
<1>7. Once(x)
  BY Zenon DEF FlowInv
<1>8. received[x] = 0
  BY Zenon, <1>5, <1>7 DEF Once
<1>9. /\ received' \in [Items -> 0..1] /\ received'[x] = 1
      /\ \A y \in Items : y # x => received'[y] = received[y]
  BY <1>2, <1>3, <1>4, <1>8
<1>10. /\ W' = W /\ Items' = Items /\ Channels' = Channels
       /\ \A w \in W : chanOf(w)' = chanOf(w)
  BY Zenon, <1>2, ConfFrame
<1>11. FlowType'
  BY ZenonT(60), <1>1, <1>2, <1>6, <1>9, <1>10 DEF FlowType, None
<1>12. conf.kind # "pool"
  BY Zenon, <1>1, <1>2 DEF FlowShape
<1>13. FlowShape'
  BY ZenonT(60), <1>1, <1>2, <1>5, <1>6, <1>10, <1>12 DEF FlowShape
<1>14. FlowEnd'
  BY Zenon, <1>1, <1>2, <1>10 DEF FlowEnd, Exited
<1>15. ASSUME NEW y \in Items, y # x PROVE Same(y)
  BY Zenon, <1>2, <1>5, <1>6, <1>9, <1>15 DEF Same
<1>16. Once(x)'
  BY Zenon, <1>2, <1>5, <1>6, <1>7, <1>10 DEF Once
<1>17. Somewhere(x)'
  BY Zenon, <1>2, <1>9, <1>12 DEF Somewhere
<1> QED BY ZenonT(60), <1>2, <1>11, <1>13, <1>14, <1>15, <1>16, <1>17, FlowMove

\* The worker's context ends only with the caller's cancel, or after the return.
LEMMA StillAsked ==
  ASSUME FlowInv, conf.kind \in FlowKinds, NEW w \in W, worker[w].pc # "exit"
  PROVE  ~returned /\ (ctxDone => asked)
BY Zenon DEF FlowInv, FlowEnd, Exited

\* A worker takes an item from its channel.
LEMMA TakeStep ==
  ASSUME FlowInv, conf.kind \in FlowKinds, NEW w \in W, NEW i \in Channels, i = chanOf(w),
         worker[w].pc = "recv", chan[i].buf # <<>>,
         chan' = [chan EXCEPT ![i].buf = Tail(@)],
         \/ ctxDone /\ Moves(w, "exit", None)
         \/ Moves(w, IF kind({"fanin", "senders"}) THEN "send" ELSE "got", Head(chan[i].buf)),
         UNCHANGED <<conf, todo, out, ctxDone, asked, handled, received, lost, returned>>
  PROVE  FlowInv'
<1>1. FlowType /\ FlowShape /\ FlowEnd
  BY Zenon DEF FlowInv
<1>2. ~returned /\ (ctxDone => asked)
  BY Zenon, StillAsked
<1>3. /\ chan \in [Channels -> [buf : Seq(Items), closed : BOOLEAN]]
      /\ worker \in [W -> [pc : {"recv", "got", "send", "exit"}, item : Items \cup {None}]]
      /\ chan[i].buf \in Seq(Items) /\ Distinct(chan[i].buf)
  BY Zenon, <1>1 DEF FlowType, FlowShape
<1>4. PICK x \in Items : x = Head(chan[i].buf)
  BY <1>3
<1>5. /\ Tail(chan[i].buf) \in Seq(Items) /\ Distinct(Tail(chan[i].buf))
      /\ x \in Range(chan[i].buf) /\ x \notin Range(Tail(chan[i].buf))
      /\ \A y : y # x => (y \in Range(Tail(chan[i].buf)) <=> y \in Range(chan[i].buf))
  BY <1>3, <1>4, TailFact
<1>6. /\ chan' \in [Channels -> [buf : Seq(Items), closed : BOOLEAN]]
      /\ chan'[i].buf = Tail(chan[i].buf)
      /\ \A j \in Channels : chan'[j].closed = chan[j].closed /\ (j # i => chan'[j].buf = chan[j].buf)
  BY ZenonT(60), <1>3, <1>5
<1>7. Once(x)
  BY Zenon DEF FlowInv
<1>8. PICK pc \in {"got", "send", "exit"}, it \in Items \cup {None} :
        /\ Moves(w, pc, it)
        /\ \/ pc = "exit" /\ ctxDone
           \/ pc = "send" /\ it = x /\ conf.kind \in {"fanin", "senders"}
           \/ pc = "got" /\ it = x /\ conf.kind \in {"pool", "fanout"}
  <2>1. CASE ctxDone /\ Moves(w, "exit", None)
    BY Zenon, <2>1
  <2>2. CASE conf.kind \in {"fanin", "senders"} /\ Moves(w, "send", x)
    BY Zenon, <2>2
  <2>3. CASE conf.kind \in {"pool", "fanout"} /\ Moves(w, "got", x)
    BY Zenon, <2>3
  <2> QED BY Zenon, <1>4, <2>1, <2>2, <2>3 DEF kind, FlowKinds
<1>9. /\ worker' \in [W -> [pc : {"recv", "got", "send", "exit"}, item : Items \cup {None}]]
      /\ worker'[w].pc = pc /\ worker'[w].item = it
      /\ \A v \in W : v # w => worker'[v] = worker[v]
  BY Zenon, <1>3, <1>8 DEF Moves, holds
<1>10. /\ W' = W /\ Items' = Items /\ Channels' = Channels
       /\ \A v \in W : chanOf(v)' = chanOf(v) /\ chanOf(v) \in Channels
  BY Zenon, ConfFrame, ChanOf
<1>11. FlowType'
  BY Zenon, <1>1, <1>6, <1>9, <1>10 DEF FlowType, None
<1>12. FlowShape'
  <2>1. \A j \in Channels : Distinct(chan'[j].buf)
    BY Zenon, <1>1, <1>5, <1>6 DEF FlowShape
  <2>2. \A v \in W : worker'[v].pc \in {"got", "send"} => worker'[v].item \in Items
    BY Zenon, <1>1, <1>8, <1>9 DEF FlowShape
  <2>3. \A v \in W : worker'[v].pc = "got" => conf.kind \in {"pool", "fanout"}
    BY Zenon, <1>1, <1>8, <1>9 DEF FlowShape
  <2>4. conf.kind = "pool" => \A v \in W : worker'[v].pc # "send"
    BY Zenon, <1>1, <1>8, <1>9 DEF FlowShape
  <2> QED BY ZenonT(60), <1>1, <1>10, <2>1, <2>2, <2>3, <2>4 DEF FlowShape
<1>13. FlowEnd'
  <2>1. ASSUME ~asked, NEW v \in W, worker'[v].pc = "exit"
        PROVE  chan'[chanOf(v)].closed /\ chan'[chanOf(v)].buf = <<>>
    <3>1. v # w
      BY ZenonT(60), <1>2, <1>8, <1>9, <2>1
    <3>2. chan[chanOf(v)].closed /\ chan[chanOf(v)].buf = <<>>
      BY ZenonT(60), <1>1, <1>9, <2>1, <3>1 DEF FlowEnd
    <3> QED BY Zenon, <1>6, <1>10, <3>2
  <2> QED BY Zenon, <1>2, <1>10, <2>1 DEF FlowEnd
<1>14. ASSUME NEW y \in Items, y # x PROVE Same(y)
  <2>1. \A v \in W : /\ Has(worker'[v], "got", y) <=> Has(worker[v], "got", y)
                     /\ Has(worker'[v], "send", y) <=> Has(worker[v], "send", y)
    BY Zenon, <1>8, <1>9, <1>14 DEF Has
  <2>2. \A j \in Channels : y \in Range(chan'[j].buf) <=> y \in Range(chan[j].buf)
    BY Zenon, <1>5, <1>6, <1>14
  <2>3. /\ y \in todo' <=> y \in todo
        /\ y \in lost => y \in lost'
        /\ y \in Range(out'.buf) <=> y \in Range(out.buf)
        /\ handled'[y] = handled[y]
        /\ received'[y] = received[y]
    BY Zenon
  <2> QED BY Zenon, <2>1, <2>2, <2>3 DEF Same
<1>15. /\ \A j \in Channels : x \notin Range(chan'[j].buf)
       /\ \A v \in W : v # w => ~Busy(worker'[v], x)
       /\ x \notin todo /\ handled[x] = 0 /\ received[x] = 0 /\ x \notin Range(out.buf)
  BY ZenonT(60), <1>5, <1>6, <1>7, <1>9 DEF Once
<1>16. Once(x)'
  <2>1. \A v \in W : Has(worker'[v], "got", x) => Busy(worker'[v], x)
    BY Zenon DEF Busy
  <2> QED BY Zenon, <1>10, <1>15, <2>1 DEF Once
<1>17. ~asked => Somewhere(x)'
  <2>1. ASSUME ~asked PROVE Busy(worker'[w], x)
    BY Zenon, <1>2, <1>8, <1>9, <2>1 DEF Busy, Has
  <2> QED BY Zenon, <1>10, <2>1 DEF Somewhere
<1> QED BY ZenonT(60), <1>11, <1>12, <1>13, <1>14, <1>16, <1>17, FlowMove

LEMMA ReceiveStep ==
  ASSUME FlowInv, conf.kind \in FlowKinds, NEW w \in W, Receive(w)
  PROVE  FlowInv'
<1>1. PICK i \in Channels : i = chanOf(w)
  BY Zenon, ChanOf
<1>2. /\ worker[w].pc = "recv"
      /\ UNCHANGED <<conf, todo, out, ctxDone, asked, handled, received, lost, returned>>
  BY Zenon DEF Receive
<1>3. CASE chan[i].buf # <<>> /\ chan' = [chan EXCEPT ![i].buf = Tail(@)]
           /\ \/ ctxDone /\ Moves(w, "exit", None)
              \/ Moves(w, IF kind({"fanin", "senders"}) THEN "send" ELSE "got", Head(chan[i].buf))
  BY Zenon, <1>1, <1>2, <1>3, TakeStep
<1>4. CASE chan[i].buf = <<>> /\ chan[i].closed /\ Moves(w, "exit", None) /\ UNCHANGED chan
  <2>1. FlowType /\ FlowShape /\ FlowEnd
    BY Zenon DEF FlowInv
  <2>2. worker \in [W -> [pc : {"recv", "got", "send", "exit"}, item : Items \cup {None}]]
    BY Zenon, <2>1 DEF FlowType
  <2>3. /\ worker' \in [W -> [pc : {"recv", "got", "send", "exit"}, item : Items \cup {None}]]
        /\ worker'[w].pc = "exit"
        /\ \A v \in W : v # w => worker'[v] = worker[v]
    BY Zenon, <1>4, <2>2 DEF Moves, holds
  <2>4. /\ W' = W /\ Items' = Items /\ Channels' = Channels
        /\ \A v \in W : chanOf(v)' = chanOf(v) /\ chanOf(v) \in Channels
    BY Zenon, <1>2, ConfFrame, ChanOf
  <2>5. FlowType'
    BY ZenonT(60), <1>2, <1>4, <2>1, <2>3, <2>4 DEF FlowType, None
  <2>6. FlowEnd'
    BY <1>1, <1>2, <1>4, <2>1, <2>3, <2>4 DEF FlowEnd, Exited
  <2>7. /\ asked' = asked /\ out'.buf = out.buf
        /\ \A j \in Channels : chan'[j].buf = chan[j].buf
        /\ \A v \in W : \/ worker'[v] = worker[v]
                        \/ worker[v].pc = "recv" /\ worker'[v].pc = "exit"
    BY Zenon, <1>2, <1>4, <2>3
  <2> QED BY ZenonT(60), <1>2, <2>5, <2>6, <2>7, FlowQuiet
<1> QED BY Zenon, <1>1, <1>3, <1>4 DEF Receive

\* A worker's item stays with it, is done, is lost, or goes out.
LEMMA ItemStep ==
  ASSUME FlowInv, conf.kind \in FlowKinds, NEW w \in W, NEW x \in Items,
         Busy(worker[w], x), NEW pc \in {"recv", "send", "exit"}, NEW it \in Items \cup {None},
         Moves(w, pc, it), pc = "send" => it = x /\ conf.kind = "fanout",
         pc = "exit" => asked,
         handled' \in [Items -> 0..1], \A y \in Items : y # x => handled'[y] = handled[y],
         out' \in [buf : Seq(Items), closed : BOOLEAN], Distinct(out'.buf),
         \A y \in Items : y # x => (y \in Range(out'.buf) <=> y \in Range(out.buf)),
         conf.kind = "pool" => out' = out,
         pc = "send" => out' = out,
         \A y \in Items : y \in lost => y \in lost',
         UNCHANGED <<conf, todo, chan, ctxDone, asked, received, returned>>,
         ~asked => \/ pc = "send" \/ x \in lost' \/ x \in Range(out'.buf)
                   \/ conf.kind = "pool" /\ handled'[x] = 1
  PROVE  FlowInv'
<1>1. FlowType /\ FlowShape /\ FlowEnd /\ Once(x)
  BY Zenon DEF FlowInv
<1>2. worker[w].pc # "exit"
  BY Zenon DEF Busy, Has
<1>3. ~returned /\ (ctxDone => asked)
  BY Zenon, <1>2, StillAsked
<1>4. worker \in [W -> [pc : {"recv", "got", "send", "exit"}, item : Items \cup {None}]]
  BY Zenon, <1>1 DEF FlowType
<1>5. /\ worker' \in [W -> [pc : {"recv", "got", "send", "exit"}, item : Items \cup {None}]]
      /\ worker'[w].pc = pc /\ worker'[w].item = it
      /\ \A v \in W : v # w => worker'[v] = worker[v]
  BY Zenon, <1>4 DEF Moves, holds
<1>6. /\ W' = W /\ Items' = Items /\ Channels' = Channels
      /\ \A v \in W : chanOf(v)' = chanOf(v) /\ chanOf(v) \in Channels
  BY Zenon, ConfFrame, ChanOf
<1>7. FlowType'
  BY Zenon, <1>1, <1>5, <1>6 DEF FlowType, None
<1>8. FlowShape'
  <2>1. \A v \in W : worker'[v].pc \in {"got", "send"} => worker'[v].item \in Items
    BY Zenon, <1>1, <1>5 DEF FlowShape
  <2>2. \A v \in W : worker'[v].pc = "got" => conf.kind \in {"pool", "fanout"}
    BY Zenon, <1>1, <1>5 DEF FlowShape
  <2>3. conf.kind = "pool" => out'.buf = <<>> /\ \A v \in W : worker'[v].pc # "send"
    BY Zenon, <1>1, <1>5 DEF FlowShape
  <2> QED BY ZenonT(60), <1>1, <1>6, <2>1, <2>2, <2>3 DEF FlowShape
<1>9. FlowEnd'
  <2>1. ASSUME ~asked, NEW v \in W, worker'[v].pc = "exit"
        PROVE  chan'[chanOf(v)].closed /\ chan'[chanOf(v)].buf = <<>>
    <3>1. v # w
      BY Zenon, <1>5, <2>1
    <3> QED BY Zenon, <1>1, <1>5, <2>1, <3>1 DEF FlowEnd
  <2> QED BY Zenon, <1>3, <1>6, <2>1 DEF FlowEnd
<1>10. ASSUME NEW y \in Items, y # x PROVE Same(y)
  <2>1. worker[w].item = x
    BY Zenon DEF Busy, Has
  <2>2. \A v \in W : /\ Has(worker'[v], "got", y) <=> Has(worker[v], "got", y)
                     /\ Has(worker'[v], "send", y) <=> Has(worker[v], "send", y)
    BY Zenon, <1>5, <1>10, <2>1 DEF Has
  <2>3. /\ y \in todo' <=> y \in todo
        /\ \A i \in Channels : y \in Range(chan'[i].buf) <=> y \in Range(chan[i].buf)
        /\ received'[y] = received[y]
    BY Zenon
  <2>4. /\ y \in lost => y \in lost'
        /\ y \in Range(out'.buf) <=> y \in Range(out.buf)
        /\ handled'[y] = handled[y]
    BY Zenon, <1>10
  <2> QED BY Zenon, <2>2, <2>3, <2>4 DEF Same
<1>11. /\ \A i \in Channels : x \notin Range(chan[i].buf)
       /\ \A v \in W : v # w => ~Busy(worker'[v], x)
       /\ x \notin todo /\ received[x] = 0 /\ x \notin Range(out.buf)
  BY Zenon, <1>1, <1>5 DEF Once
<1>12. Once(x)'
  <2>1. \A v \in W : ~Has(worker'[v], "got", x)
    BY Zenon, <1>5, <1>11 DEF Busy, Has
  <2>2. (\E v \in W : Busy(worker'[v], x)) => x \notin Range(out'.buf)
    BY Zenon, <1>5, <1>11 DEF Busy, Has
  <2> QED BY ZenonT(60), <1>6, <1>11, <2>1, <2>2 DEF Once
<1>13. ~asked => Somewhere(x)'
  <2>1. pc = "send" => Busy(worker'[w], x)
    BY Zenon, <1>5 DEF Busy, Has
  <2> QED BY Zenon, <1>6, <2>1 DEF Somewhere
<1> QED BY ZenonT(60), <1>7, <1>8, <1>9, <1>10, <1>12, <1>13, FlowMove

LEMMA HandleStep ==
  ASSUME FlowInv, NEW w \in W, Handle(w)
  PROVE  FlowInv'
<1>1. /\ conf.kind \in {"pool", "fanout"} /\ conf.kind \in FlowKinds /\ worker[w].pc = "got"
      /\ UNCHANGED <<conf, todo, chan, out, ctxDone, asked, received, returned>>
  BY Zenon DEF Handle, kind, FlowKinds
<1>2. FlowType /\ FlowShape
  BY Zenon, <1>1 DEF FlowInv
<1>3. PICK x \in Items : x = worker[w].item
  BY Zenon, <1>1, <1>2 DEF FlowShape
<1>4. Busy(worker[w], x) /\ Has(worker[w], "got", x)
  BY Zenon, <1>1, <1>3 DEF Busy, Has
<1>5. Once(x)
  BY Zenon, <1>1 DEF FlowInv
<1>6. /\ handled \in [Items -> 0..1] /\ handled[x] = 0
      /\ out \in [buf : Seq(Items), closed : BOOLEAN] /\ Distinct(out.buf)
  BY Zenon, <1>2, <1>4, <1>5 DEF FlowType, FlowShape, Once
<1>7. CASE Handled(x) /\ lost' = lost
           /\ IF kind({"pool"}) THEN Moves(w, "recv", None) ELSE Moves(w, "send", x)
  <2>1. /\ handled' \in [Items -> 0..1] /\ handled'[x] = 1
        /\ \A y \in Items : y # x => handled'[y] = handled[y]
    BY <1>6, <1>7 DEF Handled
  <2>2. CASE conf.kind = "pool" /\ Moves(w, "recv", None)
    BY ZenonT(60), <1>1, <1>4, <1>6, <1>7, <2>1, <2>2, ItemStep
  <2>3. CASE conf.kind = "fanout" /\ Moves(w, "send", x)
    BY <1>1, <1>4, <1>6, <1>7, <2>1, <2>3, ItemStep
  <2> QED BY ZenonT(60), <1>1, <1>7, <2>2, <2>3 DEF kind
<1>8. CASE lost' = lost \cup {x} /\ Moves(w, "recv", None) /\ UNCHANGED handled
  BY ZenonT(60), <1>1, <1>4, <1>6, <1>8, ItemStep
<1> QED BY Zenon, <1>3, <1>7, <1>8 DEF Handle

LEMMA SendStep ==
  ASSUME FlowInv, conf.kind \in FlowKinds, NEW w \in W, Send(w)
  PROVE  FlowInv'
<1>1. /\ worker[w].pc = "send"
      /\ UNCHANGED <<conf, todo, chan, ctxDone, asked, handled, received, lost, returned>>
  BY Zenon DEF Send
<1>2. FlowType /\ FlowShape /\ conf.kind # "pool"
  BY Zenon, <1>1 DEF FlowInv, FlowShape
<1>3. PICK x \in Items : x = worker[w].item
  BY Zenon, <1>1, <1>2 DEF FlowShape
<1>4. Busy(worker[w], x)
  BY Zenon, <1>1, <1>3 DEF Busy, Has
<1>5. Once(x)
  BY Zenon DEF FlowInv
<1>6. /\ handled \in [Items -> 0..1] /\ x \notin Range(out.buf)
      /\ out \in [buf : Seq(Items), closed : BOOLEAN] /\ Distinct(out.buf)
  BY Zenon, <1>2, <1>4, <1>5 DEF FlowType, FlowShape, Once
<1>7. CASE out' = [out EXCEPT !.buf = Append(@, x)] /\ Moves(w, "recv", None)
  <2>1. /\ Append(out.buf, x) \in Seq(Items) /\ Distinct(Append(out.buf, x))
        /\ x \in Range(Append(out.buf, x))
        /\ \A y : y # x => (y \in Range(Append(out.buf, x)) <=> y \in Range(out.buf))
    BY Zenon, <1>6, AppendFact
  <2>2. out' \in [buf : Seq(Items), closed : BOOLEAN] /\ out'.buf = Append(out.buf, x)
    BY Zenon, <1>6, <1>7, <2>1
  <2>3. /\ Distinct(out'.buf) /\ x \in Range(out'.buf)
        /\ \A y \in Items : y # x => (y \in Range(out'.buf) <=> y \in Range(out.buf))
    BY Zenon, <2>1, <2>2
  <2> QED BY ZenonT(60), <1>1, <1>2, <1>4, <1>6, <1>7, <2>2, <2>3, ItemStep
<1>8. CASE ctxDone /\ UNCHANGED out
           /\ Moves(w, IF kind({"senders"}) THEN "recv" ELSE "exit", None)
  <2>1. asked
    BY ZenonT(60), <1>1, <1>8, StillAsked
  <2>2. CASE Moves(w, "recv", None)
    BY <1>1, <1>2, <1>4, <1>6, <1>8, <2>1, <2>2, ItemStep
  <2>3. CASE Moves(w, "exit", None)
    BY <1>1, <1>2, <1>4, <1>6, <1>8, <2>1, <2>3, ItemStep
  <2> QED BY Zenon, <1>8, <2>2, <2>3
<1> QED BY Zenon, <1>3, <1>7, <1>8 DEF Send

LEMMA FlowInit == Init => FlowInv
<1> SUFFICES ASSUME Init, conf.kind \in FlowKinds PROVE FlowInv
  BY Zenon DEF FlowInv
<1>1. /\ out = [buf |-> <<>>, closed |-> FALSE] /\ returned = FALSE /\ ctxDone = FALSE
      /\ worker = [w \in W |-> [pc |-> "recv", item |-> None]]
      /\ handled = [x \in Items |-> 0] /\ received = [x \in Items |-> 0]
      /\ conf \in Configs
  BY Zenon DEF Init, holds
<1>2. /\ worker \in [W -> [pc : {"recv", "got", "send", "exit"}, item : Items \cup {None}]]
      /\ \A w \in W : worker[w].pc = "recv"
      /\ out \in [buf : Seq(Items), closed : BOOLEAN] /\ out.buf = <<>>
  BY <1>1
<1>3. /\ Distinct(<<>>) /\ Range(<<>>) = {}
      /\ \A w \in W, x \in Items : ~Busy(worker[w], x) /\ ~Has(worker[w], "got", x)
  BY <1>2 DEF Distinct, Range, Busy, Has
<1>4. /\ todo \subseteq Items
      /\ chan \in [Channels -> [buf : Seq(Items), closed : BOOLEAN]]
      /\ \A i \in Channels : Distinct(chan[i].buf)
      /\ \A x \in Items, i, j \in Channels :
           x \in Range(chan[i].buf) /\ x \in Range(chan[j].buf) => i = j
      /\ \A x \in todo, i \in Channels : x \notin Range(chan[i].buf)
      /\ \A x \in Items : x \in todo \/ \E i \in Channels : x \in Range(chan[i].buf)
  <2>1. CASE conf.kind = "senders"
    <3>1. /\ Channels = W /\ todo = {}
          /\ chan = [w \in W |-> [buf |-> Shard(w, conf.items), closed |-> TRUE]]
          /\ \A w \in W : chan[w].buf \in Seq(Items) /\ Distinct(chan[w].buf)
          /\ \A x \in Items : \E w \in W : x \in Range(chan[w].buf)
          /\ \A v, w \in W, x \in Items : x \in Range(chan[v].buf) /\ x \in Range(chan[w].buf) => v = w
      BY Zenon, <2>1, ShardsInit DEF Distinct
    <3>2. \A w \in W : Shard(w, conf.items) \in Seq(Items)
      BY Zenon, <3>1
    <3>3. chan \in [Channels -> [buf : Seq(Items), closed : BOOLEAN]]
      BY Zenon, <3>1, <3>2
    <3> QED BY <3>1, <3>3
  <2>2. CASE conf.kind # "senders"
    <3>0. kind({"senders", "sharded"}) = FALSE
      BY <2>2 DEF kind, FlowKinds
    <3>1. todo = Items /\ chan = [i \in Channels |-> [buf |-> <<>>, closed |-> FALSE]]
      BY Zenon, <3>0 DEF Init
    <3>2. \A i \in Channels : chan[i].buf = <<>>
      BY Zenon, <3>1
    <3>3. chan \in [Channels -> [buf : Seq(Items), closed : BOOLEAN]]
      BY <3>1
    <3> QED BY Zenon, <1>3, <3>1, <3>2, <3>3
  <2> QED BY ZenonT(60), <2>1, <2>2
<1>5. FlowType
  <2>1. handled \in [Items -> 0..1] /\ received \in [Items -> 0..1]
    BY <1>1
  <2> QED BY ZenonT(60), <1>1, <1>2, <1>4, <2>1 DEF FlowType
<1>6. FlowShape /\ FlowEnd
  BY Zenon, <1>1, <1>2, <1>3, <1>4 DEF FlowShape, FlowEnd
<1>7. ASSUME NEW x \in Items PROVE Once(x) /\ Somewhere(x)
  <2>1. handled[x] = 0 /\ received[x] = 0 /\ x \notin Range(out.buf)
    BY Zenon, <1>1, <1>2, <1>3
  <2>2. Once(x)
    BY Zenon, <1>3, <1>4, <2>1 DEF Once
  <2>3. Somewhere(x)
    BY Zenon, <1>4 DEF Somewhere
  <2> QED BY Zenon, <2>2, <2>3
<1> QED BY Zenon, <1>5, <1>6, <1>7 DEF FlowInv

LEMMA FlowStep ==
  ASSUME FlowInv, [Next]_vars
  PROVE  FlowInv'
<1>1. CASE conf.kind \notin FlowKinds
  <2>1. conf' = conf
    BY Zenon DEF Next, vars, Submit, Produce, Cancel, Read, Return, CloseInput, Publish, Deliver,
           DropConnection, StartReturns, StartAgain, WorkerStep, Receive, Handle, Send, RunShard,
           Work, process
  <2> QED BY ZenonT(60), <1>1, <2>1 DEF FlowInv, FlowKinds
<1>2. CASE conf.kind \in FlowKinds
  <2>1. CASE Cancel \/ Return \/ (\E i \in Channels : CloseInput(i)) \/ UNCHANGED vars
    BY Zenon, <1>2, <2>1, QuietStep
  <2>2. CASE Publish \/ Deliver \/ DropConnection \/ StartReturns \/ StartAgain
    BY Zenon, <1>2, <2>2 DEF Publish, Deliver, DropConnection, StartReturns, StartAgain, kind, FlowKinds
  <2>3. ASSUME NEW w \in W, WorkerStep(w)
        PROVE  FlowInv'
    <3>1. ~RunShard(w) /\ ~Work(w) /\ ~process(w)
      BY Zenon, <1>2 DEF RunShard, Work, process, kind, FlowKinds
    <3> QED BY ZenonT(60), <1>2, <2>3, <3>1, ReceiveStep, HandleStep, SendStep DEF WorkerStep
  <2> QED BY ZenonT(60), <1>2, <2>1, <2>2, <2>3, SubmitStep, ProduceStep, ReadStep DEF Next
<1> QED BY Zenon, <1>1, <1>2

\* The drain of the pool, the pipelines, the sender group and the shards: when
\* it is over no worker is left, no item was handled or received twice, and,
\* unless the caller cancelled, everything accepted has been dealt with.
THEOREM DrainIsCompleteAlways == Spec => []DrainIsComplete
<1> DEFINE Inv == FlowInv /\ ShardInv /\ conf \in Configs
<1>1. Init => Inv
  BY Zenon, FlowInit, ShardInit DEF Init
<1>2. Inv /\ [Next]_vars => Inv'
  <2>1. [Next]_vars => conf' = conf
    BY Zenon DEF Next, vars, Submit, Produce, Cancel, Read, Return, CloseInput, Publish, Deliver,
           DropConnection, StartReturns, StartAgain, WorkerStep, Receive, Handle, Send, RunShard,
           Work, process
  <2> QED BY Zenon, <2>1, FlowStep, ShardStep
<1>3. Inv => DrainIsComplete
  <2> SUFFICES ASSUME Inv PROVE DrainIsComplete
    BY Zenon
  <2>1. conf.kind \in FlowKinds \/ conf.kind \in {"sharded", "amqp"}
    BY Zenon, WorkersAssumption DEF FlowKinds
  <2>2. CASE conf.kind = "amqp"
    BY Zenon, <2>2 DEF DrainIsComplete, kind
  <2>3. CASE conf.kind = "sharded"
    <3>1. /\ returned => Exited
          /\ \A x \in Items : handled[x] <= 1 /\ received[x] <= 1
      BY <2>3 DEF ShardInv, kind
    <3>2. ASSUME returned, NEW x \in Items \ (todo \cup lost)
          PROVE  handled[x] = 1
      <4>1. PICK w \in W : x \in Range(chan[w].buf)
        BY Zenon, <2>3 DEF ShardInv, kind
      <4>2. worker[w].pc = "exit"
        BY Zenon, <3>1, <3>2 DEF Exited
      <4> QED BY ZenonT(60), <2>3, <3>2, <4>1, <4>2 DEF ShardInv, kind
    <3> QED BY ZenonT(60), <2>3, <3>1, <3>2 DEF DrainIsComplete, kind
  <2>4. CASE conf.kind \in FlowKinds
    <3>1. FlowType /\ FlowEnd /\ FlowShape
      BY Zenon, <2>4 DEF FlowInv
    <3>2. \A x \in Items : handled[x] <= 1 /\ received[x] <= 1
      <4>1. handled \in [Items -> 0..1] /\ received \in [Items -> 0..1]
        BY Zenon, <3>1 DEF FlowType
      <4> QED BY ONLY <4>1
    <3>3. ASSUME returned, ~asked, out.buf = <<>>, NEW x \in Items \ (todo \cup lost)
          PROVE  IF conf.kind = "pool" THEN handled[x] = 1 ELSE received[x] = 1
      <4>1. \A w \in W : worker[w].pc = "exit"
        BY Zenon, <3>1, <3>3 DEF FlowEnd, Exited
      <4>2. \A i \in Channels : \E w \in W : i = chanOf(w)
        <5>1. CASE shared
          <6>1. 1 \in W
            BY <2>4, <5>1, WorkersAssumption DEF shared, kind, W
          <6> QED BY Zenon, <5>1, <6>1 DEF Channels, chanOf
        <5>2. CASE ~shared
          BY Zenon, <5>2 DEF Channels, chanOf
        <5> QED BY Zenon, <5>1, <5>2
      <4>3. \A i \in Channels : chan[i].buf = <<>>
        BY ZenonT(60), <3>1, <3>3, <4>1, <4>2 DEF FlowEnd
      <4>4. Range(<<>>) = {} /\ \A w \in W : ~Busy(worker[w], x)
        BY <4>1 DEF Range, Busy, Has
      <4>5. Somewhere(x)
        BY Zenon, <2>4, <3>3 DEF FlowInv
      <4> QED BY ZenonT(60), <3>3, <4>3, <4>4, <4>5 DEF Somewhere
    <3> QED BY ZenonT(60), <2>4, <3>1, <3>2, <3>3 DEF DrainIsComplete, FlowEnd, kind, FlowKinds
  <2> QED BY Zenon, <2>1, <2>2, <2>3, <2>4
<1> QED BY <1>1, <1>2, <1>3, PTL DEF Spec
=============================================================================
