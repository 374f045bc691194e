------------------------------- MODULE Workers ------------------------------
(***************************************************************************)
(* Goroutines that range over channels: WorkerPool, FanOut, FanIn,         *)
(* SenderGroup, ProcessSharded(WithError), and the AMQP task consumer with *)
(* the broker behind it.  conf.kind names the one in use.                  *)
(*                                                                         *)
(* A worker is at "recv" (range, or a select on the channel), "got" (it    *)
(* holds an item), "send" (it has a result to send) or "exit" (wg.Done).   *)
(***************************************************************************)
EXTENDS Integers, Sequences, FiniteSets, Functions

CONSTANTS
  Configs,    \* kind, workers, items and capacities
  MaxWorkers, \* bound: workers of any configuration
  MaxEpochs,  \* bound: AMQP channels opened in one behaviour
  MaxFaults   \* bound: handlers that fail, connections that drop

\* Only FanIn, of no channels, can be without workers.
ASSUME WorkersAssumption ==
  \A k \in Configs :
    /\ k.kind \in {"pool", "fanout", "fanin", "senders", "sharded", "amqp"}
    /\ k.workers \in Nat /\ k.items \in Nat
    /\ k.kind # "fanin" => k.workers > 0

VARIABLES
  conf,
  todo,       \* items not yet submitted, produced or published
  chan,       \* input channels: what they hold, and whether they are closed
  worker,     \* each worker's place and item
  out,        \* the output channel
  ctxDone,    \* the context the workers see has ended
  asked,      \* history: the caller ended it
  handled,    \* history: item -> times its handler succeeded
  received,   \* history: item -> times the reader of out got it
  lost,       \* history: items refused, or whose handler failed
  returned,   \* Stop, Process... or Start has returned
  broker,     \* AMQP: ready tasks, unacknowledged deliveries, and the settled
  faults

flow == <<todo, chan, worker, out, ctxDone, asked, handled, received, lost, returned>>
vars == <<conf, flow, broker, faults>>

None     == 0
Fault    == faults > 0 /\ faults' = faults - 1
kind(K)  == conf.kind \in K
Items    == 1..conf.items
W        == 1..conf.workers
shared   == kind({"pool", "fanout", "amqp"})
chanOf(w) == IF shared THEN 1 ELSE w
Channels == IF shared THEN {1} ELSE W
holds(pc, item) == [pc |-> pc, item |-> item]
Moves(w, pc, item) == worker' = [worker EXCEPT ![w] = holds(pc, item)]
Exited == \A w \in W : worker[w].pc = "exit"

\* The i-th sub-slice of n items: the first n % workers shards get one more.
Shard(i, n) ==
  LET base == n \div conf.workers
      rem  == n % conf.workers
      off  == (i - 1) * base + (IF i - 1 < rem THEN i - 1 ELSE rem)
      size == base + (IF i - 1 < rem THEN 1 ELSE 0)
  IN [k \in 1..size |-> off + k]

\* The items of a SenderGroup's senders, or the shards, are there from the start.
Init ==
  /\ conf \in Configs
  /\ todo = IF kind({"senders", "sharded"}) THEN {} ELSE Items
  /\ chan = [i \in Channels |->
               [buf |-> IF kind({"senders", "sharded"}) THEN Shard(i, conf.items) ELSE <<>>,
                closed |-> kind({"senders", "sharded"})]]
  /\ worker = [w \in W |-> holds("recv", None)]
  /\ out = [buf |-> <<>>, closed |-> FALSE]
  /\ ctxDone = FALSE /\ asked = FALSE /\ returned = FALSE
  /\ handled = [x \in Items |-> 0]
  /\ received = [x \in Items |-> 0]
  /\ lost = {}
  /\ broker = [ready |-> {}, unacked |-> {}, acked |-> {}, discarded |-> {}, epoch |-> 1]
  /\ faults = MaxFaults

---------------------------------------------------------------------------
\* The caller's side.

Put(i, x) == chan' = [chan EXCEPT ![i].buf = Append(@, x)]

\* WorkerPool.Submit never blocks.  A full queue is an error; the send on a queue
\* that Stop has closed panics in the caller.  Neither accepts the item.
Submit ==
  /\ kind({"pool"})
  /\ \E x \in todo :
       /\ todo' = todo \ {x}
       /\ IF ~chan[1].closed /\ Len(chan[1].buf) < conf.cap THEN Put(1, x) /\ UNCHANGED lost
          ELSE lost' = lost \cup {x} /\ UNCHANGED chan
  /\ UNCHANGED <<conf, worker, out, ctxDone, asked, handled, received, returned, broker, faults>>

\* The producer of FanOut's or FanIn's input blocks while the channel is full.
Produce ==
  /\ kind({"fanout", "fanin"})
  /\ \E x \in todo, i \in Channels :
       /\ ~chan[i].closed /\ Len(chan[i].buf) < conf.cap
       /\ Put(i, x)
       /\ todo' = todo \ {x}
  /\ UNCHANGED <<conf, worker, out, ctxDone, asked, handled, received, lost, returned, broker, faults>>

\* Mutant of CloseInput: Stop cancels the context before it waits.
CloseInput_Cancels(i) ==
  /\ kind({"pool", "fanout", "fanin"}) /\ ~chan[i].closed
  /\ chan' = [chan EXCEPT ![i].closed = TRUE]
  /\ ctxDone' = (ctxDone \/ kind({"pool"}))
  /\ UNCHANGED <<conf, todo, worker, out, asked, handled, received, lost, returned, broker, faults>>

\* The producer closes its channel, or Stop closes the pool's queue.
CloseInput(i) ==
  /\ kind({"pool", "fanout", "fanin"}) /\ ~chan[i].closed
  /\ chan' = [chan EXCEPT ![i].closed = TRUE]
  /\ UNCHANGED <<conf, todo, worker, out, ctxDone, asked, handled, received, lost, returned,
                 broker, faults>>

Cancel ==
  /\ ~ctxDone
  /\ ctxDone' = TRUE /\ asked' = TRUE
  /\ UNCHANGED <<conf, todo, chan, worker, out, handled, received, lost, returned, broker, faults>>

\* The reader of the output channel.
Read ==
  /\ out.buf # <<>>
  /\ received' = [received EXCEPT ![Head(out.buf)] = @ + 1]
  /\ out' = [out EXCEPT !.buf = Tail(@)]
  /\ UNCHANGED <<conf, todo, chan, worker, ctxDone, asked, handled, lost, returned, broker, faults>>

\* wg.Wait is over: out is closed, or Stop or ProcessSharded returns.
Return ==
  /\ Exited /\ ~returned
  /\ ~kind({"amqp"})
  /\ returned' = TRUE
  /\ out' = [out EXCEPT !.closed = TRUE]
  /\ ctxDone' = (ctxDone \/ kind({"pool", "sharded"}))
  /\ UNCHANGED <<conf, todo, chan, worker, asked, handled, received, lost, broker, faults>>

---------------------------------------------------------------------------
\* The workers.

\* range: an item, or the channel is closed and empty.  The pool's and FanOut's
\* workers look at the context only now, with the item in hand.
Receive(w) ==
  LET i == chanOf(w) IN
  /\ worker[w].pc = "recv" /\ ~kind({"sharded", "amqp"})
  /\ \/ /\ chan[i].buf # <<>>
        /\ LET x == Head(chan[i].buf) IN
           /\ chan' = [chan EXCEPT ![i].buf = Tail(@)]
           /\ IF ctxDone /\ kind({"pool", "fanout"})
              THEN Moves(w, "exit", None)
              ELSE Moves(w, IF kind({"fanin", "senders"}) THEN "send" ELSE "got", x)
     \/ /\ chan[i].buf = <<>> /\ chan[i].closed
        /\ Moves(w, "exit", None)
        /\ UNCHANGED chan
  /\ UNCHANGED <<conf, todo, out, ctxDone, asked, handled, received, lost, returned, broker, faults>>

Handled(x) == handled' = [handled EXCEPT ![x] = @ + 1]

\* The pool's handler, or FanOut's fn: an error is reported and the item is over.
Handle(w) ==
  LET x == worker[w].item IN
  /\ worker[w].pc = "got" /\ kind({"pool", "fanout"})
  /\ \/ /\ Handled(x)
        /\ IF kind({"pool"}) THEN Moves(w, "recv", None) ELSE Moves(w, "send", x)
        /\ UNCHANGED <<lost, faults>>
     \/ /\ Fault
        /\ lost' = lost \cup {x}
        /\ Moves(w, "recv", None)
        /\ UNCHANGED handled
  /\ UNCHANGED <<conf, todo, chan, out, ctxDone, asked, received, returned, broker>>

\* Mutant of Send: a plain send, which nobody may ever receive.
Send_Blocks(w) ==
  /\ worker[w].pc = "send"
  /\ Len(out.buf) < conf.workers
  /\ out' = [out EXCEPT !.buf = Append(@, worker[w].item)]
  /\ Moves(w, "recv", None)
  /\ UNCHANGED <<conf, todo, chan, ctxDone, asked, handled, received, lost, returned, broker, faults>>

\* select: the result is sent, or the context ends.  A sender goes on to its
\* next value, the other workers return.
Send(w) ==
  /\ worker[w].pc = "send"
  /\ \/ /\ Len(out.buf) < conf.workers
        /\ out' = [out EXCEPT !.buf = Append(@, worker[w].item)]
        /\ Moves(w, "recv", None)
     \/ /\ ctxDone
        /\ Moves(w, IF kind({"senders"}) THEN "recv" ELSE "exit", None)
        /\ UNCHANGED out
  /\ UNCHANGED <<conf, todo, chan, ctxDone, asked, handled, received, lost, returned, broker, faults>>

\* fn(shard): an error, its own or the context's, cancels the other shards.
RunShard(w) ==
  LET shard == Range(chan[w].buf) IN
  /\ worker[w].pc = "recv" /\ kind({"sharded"})
  /\ Moves(w, "exit", None)
  /\ \/ handled' = [x \in Items |-> handled[x] + IF x \in shard THEN 1 ELSE 0]
        /\ UNCHANGED <<lost, ctxDone, faults>>
     \/ Fault /\ lost' = lost \cup shard /\ ctxDone' = TRUE /\ UNCHANGED handled
     \/ ctxDone /\ lost' = lost \cup shard /\ UNCHANGED <<handled, ctxDone, faults>>
  /\ UNCHANGED <<conf, todo, chan, out, asked, received, returned, broker>>

---------------------------------------------------------------------------
\* AMQP.  A delivery is a task and the channel epoch it belongs to: after the
\* channel is gone its acknowledgement has no effect.

open == ~chan[1].closed

\* TaskPublisher.Publish, with the connection's retries behind it.
Publish ==
  /\ kind({"amqp"})
  /\ \E x \in todo :
       /\ todo' = todo \ {x}
       /\ \/ broker' = [broker EXCEPT !.ready = @ \cup {x}] /\ UNCHANGED <<lost, faults>>
          \/ Fault /\ lost' = lost \cup {x} /\ UNCHANGED broker
  /\ UNCHANGED <<conf, chan, worker, out, ctxDone, asked, handled, received, returned>>

\* The broker sends a ready task while fewer than prefetch are unacknowledged.
Deliver ==
  /\ kind({"amqp"}) /\ open /\ ~ctxDone
  /\ Cardinality(broker.unacked) < conf.cap
  /\ \E x \in broker.ready :
       /\ broker' = [broker EXCEPT !.ready = @ \ {x}, !.unacked = @ \cup {x}]
       /\ Put(1, <<x, broker.epoch>>)
  /\ UNCHANGED <<conf, todo, worker, out, ctxDone, asked, handled, received, lost, returned, faults>>

\* What was not acknowledged on a channel is ready again when it goes.
Requeued(b) == [b EXCEPT !.ready = @ \cup b.unacked, !.unacked = {}, !.epoch = @ + 1]

DropConnection ==
  /\ kind({"amqp"}) /\ open /\ Fault
  /\ chan' = [chan EXCEPT ![1].closed = TRUE]
  /\ broker' = Requeued(broker)
  /\ UNCHANGED <<conf, todo, worker, out, ctxDone, asked, handled, received, lost, returned>>

\* Consumer.work: the select picks any ready case.
Work(w) ==
  /\ kind({"amqp"}) /\ worker[w].pc = "recv"
  /\ \/ ctxDone /\ Moves(w, "exit", None) /\ UNCHANGED chan
     \/ chan[1].buf # <<>> /\ Moves(w, "got", Head(chan[1].buf))
        /\ chan' = [chan EXCEPT ![1].buf = Tail(@)]
     \/ chan[1].buf = <<>> /\ ~open /\ Moves(w, "exit", None) /\ UNCHANGED chan
  /\ UNCHANGED <<conf, todo, out, ctxDone, asked, handled, received, lost, returned, broker, faults>>

current(d) == d[2] = broker.epoch
Settle(d, to) ==
  broker' = IF ~current(d) THEN broker
            ELSE CASE to = "ack"     -> [broker EXCEPT !.unacked = @ \ {d[1]}, !.acked = @ \cup {d[1]}]
                   [] to = "discard" -> [broker EXCEPT !.unacked = @ \ {d[1]}, !.discarded = @ \cup {d[1]}]
                   [] to = "requeue" -> [broker EXCEPT !.unacked = @ \ {d[1]}, !.ready = @ \cup {d[1]}]

\* Mutant of process: the delivery is acknowledged before the handler runs.
process_AckFirst(w) ==
  LET d == worker[w].item IN
  /\ kind({"amqp"}) /\ worker[w].pc = "got"
  /\ \/ d[1] \in conf.malformed /\ Settle(d, "discard") /\ UNCHANGED <<handled, faults>>
     \/ d[1] \notin conf.malformed /\ Settle(d, "ack") /\ Handled(d[1]) /\ UNCHANGED faults
     \/ d[1] \notin conf.malformed /\ Settle(d, "ack") /\ Fault /\ UNCHANGED handled
  /\ Moves(w, "recv", None)
  /\ UNCHANGED <<conf, todo, chan, out, ctxDone, asked, received, lost, returned>>

\* Consumer.process: discard what does not parse, requeue what failed (or ran
\* out of its context), acknowledge the rest.
process(w) ==
  LET d == worker[w].item IN
  /\ kind({"amqp"}) /\ worker[w].pc = "got"
  /\ \/ d[1] \in conf.malformed /\ Settle(d, "discard") /\ UNCHANGED <<handled, faults>>
     \/ d[1] \notin conf.malformed /\ Handled(d[1]) /\ Settle(d, "ack") /\ UNCHANGED faults
     \/ d[1] \notin conf.malformed /\ Settle(d, "requeue") /\ Fault /\ UNCHANGED handled
     \/ d[1] \notin conf.malformed /\ ctxDone /\ Settle(d, "requeue") /\ UNCHANGED <<handled, faults>>
  /\ Moves(w, "recv", None)
  /\ UNCHANGED <<conf, todo, chan, out, ctxDone, asked, received, lost, returned>>

\* Start returns once the context has ended and the workers are gone, and its
\* deferred Close gives back what the channel still held.
StartReturns ==
  /\ kind({"amqp"}) /\ ctxDone /\ Exited /\ ~returned
  /\ returned' = TRUE
  /\ chan' = [chan EXCEPT ![1] = [buf |-> <<>>, closed |-> TRUE]]
  /\ broker' = IF open THEN Requeued(broker) ELSE broker
  /\ UNCHANGED <<conf, todo, worker, out, ctxDone, asked, handled, received, lost, faults>>

\* The service starts its consumer again: Channel reconnects if it must.
StartAgain ==
  /\ kind({"amqp"}) /\ returned /\ broker.epoch < MaxEpochs
  /\ chan' = [chan EXCEPT ![1] = [buf |-> <<>>, closed |-> FALSE]]
  /\ worker' = [w \in W |-> holds("recv", None)]
  /\ ctxDone' = FALSE /\ returned' = FALSE
  /\ UNCHANGED <<conf, todo, out, asked, handled, received, lost, broker, faults>>

WorkerStep(w) == Receive(w) \/ Handle(w) \/ Send(w) \/ RunShard(w) \/ Work(w) \/ process(w)

Next ==
  \/ Submit \/ Produce \/ Cancel \/ Read \/ Return
  \/ \E i \in Channels : CloseInput(i)
  \/ Publish \/ Deliver \/ DropConnection \/ StartReturns \/ StartAgain
  \/ \E w \in W : WorkerStep(w)

Spec == Init /\ [][Next]_vars

\* Goroutines run when they can, the reader of out reads as long as nothing is
\* cancelled, and a broker with a consumer delivers.  Nobody has to produce,
\* close, cancel or restart.
FairSpec ==
  /\ Spec
  /\ \A w \in 1..MaxWorkers : WF_vars(w \in W /\ WorkerStep(w))
  /\ WF_vars(Return) /\ WF_vars(StartReturns) /\ WF_vars(Deliver)
  /\ WF_vars(Read /\ ~ctxDone)

---------------------------------------------------------------------------
inHand == {worker[w].item : w \in {v \in W : worker[v].pc \in {"got", "send"}}}
waiting == UNION {Range(chan[i].buf) : i \in Channels}

\* A drain is complete, and nothing happens after it.  When the output channel
\* is closed, or Stop or ProcessSharded returns, no worker is left that could
\* send on it; unless the caller cancelled, everything a pool accepted or a
\* channel carried has by then been handled, and read from the output, exactly
\* once, or its own handler failed.
DrainIsComplete ==
  ~kind({"amqp"}) =>
    /\ returned => Exited
    /\ \A x \in Items : handled[x] <= 1 /\ received[x] <= 1
    /\ returned /\ ~asked /\ out.buf = <<>> =>
         \A x \in Items \ (todo \cup lost) :
           IF kind({"pool", "sharded"}) THEN handled[x] = 1 ELSE received[x] = 1

\* A task of the AMQP queue is never lost: published, it is ready, out on the
\* current channel, or settled, in one place only; it is acknowledged only
\* after a handler succeeded and discarded only if it does not parse.
TasksConserved ==
  kind({"amqp"}) =>
    LET places == <<broker.ready, broker.unacked, broker.acked, broker.discarded>> IN
    /\ \A x \in Items \ (todo \cup lost) : \E i \in 1..4 : x \in places[i]
    /\ \A i, j \in 1..4 : i # j => places[i] \cap places[j] = {}
    /\ \A x \in broker.acked : handled[x] > 0
    /\ broker.discarded \subseteq conf.malformed
    /\ \A x \in broker.unacked : <<x, broker.epoch>> \in (waiting \cup inHand)

\* Once every input is closed the workers finish and Stop, Close of the output
\* or Process... happens, cancelled or not; once its context ends the consumer's
\* Start returns, even if the connection dropped under it.
EverybodyGoesHome ==
  /\ ((~kind({"amqp"}) /\ \A i \in Channels : chan[i].closed) ~> returned)
  /\ ((kind({"amqp"}) /\ ctxDone) ~> returned)

\* FanOut's comment: "If ctx is cancelled, workers stop reading from in and drain
\* completes once in-flight work finishes."
CancelEndsFanOut == (kind({"fanout"}) /\ ctxDone) ~> returned
=============================================================================
