------------------------------ MODULE Caching ------------------------------
(***************************************************************************)
(* One cached key, seen by the pods of a service: cqrs.WithQueryCaching or *)
(* decorator.WithCache over cache.LocalCache (L1, one per pod) over        *)
(* cache.SingleflightCache over Redis, and commands that evict the key     *)
(* with WithCommandCacheInvalidation.                                      *)
(*                                                                         *)
(* A cached value is the number of the write it was read after.  Time is   *)
(* in ticks: an entry knows the ticks it has left, and age[v] counts the   *)
(* ticks since value v was overwritten in the database.                    *)
(***************************************************************************)
EXTENDS Integers, FiniteSets

CONSTANTS
  Clients,    \* goroutines that run a query or a command
  Pods,
  Configs,    \* drivers, adapters and deployments to choose from
  TTL,        \* of the entries in Redis
  LocalTTL,   \* of the entries in L1
  Timeout,    \* bound on one call: Redis' timeouts, the request's deadline
  MaxWrites,  \* bound: commands that succeed
  MaxFaults   \* bound: failing calls and crashes

ASSUME CachingAssumption ==
  /\ \A c \in Configs : /\ c.redis \in BOOLEAN /\ c.local \in BOOLEAN
                        /\ c.json \in BOOLEAN /\ c.podOf \in [Clients -> Pods]
  /\ TTL \in Nat \ {0} /\ LocalTTL \in Nat \ {0}
  /\ Timeout \in Nat /\ MaxWrites \in Nat /\ MaxFaults \in Nat

VARIABLES
  conf,     \* [redis, local, json, podOf]: what NewClient was asked for,
            \* which of the two middlewares reads, and where clients run
  db,       \* the value in the database
  age,      \* age of each value
  redis,    \* the remote entry
  local,    \* L1 of each pod
  flight,   \* the singleflight call of each pod
  op,       \* what each client is doing
  writer,   \* history: the pod of the last command
  raced,    \* history: a query overlapped a command, or an eviction failed
  faults    \* calls that may still fail

history == <<writer, raced>>
vars    == <<conf, db, age, redis, local, flight, op, writer, raced, faults>>

Values == 0..MaxWrites

PodOf == conf.podOf

\* An entry: a value, the ticks it has left, and whether its bytes decode.
Entries == [val : Values, left : 0..(TTL + LocalTTL), ok : BOOLEAN]
None    == [val |-> 0, left |-> 0, ok |-> TRUE]

NoFlight == [on |-> FALSE, read |-> FALSE, hit |-> FALSE, val |-> 0, ok |-> TRUE,
             members |-> {}, hold |-> 0]
Idle     == [pc |-> "idle", val |-> 0, ok |-> TRUE, hold |-> 0]

\* The client goes to pc; hold counts the ticks it spends there.
At(pc, v, ok) == [pc |-> pc, val |-> v, ok |-> ok, hold |-> 0]
Goes(c, pc, v, ok) == op' = [op EXCEPT ![c] = At(pc, v, ok)]
Returns(c)         == op' = [op EXCEPT ![c] = Idle]

Fault == faults > 0 /\ faults' = faults - 1

Init ==
  /\ conf \in Configs
  /\ db = 0
  /\ age = [v \in Values |-> 0]
  /\ redis \in {None} \cup
       (IF conf.redis THEN {[val |-> 0, left |-> TTL, ok |-> FALSE]} ELSE {})
  /\ local = [p \in Pods |-> None]
  /\ flight = [p \in Pods |-> NoFlight]
  /\ op = [c \in Clients |-> Idle]
  /\ writer \in Pods
  /\ raced = FALSE
  /\ faults = MaxFaults

Present(e) == e.left > 0

commanding == \E c \in Clients : op[c].pc \in {"evict", "delete"}
querying   == \E c \in Clients : op[c].pc \notin {"idle", "evict", "delete"}

\* What a middleware does with the bytes it got.  A value that decodes is
\* returned.  The JSON adapter deletes one that does not and reports a miss;
\* the decorator just calls the handler.
JSONDecoded(c, ok) == IF ok THEN Returns(c) ELSE Goes(c, "purge", 0, TRUE)
RawDecoded(c, ok)  == IF ok THEN Returns(c) ELSE Goes(c, "handle", 0, TRUE)
Decoded(c, ok)     == IF conf.json THEN JSONDecoded(c, ok) ELSE RawDecoded(c, ok)

\* The noop client always misses.
NoopGet(c) == Goes(c, "handle", 0, TRUE) /\ UNCHANGED flight

\* Mutant of Get: a hit in L1 renews the entry.
Get_Renews(c) ==
  LET p == PodOf[c] IN
  /\ op[c].pc = "idle"
  /\ \/ /\ Present(local[p])
        /\ Decoded(c, local[p].ok)
        /\ local' = [local EXCEPT ![p].left = LocalTTL]
        /\ UNCHANGED flight
     \/ /\ ~Present(local[p]) /\ conf.redis
        /\ flight' = [flight EXCEPT ![p].on = TRUE, ![p].members = @ \cup {c}]
        /\ Goes(c, "fetch", 0, TRUE)
        /\ UNCHANGED local
  /\ raced' = (raced \/ commanding)
  /\ UNCHANGED <<conf, db, age, redis, writer, faults>>

\* WithQueryCaching calls Get: L1 answers, or the client leads or joins its
\* pod's singleflight call.
Get(c) ==
  LET p == PodOf[c] IN
  /\ op[c].pc = "idle"
  /\ \/ /\ Present(local[p])
        /\ Decoded(c, local[p].ok)
        /\ UNCHANGED flight
     \/ /\ ~Present(local[p]) /\ conf.redis
        /\ flight' = [flight EXCEPT ![p].on = TRUE, ![p].members = @ \cup {c}]
        /\ Goes(c, "fetch", 0, TRUE)
     \/ ~Present(local[p]) /\ ~conf.redis /\ NoopGet(c)
  /\ raced' = (raced \/ commanding)
  /\ UNCHANGED <<conf, db, age, redis, local, writer, faults>>

\* redisClient.Get on behalf of everyone in the flight.
RedisGet(p) ==
  /\ flight[p].on /\ ~flight[p].read
  /\ \/ /\ Present(redis)
        /\ flight' = [flight EXCEPT ![p].read = TRUE, ![p].hit = TRUE,
                                    ![p].val = redis.val, ![p].ok = redis.ok,
                                    ![p].hold = 0]
        /\ UNCHANGED faults
     \/ /\ ~Present(redis)
        /\ flight' = [flight EXCEPT ![p].read = TRUE]
        /\ UNCHANGED faults
     \/ /\ Fault
        /\ flight' = [flight EXCEPT ![p].read = TRUE]
  /\ UNCHANGED <<conf, db, age, redis, local, op, history>>

\* singleflight.Do returns to everyone who joined before now.
FlightReturns(p) ==
  /\ flight[p].read
  /\ op' = [c \in Clients |-> IF c \in flight[p].members
              THEN IF flight[p].hit THEN At("promote", flight[p].val, flight[p].ok)
                                    ELSE At("handle", 0, TRUE)
              ELSE op[c]]
  /\ flight' = [flight EXCEPT ![p] = NoFlight]
  /\ UNCHANGED <<conf, db, age, redis, local, history, faults>>

LocalEntry(v, ok) == IF conf.local THEN [val |-> v, left |-> LocalTTL, ok |-> ok]
                                   ELSE None

\* LocalCache.Get after a remote hit: the value is promoted into L1.
Promote(c) ==
  /\ op[c].pc = "promote"
  /\ local' = [local EXCEPT ![PodOf[c]] = LocalEntry(op[c].val, op[c].ok)]
  /\ Decoded(c, op[c].ok)
  /\ UNCHANGED <<conf, db, age, redis, flight, history, faults>>

\* The rest of the chain: validation or the handler fails, or the handler
\* reads the database.
Handle(c) ==
  /\ op[c].pc = "handle"
  /\ \/ Returns(c)
     \/ Goes(c, "set", db, TRUE)
  /\ UNCHANGED <<conf, db, age, redis, local, flight, history, faults>>

\* redisClient.Set.  Its error is logged, and L1 is not written then.
SetRemote(c) ==
  /\ op[c].pc = "set"
  /\ \/ /\ redis' = IF conf.redis THEN [val |-> op[c].val, left |-> TTL, ok |-> TRUE]
                                  ELSE redis
        /\ Goes(c, "add", op[c].val, TRUE)
        /\ UNCHANGED faults
     \/ /\ conf.redis /\ Fault
        /\ Returns(c)
        /\ UNCHANGED redis
  /\ UNCHANGED <<conf, db, age, local, flight, history>>

\* The end of LocalCache.Set.
SetLocal(c) ==
  /\ op[c].pc = "add"
  /\ local' = [local EXCEPT ![PodOf[c]] = LocalEntry(op[c].val, TRUE)]
  /\ Returns(c)
  /\ UNCHANGED <<conf, db, age, redis, flight, history, faults>>

\* A command that passes validation and whose handler commits.  One that
\* fails changes nothing and evicts nothing.
Command(c) ==
  /\ op[c].pc = "idle"
  /\ db < MaxWrites
  /\ db' = db + 1
  /\ writer' = PodOf[c]
  /\ raced' = (raced \/ querying \/ commanding)
  /\ Goes(c, "evict", 0, TRUE)
  /\ UNCHANGED <<conf, age, redis, local, flight, faults>>

\* LocalCache.Delete, called by a command or by the JSON adapter: first L1.
EvictLocal(c) ==
  /\ op[c].pc \in {"evict", "purge"}
  /\ local' = [local EXCEPT ![PodOf[c]] = None]
  /\ Goes(c, IF op[c].pc = "evict" THEN "delete" ELSE "drop", 0, TRUE)
  /\ UNCHANGED <<conf, db, age, redis, flight, history, faults>>

\* Mutant of EvictRemote: the key is not removed.
EvictRemote_OtherKey(c) ==
  /\ op[c].pc \in {"delete", "drop"}
  /\ IF op[c].pc = "delete" THEN Returns(c) ELSE Goes(c, "handle", 0, TRUE)
  /\ UNCHANGED <<conf, db, age, redis, local, flight, history, faults>>

\* Then Redis.  An error is logged and forgotten.
EvictRemote(c) ==
  /\ op[c].pc \in {"delete", "drop"}
  /\ \/ redis' = None /\ UNCHANGED <<raced, faults>>
     \/ conf.redis /\ Fault /\ UNCHANGED redis /\ raced' = TRUE
  /\ IF op[c].pc = "delete" THEN Returns(c) ELSE Goes(c, "handle", 0, TRUE)
  /\ UNCHANGED <<conf, db, age, local, flight, writer>>

\* The LRU drops its entry, or another pod's broadcast calls Invalidate.
Invalidate(p) ==
  /\ Present(local[p])
  /\ local' = [local EXCEPT ![p] = None]
  /\ UNCHANGED <<conf, db, age, redis, flight, op, history, faults>>

\* A pod restarts with an empty L1, its requests and commands cut short.
Crash(p) ==
  /\ Fault
  /\ local' = [local EXCEPT ![p] = None]
  /\ flight' = [flight EXCEPT ![p] = NoFlight]
  /\ op' = [c \in Clients |-> IF PodOf[c] = p THEN Idle ELSE op[c]]
  /\ raced' = TRUE
  /\ UNCHANGED <<conf, db, age, redis, writer>>

\* An entry one tick later.
Aged(e) == IF e.left > 1 THEN [e EXCEPT !.left = @ - 1] ELSE None

\* An entry with one tick left is served, one with none is not.
MaxAge == (TTL - 1) + (LocalTTL - 1) + 3 * Timeout

\* Time passes; no call takes longer than Timeout.  Ages stop counting just
\* above the largest that matters.
Tick ==
  /\ \A c \in Clients : op[c].pc # "idle" => op[c].hold < Timeout
  /\ \A p \in Pods : flight[p].on => flight[p].hold < Timeout
  /\ age' = [v \in Values |-> IF v < db /\ age[v] <= MaxAge THEN age[v] + 1 ELSE age[v]]
  /\ redis' = Aged(redis)
  /\ local' = [p \in Pods |-> Aged(local[p])]
  /\ flight' = [p \in Pods |-> IF flight[p].on THEN [flight[p] EXCEPT !.hold = @ + 1]
                                               ELSE flight[p]]
  /\ op' = [c \in Clients |-> IF op[c].pc # "idle" THEN [op[c] EXCEPT !.hold = @ + 1]
                                                   ELSE op[c]]
  /\ UNCHANGED <<conf, db, history, faults>>

ClientStep(c) ==
  \/ Promote(c) \/ Handle(c) \/ SetRemote(c) \/ SetLocal(c)
  \/ EvictLocal(c) \/ EvictRemote(c)

PodStep(p) == RedisGet(p) \/ FlightReturns(p)

Next ==
  \/ \E c \in Clients : Get(c) \/ Command(c) \/ ClientStep(c)
  \/ \E p \in Pods : PodStep(p) \/ Invalidate(p) \/ Crash(p)
  \/ Tick

Spec == Init /\ [][Next]_vars

-----------------------------------------------------------------------------

\* The bound on staleness that the stack of caches really has: a value that
\* L1, Redis or a call in progress can still serve was overwritten at most
\* MaxAge ago, the two TTLs and three calls (the Set of a value read before
\* the write, the shared Get, the promotion), whatever raced, failed or
\* crashed.  It is weaker than what LocalCache promises: see LocalPromise.
BoundedStaleness ==
  /\ Present(redis) => age[redis.val] <= MaxAge
  /\ \A p \in Pods : Present(local[p]) => age[local[p].val] <= MaxAge
  /\ \A c \in Clients : op[c].pc = "promote" => age[op[c].val] <= MaxAge

\* The comment on LocalCache: "Stale reads are bounded by the configured
\* defaultTTL", "Worst-case staleness = defaultTTL".
LocalPromise ==
  \A p \in Pods : Present(local[p]) => age[local[p].val] <= LocalTTL

\* When no query overlapped a command and no eviction failed, Redis and the
\* L1 of the pod that ran the last command hold nothing older than it.
UnracedIsFresh ==
  ~raced /\ ~commanding =>
    /\ Present(redis) => redis.val = db
    /\ Present(local[writer]) => local[writer].val = db
=============================================================================
