---------------------------- MODULE CacheProofs ----------------------------
(***************************************************************************)
(* How stale the two users of the cache can get, for any pods, clients,    *)
(* times to live, timeouts and faults: cached values, and sessions that    *)
(* JWTService takes for active.                                            *)
(***************************************************************************)
EXTENDS Sessions, TLAPS

Calls == [pc   : {"idle", "fetch", "promote", "handle", "set", "add",
                  "evict", "delete", "purge", "drop"},
          val  : Values,
          ok   : BOOLEAN,
          hold : Nat]

Stored  == [val : Values, left : Nat, ok : BOOLEAN]
Flights == [on : BOOLEAN, read : BOOLEAN, hit : BOOLEAN, val : Values, ok : BOOLEAN,
            members : SUBSET Clients, hold : Nat]

\* The age, by the ages a, of a value wherever it may be found.  A value waits
\* to be set for one call; in Redis it ages with its entry; a flight and a
\* promotion carry it on for a call each; and in L1 it ages with its entry.
CallOk(o, a) ==
  /\ o \in Calls
  /\ o.pc # "idle" => o.hold <= Timeout
  /\ o.pc = "set" => a[o.val] <= o.hold
  /\ o.pc = "add" => a[o.val] <= Timeout + o.hold
  /\ o.pc = "promote" => a[o.val] <= TTL - 1 + 2 * Timeout + o.hold

RedisOk(e, a) ==
  e \in Stored /\ (e.left > 0 => a[e.val] + e.left <= TTL + Timeout)

FlightOk(f, a) ==
  /\ f \in Flights
  /\ f.hit => f.on
  /\ f.hold <= Timeout
  /\ f.hit => a[f.val] <= TTL - 1 + Timeout + f.hold

LocalOk(e, a) ==
  e \in Stored /\ (e.left > 0 => a[e.val] + e.left <= TTL - 1 + 3 * Timeout + LocalTTL)

Ages == [Values -> Nat]

OpInv     == op = [c \in Clients |-> op[c]] /\ \A c \in Clients : CallOk(op[c], age)
FlightInv == flight = [p \in Pods |-> flight[p]] /\ \A p \in Pods : FlightOk(flight[p], age)
LocalInv  == local = [p \in Pods |-> local[p]] /\ \A p \in Pods : LocalOk(local[p], age)
RedisInv  == RedisOk(redis, age)
AgeInv    == conf \in Configs /\ db \in Values /\ age \in Ages /\ \A v \in Values : v >= db => age[v] = 0

StaleInv == AgeInv /\ OpInv /\ RedisInv /\ FlightInv /\ LocalInv

\* The constants, and the deployments among them.
LEMMA CacheConstants ==
  /\ TTL \in Nat /\ TTL > 0 /\ LocalTTL \in Nat /\ LocalTTL > 0
  /\ Timeout \in Nat /\ MaxWrites \in Nat
  /\ 0 \in Values /\ Values \subseteq Nat
  /\ conf \in Configs => \A c \in Clients : PodOf[c] \in Pods
  BY CachingAssumption DEF Values, PodOf

-----------------------------------------------------------------------------
\* Where a value goes.

\* Calls that carry no value.
LEMMA QuietCall ==
  ASSUME NEW a \in Ages, NEW v \in Values, NEW ok \in BOOLEAN,
         NEW x \in {"fetch", "handle", "evict", "delete", "purge", "drop"}
  PROVE  CallOk(At(x, v, ok), a) /\ CallOk(Idle, a)
  BY CacheConstants DEF CallOk, At, Idle, Calls

\* The handler reads the value of the database, which has no age.
LEMMA SetCall ==
  ASSUME NEW a \in Ages, NEW v \in Values, a[v] = 0
  PROVE  CallOk(At("set", v, TRUE), a)
  BY CacheConstants DEF CallOk, At, Calls

\* A value that is set has waited for one call.
LEMMA AddCall ==
  ASSUME NEW a \in Ages, NEW o, CallOk(o, a), o.pc = "set"
  PROVE  /\ CallOk(At("add", o.val, TRUE), a)
         /\ RedisOk([val |-> o.val, left |-> TTL, ok |-> TRUE], a)
  <1>1. o.val \in Values /\ o.hold \in Nat /\ o.hold <= Timeout /\ a[o.val] <= o.hold
    BY Zenon DEF CallOk, Calls
  <1>2. a[o.val] \in Nat
    BY Zenon, <1>1 DEF Ages
  <1>3. a[o.val] <= Timeout
    BY <1>1, <1>2, CacheConstants
  <1> QED
    BY <1>1, <1>2, <1>3, CacheConstants DEF CallOk, RedisOk, At, Calls, Stored

\* The flight takes over what Redis holds.
LEMMA HitFlight ==
  ASSUME NEW a \in Ages, NEW e, RedisOk(e, a), e.left > 0, NEW f, FlightOk(f, a), f.on
  PROVE  FlightOk([f EXCEPT !.read = TRUE, !.hit = TRUE, !.val = e.val, !.ok = e.ok, !.hold = 0], a)
  <1>1. e.val \in Values /\ e.left \in Nat /\ e.ok \in BOOLEAN
    BY Zenon DEF RedisOk, Stored
  <1>2. a[e.val] \in Nat
    BY Zenon, <1>1 DEF Ages
  <1>3. a[e.val] <= TTL - 1 + Timeout
    BY <1>1, <1>2, CacheConstants DEF RedisOk
  <1> DEFINE g == [f EXCEPT !.read = TRUE, !.hit = TRUE, !.val = e.val, !.ok = e.ok, !.hold = 0]
  <1>4. g \in Flights
    BY Zenon, <1>1 DEF FlightOk, Flights
  <1>5. g.on /\ g.hit /\ g.hold = 0 /\ g.val = e.val
    BY Zenon DEF FlightOk, Flights
  <1>6. a[g.val] <= TTL - 1 + Timeout + g.hold
    BY <1>2, <1>3, <1>5, CacheConstants
  <1> QED
    BY <1>4, <1>5, <1>6, CacheConstants DEF FlightOk

\* A client promotes what the flight brought.
LEMMA PromoteCall ==
  ASSUME NEW a \in Ages, NEW f, FlightOk(f, a), f.hit
  PROVE  CallOk(At("promote", f.val, f.ok), a)
  <1>1. f.val \in Values /\ f.hold \in Nat /\ f.ok \in BOOLEAN /\ f.hold <= Timeout
    BY Zenon DEF FlightOk, Flights
  <1>2. a[f.val] \in Nat /\ a[f.val] <= TTL - 1 + Timeout + f.hold
    BY Zenon, <1>1 DEF Ages, FlightOk
  <1>3. a[f.val] <= TTL - 1 + 2 * Timeout + 0
    BY <1>1, <1>2, CacheConstants
  <1> QED
    BY <1>1, <1>3, CacheConstants DEF CallOk, At, Calls

\* L1 gets a promoted value, or one that was just set.
LEMMA IntoLocal ==
  ASSUME NEW a \in Ages, NEW o, CallOk(o, a), o.pc \in {"promote", "add"}, NEW ok \in BOOLEAN
  PROVE  LocalOk(LocalEntry(o.val, ok), a)
  <1>1. o.val \in Values /\ o.hold \in Nat /\ o.hold <= Timeout
    BY Zenon DEF CallOk, Calls
  <1>a. a[o.val] \in Nat
    BY Zenon, <1>1 DEF Ages
  <1>b. ASSUME o.pc = "promote" PROVE a[o.val] <= TTL - 1 + 2 * Timeout + o.hold
    BY Zenon, <1>b DEF CallOk
  <1>c. ASSUME o.pc = "add" PROVE a[o.val] <= TTL - 1 + 2 * Timeout + o.hold
    <2>1. a[o.val] <= Timeout + o.hold
      BY Zenon, <1>c DEF CallOk
    <2> QED
      BY <2>1, <1>1, <1>a, CacheConstants
  <1>2. a[o.val] <= TTL - 1 + 2 * Timeout + o.hold
    BY Zenon, <1>b, <1>c
  <1>3. a[o.val] + LocalTTL <= TTL - 1 + 3 * Timeout + LocalTTL
    BY <1>1, <1>a, <1>2, CacheConstants
  <1> QED
    BY <1>1, <1>a, <1>3, CacheConstants DEF LocalOk, LocalEntry, None, Stored

\* An empty entry holds nothing.
LEMMA EmptyOk ==
  ASSUME NEW a \in Ages
  PROVE  RedisOk(None, a) /\ LocalOk(None, a) /\ FlightOk(NoFlight, a)
  BY CacheConstants DEF RedisOk, LocalOk, FlightOk, None, NoFlight, Stored, Flights

-----------------------------------------------------------------------------
\* A tick: every value ages by at most one, every entry and call by one.
Later(a, b) == \A v \in Values : b[v] <= a[v] + 1

\* An entry of Redis loses the tick that its value ages by.
LEMMA EntryTick ==
  ASSUME NEW a \in Ages, NEW b \in Ages, Later(a, b), NEW e
  PROVE  RedisOk(e, a) => RedisOk(Aged(e), b)
  <1> SUFFICES ASSUME RedisOk(e, a) PROVE RedisOk(Aged(e), b)
    BY Zenon
  <1>1. e \in Stored /\ e.val \in Values /\ e.left \in Nat
    BY Zenon DEF RedisOk, Stored
  <1>2. a[e.val] \in Nat /\ b[e.val] \in Nat /\ b[e.val] <= a[e.val] + 1
    BY Zenon, <1>1 DEF Ages, Later
  <1>3. CASE e.left > 1
    <2> DEFINE g == [e EXCEPT !.left = @ - 1]
    <2>1. g \in Stored /\ g.val = e.val /\ g.left = e.left - 1 /\ Aged(e) = g
      BY <1>1, <1>3 DEF Stored, Aged
    <2>2. a[e.val] + e.left <= TTL + Timeout
      BY <1>1, <1>3 DEF RedisOk
    <2>3. b[g.val] + g.left <= TTL + Timeout
      BY <2>1, <2>2, <1>1, <1>2, CacheConstants
    <2> QED
      BY Zenon, <2>1, <2>3 DEF RedisOk
  <1>4. CASE ~(e.left > 1)
    BY Zenon, <1>4, EmptyOk DEF Aged
  <1> QED
    BY Zenon, <1>3, <1>4

\* So does an entry of L1.
LEMMA LocalTick ==
  ASSUME NEW a \in Ages, NEW b \in Ages, Later(a, b), NEW e
  PROVE  LocalOk(e, a) => LocalOk(Aged(e), b)
  <1> SUFFICES ASSUME LocalOk(e, a) PROVE LocalOk(Aged(e), b)
    BY Zenon
  <1>1. e \in Stored /\ e.val \in Values /\ e.left \in Nat
    BY Zenon DEF LocalOk, Stored
  <1>2. a[e.val] \in Nat /\ b[e.val] \in Nat /\ b[e.val] <= a[e.val] + 1
    BY Zenon, <1>1 DEF Ages, Later
  <1>3. CASE e.left > 1
    <2> DEFINE g == [e EXCEPT !.left = @ - 1]
    <2>1. g \in Stored /\ g.val = e.val /\ g.left = e.left - 1 /\ Aged(e) = g
      BY <1>1, <1>3 DEF Stored, Aged
    <2>2. a[e.val] + e.left <= TTL - 1 + 3 * Timeout + LocalTTL
      BY <1>1, <1>3 DEF LocalOk
    <2>3. b[g.val] + g.left <= TTL - 1 + 3 * Timeout + LocalTTL
      BY <2>1, <2>2, <1>1, <1>2, CacheConstants
    <2> QED
      BY Zenon, <2>1, <2>3 DEF LocalOk
  <1>4. CASE ~(e.left > 1)
    BY Zenon, <1>4, EmptyOk DEF Aged
  <1> QED
    BY Zenon, <1>3, <1>4

\* A call counts the tick, and Timeout stops it in time.
LEMMA CallTick ==
  ASSUME NEW a \in Ages, NEW b \in Ages, Later(a, b), NEW o, CallOk(o, a),
         o.pc # "idle" => o.hold < Timeout
  PROVE  CallOk(IF o.pc # "idle" THEN [o EXCEPT !.hold = @ + 1] ELSE o, b)
  <1>1. o \in Calls /\ o.val \in Values /\ o.hold \in Nat
    BY Zenon DEF CallOk, Calls
  <1>2. a[o.val] \in Nat /\ b[o.val] \in Nat /\ b[o.val] <= a[o.val] + 1
    BY Zenon, <1>1 DEF Ages, Later
  <1>3. CASE o.pc # "idle"
    <2> DEFINE g == [o EXCEPT !.hold = @ + 1]
    <2>1. g \in Calls /\ g.val = o.val /\ g.hold = o.hold + 1 /\ g.pc = o.pc
      BY <1>1 DEF Calls
    <2>2. g.hold <= Timeout
      BY <2>1, <1>1, <1>3, CacheConstants
    <2>3. o.pc = "set" => b[g.val] <= g.hold
      BY <2>1, <1>1, <1>2, CacheConstants DEF CallOk
    <2>4. o.pc = "add" => b[g.val] <= Timeout + g.hold
      BY <2>1, <1>1, <1>2, CacheConstants DEF CallOk
    <2>5. o.pc = "promote" => b[g.val] <= TTL - 1 + 2 * Timeout + g.hold
      <3> SUFFICES ASSUME o.pc = "promote" PROVE b[g.val] <= TTL - 1 + 2 * Timeout + g.hold
        BY Zenon
      <3>1. a[o.val] <= TTL - 1 + 2 * Timeout + o.hold
        BY Zenon DEF CallOk
      <3> QED
        BY <3>1, <2>1, <1>1, <1>2, CacheConstants
    <2> QED
      BY Zenon, <1>3, <2>1, <2>2, <2>3, <2>4, <2>5 DEF CallOk
  <1>4. CASE o.pc = "idle"
    BY Zenon, <1>1, <1>4 DEF CallOk
  <1> QED
    BY Zenon, <1>3, <1>4

\* So does a flight.
LEMMA FlightTick ==
  ASSUME NEW a \in Ages, NEW b \in Ages, Later(a, b), NEW f, FlightOk(f, a),
         f.on => f.hold < Timeout
  PROVE  FlightOk(IF f.on THEN [f EXCEPT !.hold = @ + 1] ELSE f, b)
  <1>1. f \in Flights /\ f.val \in Values /\ f.hold \in Nat /\ f.on \in BOOLEAN /\ (f.hit => f.on)
    BY Zenon DEF FlightOk, Flights
  <1>2. a[f.val] \in Nat /\ b[f.val] \in Nat /\ b[f.val] <= a[f.val] + 1
    BY Zenon, <1>1 DEF Ages, Later
  <1>3. CASE f.on
    <2> DEFINE g == [f EXCEPT !.hold = @ + 1]
    <2>1. g \in Flights /\ g.val = f.val /\ g.hold = f.hold + 1 /\ g.on = f.on /\ g.hit = f.hit
      BY <1>1 DEF Flights
    <2>2. g.hold <= Timeout
      BY <2>1, <1>1, <1>3, CacheConstants
    <2>3. f.hit => b[g.val] <= TTL - 1 + Timeout + g.hold
      <3> SUFFICES ASSUME f.hit PROVE b[g.val] <= TTL - 1 + Timeout + g.hold
        BY Zenon
      <3>1. a[f.val] <= TTL - 1 + Timeout + f.hold
        BY Zenon DEF FlightOk
      <3> QED
        BY <3>1, <2>1, <1>1, <1>2, CacheConstants
    <2> QED
      BY Zenon, <1>3, <2>1, <2>2, <2>3 DEF FlightOk
  <1>4. CASE ~f.on
    BY Zenon, <1>1, <1>4 DEF FlightOk
  <1> QED
    BY Zenon, <1>3, <1>4

-----------------------------------------------------------------------------
\* One client goes on.
LEMMA OneCall ==
  ASSUME OpInv, UNCHANGED age, NEW c \in Clients, NEW x, CallOk(x, age),
         op' = [op EXCEPT ![c] = x]
  PROVE  OpInv'
  BY Zenon DEF OpInv

\* One pod's flight changes.
LEMMA OneFlight ==
  ASSUME FlightInv, UNCHANGED age, NEW p \in Pods, NEW x, FlightOk(x, age),
         flight' = [flight EXCEPT ![p] = x]
  PROVE  FlightInv'
  BY Zenon DEF FlightInv

\* One pod's L1 changes.
LEMMA OneLocal ==
  ASSUME LocalInv, UNCHANGED age, NEW p \in Pods, NEW x, LocalOk(x, age),
         local' = [local EXCEPT ![p] = x]
  PROVE  LocalInv'
  BY Zenon DEF LocalInv

\* Returning, or going on without a value, is always possible.
LEMMA Moves ==
  ASSUME OpInv, age \in Ages, UNCHANGED age, NEW c \in Clients,
         Returns(c) \/ \E x \in {"fetch", "handle", "evict", "delete", "purge", "drop"} : Goes(c, x, 0, TRUE)
  PROVE  OpInv'
  <1>1. CASE Returns(c)
    BY Zenon, <1>1, QuietCall, OneCall, CacheConstants DEF Returns
  <1>2. CASE \E x \in {"fetch", "handle", "evict", "delete", "purge", "drop"} : Goes(c, x, 0, TRUE)
    <2> PICK x \in {"fetch", "handle", "evict", "delete", "purge", "drop"} : Goes(c, x, 0, TRUE)
      BY Zenon, <1>2
    <2>1. CallOk(At(x, 0, TRUE), age)
      BY Zenon, QuietCall, CacheConstants
    <2> QED
      BY Zenon, <2>1, OneCall DEF Goes
  <1> QED
    BY Zenon, <1>1, <1>2

\* So is what follows decoding.
LEMMA DecodedMoves ==
  ASSUME OpInv, age \in Ages, UNCHANGED age, NEW c \in Clients, NEW ok, Decoded(c, ok)
  PROVE  OpInv'
  <1>1. Returns(c) \/ Goes(c, "purge", 0, TRUE) \/ Goes(c, "handle", 0, TRUE)
    BY Zenon DEF Decoded, JSONDecoded, RawDecoded
  <1> QED
    BY Zenon, <1>1, Moves

\* A client joins its pod's flight.
LEMMA JoinFlight ==
  ASSUME FlightInv, UNCHANGED age, NEW p \in Pods, NEW c \in Clients,
         flight' = [flight EXCEPT ![p].on = TRUE, ![p].members = @ \cup {c}]
  PROVE  FlightInv'
  <1> DEFINE x == [flight[p] EXCEPT !.on = TRUE, !.members = @ \cup {c}]
  <1>1. flight' = [flight EXCEPT ![p] = x]
    BY Zenon DEF FlightInv
  <1>2. FlightOk(flight[p], age)
    BY Zenon DEF FlightInv
  <1>3. x \in Flights /\ x.on /\ x.hold = flight[p].hold /\ x.hit = flight[p].hit /\ x.val = flight[p].val
    BY Zenon, <1>2 DEF FlightOk, Flights
  <1>4. x.hold <= Timeout
    BY Zenon, <1>2, <1>3 DEF FlightOk
  <1>5. FlightOk(x, age)
    BY Zenon, <1>2, <1>3, <1>4 DEF FlightOk
  <1> QED
    BY Zenon, <1>1, <1>5, OneFlight

\* Redis answers a flight with a miss or an error.
LEMMA MissFlight ==
  ASSUME FlightInv, UNCHANGED age, NEW p \in Pods,
         flight' = [flight EXCEPT ![p].read = TRUE]
  PROVE  FlightInv'
  <1> DEFINE x == [flight[p] EXCEPT !.read = TRUE]
  <1>1. flight' = [flight EXCEPT ![p] = x]
    BY Zenon DEF FlightInv
  <1>2. FlightOk(flight[p], age)
    BY Zenon DEF FlightInv
  <1>3. /\ x \in Flights /\ x.on = flight[p].on /\ x.hold = flight[p].hold
        /\ x.hit = flight[p].hit /\ x.val = flight[p].val
    BY Zenon, <1>2 DEF FlightOk, Flights
  <1>4. FlightOk(x, age)
    BY Zenon, <1>2, <1>3 DEF FlightOk
  <1> QED
    BY Zenon, <1>1, <1>4, OneFlight

\* Redis answers a flight with a value.
LEMMA HitFlightInv ==
  ASSUME AgeInv, FlightInv, RedisInv, UNCHANGED age, NEW p \in Pods, flight[p].on, Present(redis),
         flight' = [flight EXCEPT ![p].read = TRUE, ![p].hit = TRUE, ![p].val = redis.val,
                                  ![p].ok = redis.ok, ![p].hold = 0]
  PROVE  FlightInv'
  <1> DEFINE x == [flight[p] EXCEPT !.read = TRUE, !.hit = TRUE, !.val = redis.val,
                                    !.ok = redis.ok, !.hold = 0]
  <1>1. flight' = [flight EXCEPT ![p] = x]
    BY Zenon DEF FlightInv
  <1>2. FlightOk(x, age)
    BY Zenon, HitFlight DEF FlightInv, RedisInv, AgeInv, Present
  <1> QED
    BY Zenon, <1>1, <1>2, OneFlight

-----------------------------------------------------------------------------
\* Nothing is stale at the start: whatever Redis holds then is the value of
\* the database.
LEMMA StaleInit == Init => StaleInv
  <1> SUFFICES ASSUME Init PROVE StaleInv
    BY Zenon
  <1>1. age \in Ages /\ AgeInv
    BY Zenon, CacheConstants DEF Init, AgeInv, Ages
  <1>2. OpInv
    BY Zenon, <1>1, QuietCall, CacheConstants DEF Init, OpInv
  <1>3. FlightInv /\ LocalInv
    BY Zenon, <1>1, EmptyOk DEF Init, FlightInv, LocalInv
  <1>4. RedisInv
    <2>1. CASE redis = None
      BY Zenon, <2>1, <1>1, EmptyOk DEF RedisInv
    <2>2. CASE redis = [val |-> 0, left |-> TTL, ok |-> FALSE]
      <3>1. age[0] = 0
        BY Zenon, CacheConstants DEF Init
      <3> QED
        BY <2>2, <3>1, CacheConstants DEF RedisInv, RedisOk, Stored
    <2> QED
      BY Zenon, <2>1, <2>2 DEF Init
  <1> QED
    BY Zenon, <1>1, <1>2, <1>3, <1>4 DEF StaleInv

\* The invariant bounds the age of everything that can be served.
LEMMA StaleBound == StaleInv => BoundedStaleness
  <1> SUFFICES ASSUME StaleInv PROVE BoundedStaleness
    BY Zenon
  <1>0. age \in Ages
    BY Zenon DEF StaleInv, AgeInv
  <1>1. ASSUME Present(redis) PROVE age[redis.val] <= MaxAge
    <2>1. redis.val \in Values /\ redis.left \in Nat /\ redis.left > 0
      BY Zenon, <1>1 DEF StaleInv, RedisInv, RedisOk, Stored, Present
    <2>2. age[redis.val] \in Nat /\ age[redis.val] + redis.left <= TTL + Timeout
      BY Zenon, <1>0, <2>1 DEF StaleInv, RedisInv, RedisOk, Ages
    <2> QED
      BY <2>1, <2>2, CacheConstants DEF MaxAge
  <1>2. ASSUME NEW p \in Pods, Present(local[p]) PROVE age[local[p].val] <= MaxAge
    <2>0. LocalOk(local[p], age)
      BY Zenon DEF StaleInv, LocalInv
    <2>1. local[p].val \in Values /\ local[p].left \in Nat /\ local[p].left > 0
      BY Zenon, <1>2, <2>0 DEF LocalOk, Stored, Present
    <2>2. /\ age[local[p].val] \in Nat
          /\ age[local[p].val] + local[p].left <= TTL - 1 + 3 * Timeout + LocalTTL
      BY Zenon, <1>0, <2>0, <2>1 DEF LocalOk, Ages
    <2> QED
      BY <2>1, <2>2, CacheConstants DEF MaxAge
  <1>3. ASSUME NEW c \in Clients, op[c].pc = "promote" PROVE age[op[c].val] <= MaxAge
    <2>0. CallOk(op[c], age)
      BY Zenon DEF StaleInv, OpInv
    <2>1. op[c].val \in Values /\ op[c].hold \in Nat /\ op[c].hold <= Timeout
      BY Zenon, <1>3, <2>0 DEF CallOk, Calls
    <2>2. age[op[c].val] \in Nat /\ age[op[c].val] <= TTL - 1 + 2 * Timeout + op[c].hold
      BY Zenon, <1>0, <1>3, <2>0, <2>1 DEF CallOk, Ages
    <2> QED
      BY <2>1, <2>2, CacheConstants DEF MaxAge
  <1> QED
    BY Zenon, <1>1, <1>2, <1>3 DEF BoundedStaleness

\* A step of a client keeps the invariant.
LEMMA ClientKeeps ==
  ASSUME StaleInv, NEW c \in Clients, Get(c) \/ Command(c) \/ ClientStep(c)
  PROVE  StaleInv'
  <1> USE DEF StaleInv
  <1>0. age \in Ages /\ PodOf[c] \in Pods /\ CallOk(op[c], age) /\ conf \in Configs
    BY Zenon, CacheConstants DEF AgeInv, OpInv
  <1>1. CASE Get(c)
    <2>1. UNCHANGED <<conf, db, age, redis, local>>
      BY Zenon, <1>1 DEF Get
    <2>2. AgeInv' /\ RedisInv' /\ LocalInv'
      BY Zenon, <2>1 DEF AgeInv, RedisInv, LocalInv
    <2>3. OpInv' /\ FlightInv'
      <3>1. CASE Decoded(c, local[PodOf[c]].ok) /\ UNCHANGED flight
        BY Zenon, <3>1, <2>1, <1>0, DecodedMoves DEF FlightInv
      <3>2. CASE /\ Goes(c, "fetch", 0, TRUE)
                 /\ flight' = [flight EXCEPT ![PodOf[c]].on = TRUE, ![PodOf[c]].members = @ \cup {c}]
        BY Zenon, <3>2, <2>1, <1>0, Moves, JoinFlight
      <3>3. CASE NoopGet(c)
        BY Zenon, <3>3, <2>1, <1>0, Moves DEF NoopGet, FlightInv
      <3> QED
        BY Zenon, <1>1, <3>1, <3>2, <3>3 DEF Get
    <2> QED
      BY Zenon, <2>2, <2>3
  <1>2. CASE Command(c)
    <2>1. UNCHANGED <<conf, age, redis, local, flight>> /\ db' = db + 1 /\ db < MaxWrites
      BY Zenon, <1>2 DEF Command
    <2>2. RedisInv' /\ LocalInv' /\ FlightInv'
      BY Zenon, <2>1 DEF RedisInv, LocalInv, FlightInv
    <2>3. AgeInv'
      BY <2>1, CacheConstants DEF AgeInv, Values
    <2>4. OpInv'
      BY Zenon, <1>2, <2>1, <1>0, Moves DEF Command
    <2> QED
      BY Zenon, <2>2, <2>3, <2>4
  <1>3. CASE Promote(c)
    <2>1. UNCHANGED <<conf, db, age, redis, flight>> /\ op[c].ok \in BOOLEAN
      BY Zenon, <1>3, <1>0 DEF Promote, CallOk, Calls
    <2>2. AgeInv' /\ RedisInv' /\ FlightInv'
      BY Zenon, <2>1 DEF AgeInv, RedisInv, FlightInv
    <2>3. OpInv'
      BY Zenon, <1>3, <1>0, <2>1, DecodedMoves DEF Promote
    <2>4. LocalOk(LocalEntry(op[c].val, op[c].ok), age)
      BY Zenon, <1>3, <1>0, <2>1, IntoLocal DEF Promote
    <2>5. LocalInv'
      BY Zenon, <1>3, <1>0, <2>1, <2>4, OneLocal DEF Promote
    <2> QED
      BY Zenon, <2>2, <2>3, <2>5
  <1>4. CASE Handle(c)
    <2>1. UNCHANGED <<conf, db, age, redis, local, flight>>
      BY Zenon, <1>4 DEF Handle
    <2>2. AgeInv' /\ RedisInv' /\ LocalInv' /\ FlightInv'
      BY Zenon, <2>1 DEF AgeInv, RedisInv, LocalInv, FlightInv
    <2>3. db \in Values /\ age[db] = 0
      BY CacheConstants DEF AgeInv, Values
    <2>4. CallOk(At("set", db, TRUE), age)
      BY Zenon, <2>3, <1>0, SetCall
    <2>5. OpInv'
      BY Zenon, <1>4, <1>0, <2>1, <2>4, Moves, OneCall DEF Handle, Goes
    <2> QED
      BY Zenon, <2>2, <2>5
  <1>5. CASE SetRemote(c)
    <2>1. UNCHANGED <<conf, db, age, local, flight>> /\ op[c].pc = "set"
      BY Zenon, <1>5 DEF SetRemote
    <2>2. AgeInv' /\ LocalInv' /\ FlightInv'
      BY Zenon, <2>1 DEF AgeInv, LocalInv, FlightInv
    <2>3. /\ CallOk(At("add", op[c].val, TRUE), age)
          /\ RedisOk([val |-> op[c].val, left |-> TTL, ok |-> TRUE], age)
      BY Zenon, <1>0, <2>1, AddCall
    <2>4. RedisInv'
      BY Zenon, <1>5, <2>1, <2>3 DEF SetRemote, RedisInv
    <2>5. OpInv'
      BY Zenon, <1>5, <1>0, <2>1, <2>3, Moves, OneCall DEF SetRemote, Goes
    <2> QED
      BY Zenon, <2>2, <2>4, <2>5
  <1>6. CASE SetLocal(c)
    <2>1. UNCHANGED <<conf, db, age, redis, flight>>
      BY Zenon, <1>6 DEF SetLocal
    <2>2. AgeInv' /\ RedisInv' /\ FlightInv'
      BY Zenon, <2>1 DEF AgeInv, RedisInv, FlightInv
    <2>3. OpInv'
      BY Zenon, <1>6, <1>0, <2>1, Moves DEF SetLocal
    <2>4. LocalOk(LocalEntry(op[c].val, TRUE), age)
      BY Zenon, <1>6, <1>0, IntoLocal DEF SetLocal
    <2>5. LocalInv'
      BY Zenon, <1>6, <1>0, <2>1, <2>4, OneLocal DEF SetLocal
    <2> QED
      BY Zenon, <2>2, <2>3, <2>5
  <1>7. CASE EvictLocal(c)
    <2>1. UNCHANGED <<conf, db, age, redis, flight>>
      BY Zenon, <1>7 DEF EvictLocal
    <2>2. AgeInv' /\ RedisInv' /\ FlightInv'
      BY Zenon, <2>1 DEF AgeInv, RedisInv, FlightInv
    <2>3. Goes(c, "delete", 0, TRUE) \/ Goes(c, "drop", 0, TRUE)
      BY Zenon, <1>7 DEF EvictLocal
    <2>4. OpInv'
      BY Zenon, <2>3, <1>0, <2>1, Moves
    <2>5. LocalInv'
      BY Zenon, <1>7, <1>0, <2>1, EmptyOk, OneLocal DEF EvictLocal
    <2> QED
      BY Zenon, <2>2, <2>4, <2>5
  <1>8. CASE EvictRemote(c)
    <2>1. UNCHANGED <<conf, db, age, local, flight>>
      BY Zenon, <1>8 DEF EvictRemote
    <2>2. AgeInv' /\ LocalInv' /\ FlightInv'
      BY Zenon, <2>1 DEF AgeInv, LocalInv, FlightInv
    <2>3. Returns(c) \/ Goes(c, "handle", 0, TRUE)
      BY Zenon, <1>8 DEF EvictRemote
    <2>4. OpInv'
      BY Zenon, <2>3, <1>0, <2>1, Moves
    <2>5. RedisInv'
      BY Zenon, <1>8, <1>0, <2>1, EmptyOk DEF EvictRemote, RedisInv
    <2> QED
      BY Zenon, <2>2, <2>4, <2>5
  <1> QED
    BY Zenon, <1>1, <1>2, <1>3, <1>4, <1>5, <1>6, <1>7, <1>8 DEF ClientStep

\* So does a step of a pod.
LEMMA PodKeeps ==
  ASSUME StaleInv, NEW p \in Pods, PodStep(p) \/ Invalidate(p) \/ Crash(p)
  PROVE  StaleInv'
  <1> USE DEF StaleInv
  <1>0. age \in Ages /\ FlightOk(flight[p], age)
    BY Zenon DEF AgeInv, FlightInv
  <1>1. CASE RedisGet(p)
    <2>1. UNCHANGED <<conf, db, age, redis, local, op>>
      BY Zenon, <1>1 DEF RedisGet
    <2>2. AgeInv' /\ RedisInv' /\ LocalInv' /\ OpInv'
      BY Zenon, <2>1 DEF AgeInv, RedisInv, LocalInv, OpInv
    <2>3. FlightInv'
      BY Zenon, <1>1, <2>1, HitFlightInv, MissFlight DEF RedisGet
    <2> QED
      BY Zenon, <2>2, <2>3
  <1>2. CASE FlightReturns(p)
    <2>1. UNCHANGED <<conf, db, age, redis, local>>
      BY Zenon, <1>2 DEF FlightReturns
    <2>2. AgeInv' /\ RedisInv' /\ LocalInv'
      BY Zenon, <2>1 DEF AgeInv, RedisInv, LocalInv
    <2>3. FlightInv'
      BY Zenon, <1>2, <1>0, <2>1, EmptyOk, OneFlight DEF FlightReturns
    <2>4. flight[p].hit => CallOk(At("promote", flight[p].val, flight[p].ok), age)
      BY Zenon, <1>0, PromoteCall
    <2>5. CallOk(At("handle", 0, TRUE), age)
      BY Zenon, <1>0, QuietCall, CacheConstants
    <2>6. OpInv'
      BY Zenon, <1>2, <2>1, <2>4, <2>5 DEF FlightReturns, OpInv
    <2> QED
      BY Zenon, <2>2, <2>3, <2>6
  <1>3. CASE Invalidate(p)
    <2>1. UNCHANGED <<conf, db, age, redis, flight, op>>
      BY Zenon, <1>3 DEF Invalidate
    <2>2. AgeInv' /\ RedisInv' /\ FlightInv' /\ OpInv'
      BY Zenon, <2>1 DEF AgeInv, RedisInv, FlightInv, OpInv
    <2>3. LocalInv'
      BY Zenon, <1>3, <1>0, <2>1, EmptyOk, OneLocal DEF Invalidate
    <2> QED
      BY Zenon, <2>2, <2>3
  <1>4. CASE Crash(p)
    <2>1. UNCHANGED <<conf, db, age, redis>>
      BY Zenon, <1>4 DEF Crash
    <2>2. AgeInv' /\ RedisInv'
      BY Zenon, <2>1 DEF AgeInv, RedisInv
    <2>3. LocalInv' /\ FlightInv'
      BY Zenon, <1>4, <1>0, <2>1, EmptyOk, OneLocal, OneFlight DEF Crash
    <2>4. CallOk(Idle, age)
      BY Zenon, <1>0, QuietCall, CacheConstants
    <2>5. OpInv'
      BY Zenon, <1>4, <2>1, <2>4 DEF Crash, OpInv
    <2> QED
      BY Zenon, <2>2, <2>3, <2>5
  <1> QED
    BY Zenon, <1>1, <1>2, <1>3, <1>4 DEF PodStep

\* So does a tick: no value ages faster than what carries it.
LEMMA TickKeeps ==
  ASSUME StaleInv, Tick
  PROVE  StaleInv'
  <1> USE DEF StaleInv
  <1>0. age \in Ages
    BY Zenon DEF AgeInv
  <1>1. age' \in Ages /\ Later(age, age')
    <2>1. age' = [v \in Values |-> IF v < db /\ age[v] <= MaxAge THEN age[v] + 1 ELSE age[v]]
      BY Zenon DEF Tick
    <2> QED
      BY <2>1, <1>0 DEF Ages, Later
  <1>2. AgeInv'
    <2>1. UNCHANGED <<conf, db>>
      BY Zenon DEF Tick
    <2>2. ASSUME NEW v \in Values, v >= db PROVE age'[v] = 0
      <3>1. ~(v < db) /\ age[v] = 0
        BY <2>2, CacheConstants DEF AgeInv
      <3> QED
        BY Zenon, <3>1 DEF Tick
    <2> QED
      BY Zenon, <1>1, <2>1, <2>2 DEF AgeInv
  <1>3. RedisInv'
    BY Zenon, <1>0, <1>1, EntryTick DEF Tick, RedisInv
  <1>4. LocalInv'
    BY Zenon, <1>0, <1>1, LocalTick DEF Tick, LocalInv
  <1>5. FlightInv'
    BY Zenon, <1>0, <1>1, FlightTick DEF Tick, FlightInv
  <1>6. OpInv'
    BY Zenon, <1>0, <1>1, CallTick DEF Tick, OpInv
  <1> QED
    BY Zenon, <1>2, <1>3, <1>4, <1>5, <1>6

\* Every step keeps the invariant.
LEMMA StaleStep == StaleInv /\ [Next]_vars => StaleInv'
  <1> SUFFICES ASSUME StaleInv, [Next]_vars PROVE StaleInv'
    BY Zenon
  <1>1. CASE UNCHANGED vars
    BY Zenon, <1>1 DEF vars, StaleInv, AgeInv, OpInv, RedisInv, FlightInv, LocalInv
  <1> QED
    BY Zenon, <1>1, ClientKeeps, PodKeeps, TickKeeps DEF Next

\* LocalCache, SingleflightCache and the invalidation middleware together: for
\* any clients, pods, drivers, TTLs, timeouts, commands and faults, nothing that
\* can still be served was overwritten more than MaxAge ago.
THEOREM BoundedStalenessAlways == Spec => []BoundedStaleness
  BY StaleInit, StaleStep, StaleBound, PTL DEF Spec

-----------------------------------------------------------------------------
\* What is fresh as long as no query overlaps a command.

\* A singleflight call has a client of its pod that waits for it.
WaitedFor ==
  \A p \in Pods :
    /\ flight[p].read => flight[p].on
    /\ flight[p].on => \E c \in flight[p].members : op[c].pc = "fetch"
    /\ \A c \in flight[p].members : c \in Clients /\ PodOf[c] = p

\* A command is alone, and empties the L1 of its pod first.
Alone ==
  \A c \in Clients : op[c].pc \in {"evict", "delete"} =>
    /\ writer = PodOf[c]
    /\ \A d \in Clients : op[d].pc # "idle" => d = c
    /\ op[c].pc = "delete" => ~Present(local[writer])

\* Everything on its way into the caches is the value of the database.
AllFresh ==
  ~commanding =>
    /\ Present(redis) => redis.val = db
    /\ Present(local[writer]) => local[writer].val = db
    /\ \A p \in Pods : flight[p].hit => flight[p].val = db
    /\ \A c \in Clients : op[c].pc \in {"promote", "set", "add"} => op[c].val = db

Quiet == WaitedFor /\ Alone /\ AllFresh
UnracedInv == writer \in Pods /\ (raced \/ Quiet)

\* A query goes on.
LEMMA QueryGoes ==
  ASSUME OpInv, Quiet, ~commanding, NEW c \in Clients, op[c].pc # "fetch",
         NEW x, op' = [op EXCEPT ![c] = x],
         x.pc \notin {"evict", "delete"},
         x.pc \in {"promote", "set", "add"} => x.val = db,
         UNCHANGED <<conf, db, flight, writer>>,
         Present(redis') => redis'.val = db,
         Present(local'[writer]) => local'[writer].val = db
  PROVE  Quiet'
  <1>1. op'[c] = x /\ \A d \in Clients : d # c => op'[d] = op[d]
    BY Zenon DEF OpInv
  <1>2. ~commanding' /\ PodOf' = PodOf
    BY Zenon, <1>1 DEF commanding, PodOf
  <1>3. WaitedFor'
    BY <1>1, <1>2 DEF Quiet, WaitedFor
  <1>4. Alone'
    BY Zenon, <1>2 DEF commanding, Alone
  <1>5. AllFresh'
    BY Zenon, <1>1, <1>2 DEF Quiet, AllFresh
  <1> QED
    BY Zenon, <1>3, <1>4, <1>5 DEF Quiet

\* What decoding leads to carries no value.
LEMMA DecodedGoes ==
  ASSUME NEW c, NEW ok, Decoded(c, ok)
  PROVE  \E x : /\ op' = [op EXCEPT ![c] = x]
                /\ x.pc \notin {"evict", "delete", "promote", "set", "add"}
  <1>1. ASSUME Returns(c)
        PROVE  \E x : /\ op' = [op EXCEPT ![c] = x]
                      /\ x.pc \notin {"evict", "delete", "promote", "set", "add"}
    <2>1. Idle.pc = "idle"
      BY Zenon DEF Idle
    <2> QED
      BY Zenon, <1>1, <2>1 DEF Returns
  <1>2. ASSUME NEW pc \in {"purge", "handle"}, Goes(c, pc, 0, TRUE)
        PROVE  \E x : /\ op' = [op EXCEPT ![c] = x]
                      /\ x.pc \notin {"evict", "delete", "promote", "set", "add"}
    <2>1. At(pc, 0, TRUE).pc = pc
      BY Zenon DEF At
    <2> QED
      BY Zenon, <1>2, <2>1 DEF Goes
  <1> QED
    BY Zenon, <1>1, <1>2 DEF Decoded, JSONDecoded, RawDecoded

LEMMA GetFresh ==
  ASSUME StaleInv, Quiet, NEW c \in Clients, Get(c), ~raced'
  PROVE  Quiet'
  <1>1. OpInv /\ FlightInv /\ ~commanding /\ op[c].pc = "idle" /\ PodOf[c] \in Pods
        /\ UNCHANGED <<conf, db, redis, local, writer>>
    BY Zenon, CacheConstants DEF StaleInv, AgeInv, Get
  <1>2. /\ Present(redis') => redis'.val = db
        /\ Present(local'[writer]) => local'[writer].val = db
    BY Zenon, <1>1 DEF Quiet, AllFresh
  <1>3. CASE UNCHANGED flight /\ \E ok : Decoded(c, ok)
    BY Zenon, <1>1, <1>2, <1>3, DecodedGoes, QueryGoes
  <1>4. CASE NoopGet(c)
    <2>1. At("handle", 0, TRUE).pc = "handle"
      BY Zenon DEF At
    <2> QED
      BY Zenon, <1>1, <1>2, <1>4, <2>1, QueryGoes DEF NoopGet, Goes
  <1>5. CASE /\ flight' = [flight EXCEPT ![PodOf[c]].on = TRUE, ![PodOf[c]].members = @ \cup {c}]
             /\ Goes(c, "fetch", 0, TRUE)
    <2> PICK p \in Pods : p = PodOf[c]
      BY Zenon, <1>1
    <2>1. op'[c].pc = "fetch" /\ \A d \in Clients : d # c => op'[d] = op[d]
      BY Zenon, <1>1, <1>5 DEF OpInv, Goes, At
    <2>2. /\ flight'[p].on /\ flight'[p].members = flight[p].members \cup {c}
          /\ flight'[p].read = flight[p].read /\ flight'[p].hit = flight[p].hit
          /\ flight'[p].val = flight[p].val
          /\ \A q \in Pods : q # p => flight'[q] = flight[q]
      <3>1. flight[p] \in Flights
        BY Zenon, <1>1 DEF FlightInv, FlightOk
      <3>2. flight'[p] = [flight[p] EXCEPT !.on = TRUE, !.members = @ \cup {c}]
        BY Zenon, <1>1, <1>5 DEF FlightInv
      <3>3. \A q \in Pods : q # p => flight'[q] = flight[q]
        BY Zenon, <1>1, <1>5 DEF FlightInv
      <3> QED
        BY Zenon, <3>1, <3>2, <3>3 DEF Flights
    <2>3. ~commanding' /\ PodOf' = PodOf
      BY Zenon, <1>1, <2>1 DEF commanding, PodOf
    <2>4. WaitedFor'
      <3>1. ASSUME NEW q \in Pods
            PROVE  /\ flight'[q].read => flight'[q].on
                   /\ flight'[q].on => \E d \in flight'[q].members : op'[d].pc = "fetch"
                   /\ \A d \in flight'[q].members : d \in Clients /\ PodOf[d] = q
        <4>1. CASE q = p
          BY ZenonT(60), <2>1, <2>2, <4>1 DEF Quiet, WaitedFor
        <4>2. CASE q # p
          BY <1>1, <2>1, <2>2, <4>2 DEF Quiet, WaitedFor
        <4> QED
          BY Zenon, <4>1, <4>2
      <3> QED
        BY Zenon, <2>3, <3>1 DEF WaitedFor
    <2>5. Alone'
      BY Zenon, <2>3 DEF commanding, Alone
    <2>6. AllFresh'
      <3>1. \A q \in Pods : flight'[q].hit => flight'[q].val = db
        BY <1>1, <2>2 DEF Quiet, AllFresh
      <3>2. \A d \in Clients : op'[d].pc \in {"promote", "set", "add"} => op'[d].val = db
        BY Zenon, <1>1, <2>1 DEF Quiet, AllFresh
      <3> QED
        BY Zenon, <1>1, <1>2, <3>1, <3>2 DEF AllFresh
    <2> QED
      BY Zenon, <2>4, <2>5, <2>6 DEF Quiet
  <1> QED
    BY Zenon, <1>3, <1>4, <1>5 DEF Get

\* Nobody else is there when a command runs.
LEMMA CommandFresh ==
  ASSUME StaleInv, Quiet, NEW c \in Clients, ~raced',
         \/ Command(c)
         \/ op[c].pc = "evict" /\ EvictLocal(c)
         \/ op[c].pc = "delete" /\ EvictRemote(c)
  PROVE  Quiet'
  <1>1. /\ OpInv /\ FlightInv /\ LocalInv /\ PodOf[c] \in Pods
        /\ UNCHANGED <<conf, flight>>
    BY Zenon, CacheConstants DEF StaleInv, AgeInv, Command, EvictLocal, EvictRemote
  <1>2. \A d \in Clients : d # c => op[d].pc = "idle"
    BY Zenon DEF Quiet, Alone, Command, querying, commanding
  <1>3. \A p \in Pods : ~flight[p].on /\ ~flight[p].read /\ ~flight[p].hit
    <2>1. op[c].pc # "fetch"
      BY Zenon DEF Command
    <2>2. \A p \in Pods : ~flight[p].on
      BY Zenon, <1>2, <2>1 DEF Quiet, WaitedFor
    <2> QED
      BY Zenon, <1>1, <2>2 DEF Quiet, WaitedFor, FlightInv, FlightOk
  <1>4. WaitedFor'
    BY Zenon, <1>1, <1>3 DEF Quiet, WaitedFor, PodOf
  <1>5. CASE Command(c) \/ (op[c].pc = "evict" /\ EvictLocal(c))
    <2>1. PICK pc \in {"evict", "delete"} :
            /\ Goes(c, pc, 0, TRUE) /\ writer' = PodOf[c]
            /\ pc = "delete" => local' = [local EXCEPT ![PodOf[c]] = None]
      <3>1. CASE Command(c)
        BY Zenon, <3>1 DEF Command
      <3>2. CASE op[c].pc = "evict" /\ EvictLocal(c)
        BY Zenon, <3>2 DEF EvictLocal, Quiet, Alone, history
      <3> QED
        BY Zenon, <1>5, <3>1, <3>2
    <2>2. op'[c].pc = pc /\ \A d \in Clients : d # c => op'[d].pc = "idle"
      BY Zenon, <1>1, <1>2, <2>1 DEF OpInv, Goes, At
    <2>3. pc = "delete" => ~Present(local'[PodOf[c]])
      BY <1>1, <2>1 DEF LocalInv, Present, None
    <2>4. Alone'
      BY Zenon, <1>1, <2>1, <2>2, <2>3 DEF Alone, PodOf
    <2>5. AllFresh'
      BY Zenon, <2>2 DEF AllFresh, commanding
    <2> QED
      BY Zenon, <1>4, <2>4, <2>5 DEF Quiet
  <1>6. CASE op[c].pc = "delete" /\ EvictRemote(c)
    <2>1. redis' = None /\ Returns(c) /\ local' = local /\ writer' = writer
      BY Zenon, <1>6 DEF EvictRemote
    <2>2. \A d \in Clients : op'[d].pc = "idle"
      BY Zenon, <1>1, <1>2, <2>1 DEF OpInv, Returns, Idle
    <2>3. ~Present(redis') /\ ~Present(local'[writer'])
      BY <1>6, <2>1 DEF Quiet, Alone, Present, None
    <2>4. Alone' /\ AllFresh'
      BY Zenon, <1>1, <1>3, <2>2, <2>3 DEF Alone, AllFresh
    <2> QED
      BY Zenon, <1>4, <2>4 DEF Quiet
  <1> QED
    BY Zenon, <1>5, <1>6

LEMMA ClientFresh ==
  ASSUME StaleInv, Quiet, NEW c \in Clients, ClientStep(c), ~raced'
  PROVE  Quiet'
  <1>1. /\ OpInv /\ LocalInv /\ PodOf[c] \in Pods
        /\ UNCHANGED <<conf, db, flight, writer>>
    BY Zenon, CacheConstants DEF StaleInv, AgeInv, ClientStep, Promote, Handle, SetRemote, SetLocal,
                          EvictLocal, EvictRemote, history
  <1>2. CASE op[c].pc \in {"evict", "delete"}
    <2>1. \/ op[c].pc = "evict" /\ EvictLocal(c)
          \/ op[c].pc = "delete" /\ EvictRemote(c)
      BY Zenon, <1>2 DEF ClientStep, Promote, Handle, SetRemote, SetLocal, EvictLocal, EvictRemote
    <2> QED
      BY Zenon, <2>1, CommandFresh
  <1>3. CASE op[c].pc \notin {"evict", "delete"}
    <2>1. op[c].pc \in {"promote", "handle", "set", "add", "purge", "drop"}
      BY Zenon, <1>3 DEF ClientStep, Promote, Handle, SetRemote, SetLocal, EvictLocal, EvictRemote
    <2>2. ~commanding
      BY Zenon, <1>3, <2>1 DEF Quiet, Alone, commanding
    <2>3. /\ Present(redis) => redis.val = db
          /\ Present(local[writer]) => local[writer].val = db
          /\ op[c].pc \in {"promote", "set", "add"} => op[c].val = db
      BY Zenon, <2>2 DEF Quiet, AllFresh
    <2>4. ASSUME NEW e, local' = [local EXCEPT ![PodOf[c]] = e], Present(e) => e.val = db
          PROVE  Present(local'[writer]) => local'[writer].val = db
      <3>1. local'[writer] = e \/ local'[writer] = local[writer]
        BY <1>1, <2>4 DEF LocalInv
      <3> QED
        BY Zenon, <2>3, <2>4, <3>1
    <2>5. CASE Promote(c) \/ SetLocal(c)
      <3>1. PICK ok : local' = [local EXCEPT ![PodOf[c]] = LocalEntry(op[c].val, ok)]
        BY Zenon, <2>5 DEF Promote, SetLocal
      <3>2. Present(LocalEntry(op[c].val, ok)) => LocalEntry(op[c].val, ok).val = db
        BY <2>3, <2>5 DEF LocalEntry, Present, None, Promote, SetLocal
      <3>3. Present(local'[writer]) => local'[writer].val = db
        BY Zenon, <2>4, <3>1, <3>2
      <3>4. redis' = redis
        BY Zenon, <2>5 DEF Promote, SetLocal
      <3>5. PICK x : /\ op' = [op EXCEPT ![c] = x]
                     /\ x.pc \notin {"evict", "delete", "promote", "set", "add"}
        <4>1. Idle.pc = "idle"
          BY Zenon DEF Idle
        <4> QED
          BY Zenon, <2>5, <4>1, DecodedGoes DEF Promote, SetLocal, Returns
      <3> QED
        BY Zenon, <1>1, <2>1, <2>2, <2>3, <3>3, <3>4, <3>5, QueryGoes
    <2>6. CASE Handle(c)
      <3>1. PICK x : /\ op' = [op EXCEPT ![c] = x]
                     /\ x.pc \notin {"evict", "delete"}
                     /\ x.pc \in {"promote", "set", "add"} => x.val = db
        <4>1. Idle.pc = "idle" /\ At("set", db, TRUE).pc = "set" /\ At("set", db, TRUE).val = db
          BY Zenon DEF Idle, At
        <4> QED
          BY Zenon, <2>6, <4>1 DEF Handle, Returns, Goes
      <3>2. redis' = redis /\ local' = local
        BY Zenon, <2>6 DEF Handle
      <3> QED
        BY Zenon, <1>1, <2>1, <2>2, <2>3, <3>1, <3>2, QueryGoes
    <2>7. CASE SetRemote(c)
      <3>1. PICK x : /\ op' = [op EXCEPT ![c] = x]
                     /\ x.pc \notin {"evict", "delete"}
                     /\ x.pc \in {"promote", "set", "add"} => x.val = db
        <4>1. /\ Idle.pc = "idle" /\ At("add", op[c].val, TRUE).pc = "add"
              /\ At("add", op[c].val, TRUE).val = op[c].val
          BY Zenon DEF Idle, At
        <4> QED
          BY Zenon, <2>3, <2>7, <4>1 DEF SetRemote, Returns, Goes
      <3>2. /\ local' = local
            /\ (redis' = redis \/ redis'.val = op[c].val)
        <4>1. [val |-> op[c].val, left |-> TTL, ok |-> TRUE].val = op[c].val
          BY Zenon
        <4> QED
          BY Zenon, <2>7, <4>1 DEF SetRemote
      <3>3. op[c].val = db
        BY Zenon, <2>3, <2>7 DEF SetRemote
      <3> QED
        BY Zenon, <1>1, <2>1, <2>2, <2>3, <3>1, <3>2, <3>3, QueryGoes
    <2>8. CASE EvictLocal(c) \/ EvictRemote(c)
      <3>1. PICK x : /\ op' = [op EXCEPT ![c] = x]
                     /\ x.pc \notin {"evict", "delete", "promote", "set", "add"}
        <4>1. At("drop", 0, TRUE).pc = "drop" /\ At("handle", 0, TRUE).pc = "handle"
          BY Zenon DEF At
        <4> QED
          BY Zenon, <1>3, <2>8, <4>1 DEF EvictLocal, EvictRemote, Goes
      <3>2. ~Present(None)
        BY DEF Present, None
      <3>3. Present(redis') => redis'.val = db
        BY Zenon, <2>3, <2>8, <3>2 DEF EvictLocal, EvictRemote
      <3>4. Present(local'[writer]) => local'[writer].val = db
        BY Zenon, <2>3, <2>4, <2>8, <3>2 DEF EvictLocal, EvictRemote
      <3> QED
        BY Zenon, <1>1, <2>1, <2>2, <3>1, <3>3, <3>4, QueryGoes
    <2> QED
      BY Zenon, <2>5, <2>6, <2>7, <2>8 DEF ClientStep
  <1> QED
    BY Zenon, <1>2, <1>3

LEMMA RedisGetFresh ==
  ASSUME StaleInv, Quiet, NEW p \in Pods, RedisGet(p)
  PROVE  Quiet'
  <1>1. /\ OpInv /\ FlightInv /\ flight[p] \in Flights
        /\ UNCHANGED <<conf, db, redis, local, op, writer>>
    BY Zenon DEF StaleInv, FlightInv, FlightOk, RedisGet, history
  <1>2. ~commanding
    BY Zenon DEF Quiet, WaitedFor, Alone, commanding, RedisGet
  <1>3. /\ flight'[p].read /\ flight'[p].on
        /\ flight'[p].members = flight[p].members
        /\ flight'[p].hit => flight[p].hit \/ Present(redis)
        /\ flight'[p].val = flight[p].val \/ (Present(redis) /\ flight'[p].val = redis.val)
        /\ (flight'[p].hit /\ flight'[p].val = flight[p].val) =>
             (flight[p].hit \/ flight'[p].val = redis.val)
        /\ \A q \in Pods : q # p => flight'[q] = flight[q]
    <2>1. \A q \in Pods : q # p => flight'[q] = flight[q]
      BY Zenon, <1>1 DEF RedisGet, FlightInv
    <2>2. \/ /\ Present(redis)
             /\ flight'[p] = [flight[p] EXCEPT !.read = TRUE, !.hit = TRUE,
                                !.val = redis.val, !.ok = redis.ok, !.hold = 0]
          \/ flight'[p] = [flight[p] EXCEPT !.read = TRUE]
      BY Zenon, <1>1 DEF RedisGet, FlightInv
    <2> QED
      BY ZenonT(60), <1>1, <2>1, <2>2 DEF RedisGet, Flights
  <1>4. commanding' = commanding /\ PodOf' = PodOf
    BY Zenon, <1>1 DEF commanding, PodOf
  <1>5. WaitedFor'
    BY <1>1, <1>3, <1>4 DEF Quiet, WaitedFor, RedisGet
  <1>6. Alone'
    BY Zenon, <1>1, <1>4 DEF Quiet, Alone
  <1>7. \A q \in Pods : flight'[q].hit => flight'[q].val = db
    BY Zenon, <1>2, <1>3 DEF Quiet, AllFresh
  <1>8. AllFresh'
    BY Zenon, <1>1, <1>2, <1>4, <1>7 DEF Quiet, AllFresh
  <1> QED
    BY Zenon, <1>5, <1>6, <1>8 DEF Quiet

LEMMA FlightReturnsFresh ==
  ASSUME StaleInv, Quiet, NEW p \in Pods, FlightReturns(p)
  PROVE  Quiet'
  <1>1. /\ OpInv /\ FlightInv
        /\ UNCHANGED <<conf, db, redis, local, writer>>
    BY Zenon DEF StaleInv, FlightReturns, history
  <1>2. ~commanding
    BY Zenon DEF Quiet, WaitedFor, Alone, commanding, FlightReturns
  <1>3. /\ ~flight'[p].on /\ ~flight'[p].read /\ ~flight'[p].hit
        /\ flight'[p].members = {}
        /\ \A q \in Pods : q # p => flight'[q] = flight[q]
    <2>1. flight'[p] = NoFlight /\ \A q \in Pods : q # p => flight'[q] = flight[q]
      BY Zenon, <1>1 DEF FlightReturns, FlightInv
    <2> QED
      BY <2>1 DEF NoFlight
  <1>4. ASSUME NEW c \in Clients
        PROVE  \/ op'[c] = op[c] /\ c \notin flight[p].members
               \/ c \in flight[p].members /\ op'[c].pc = "handle"
               \/ /\ c \in flight[p].members /\ op'[c].pc = "promote"
                  /\ flight[p].hit /\ op'[c].val = flight[p].val
    <2>1. /\ At("handle", 0, TRUE).pc = "handle"
          /\ At("promote", flight[p].val, flight[p].ok).pc = "promote"
          /\ At("promote", flight[p].val, flight[p].ok).val = flight[p].val
      BY Zenon DEF At
    <2> QED
      BY Zenon, <2>1 DEF FlightReturns
  <1>5. ~commanding' /\ PodOf' = PodOf
    BY Zenon, <1>1, <1>2, <1>4 DEF commanding, PodOf
  <1>6. WaitedFor'
    BY <1>1, <1>3, <1>4, <1>5 DEF Quiet, WaitedFor
  <1>7. Alone'
    BY Zenon, <1>5 DEF Alone, commanding
  <1>8. \A q \in Pods : flight'[q].hit => flight'[q].val = db
    BY Zenon, <1>2, <1>3 DEF Quiet, AllFresh
  <1>9. \A c \in Clients : op'[c].pc \in {"promote", "set", "add"} => op'[c].val = db
    BY ZenonT(60), <1>2, <1>4 DEF Quiet, AllFresh
  <1>10. AllFresh'
    BY Zenon, <1>1, <1>2, <1>8, <1>9 DEF Quiet, AllFresh
  <1> QED
    BY Zenon, <1>6, <1>7, <1>10 DEF Quiet

LEMMA InvalidateFresh ==
  ASSUME StaleInv, writer \in Pods, Quiet, NEW p \in Pods, Invalidate(p)
  PROVE  Quiet'
  <1>1. LocalInv /\ UNCHANGED <<conf, db, redis, flight, op, writer>>
    BY Zenon DEF StaleInv, Invalidate, history
  <1>2. ~Present(None)
    BY DEF Present, None
  <1>3. \A q : Present(local'[q]) /\ q \in Pods => local'[q] = local[q]
    BY Zenon, <1>1, <1>2 DEF Invalidate, LocalInv
  <1>4. commanding' = commanding /\ PodOf' = PodOf
    BY Zenon, <1>1 DEF commanding, PodOf
  <1> QED
    BY <1>1, <1>3, <1>4 DEF Quiet, WaitedFor, Alone, AllFresh

LEMMA TickFresh ==
  ASSUME StaleInv, writer \in Pods, Quiet, Tick
  PROVE  Quiet'
  <1>1. OpInv /\ FlightInv /\ LocalInv /\ UNCHANGED <<conf, db, writer>>
    BY Zenon DEF StaleInv, Tick, history
  <1>2. \A c \in Clients : op'[c].pc = op[c].pc /\ op'[c].val = op[c].val
    BY <1>1 DEF Tick, OpInv, Calls
  <1>3. \A p \in Pods : /\ flight'[p].on = flight[p].on /\ flight'[p].read = flight[p].read
                        /\ flight'[p].hit = flight[p].hit /\ flight'[p].val = flight[p].val
                        /\ flight'[p].members = flight[p].members
    BY Zenon, <1>1 DEF Tick, FlightInv, FlightOk, Flights
  <1>4. ASSUME NEW e \in Stored, Present(Aged(e))
        PROVE  Present(e) /\ Aged(e).val = e.val
    BY <1>4 DEF Stored, Aged, Present, None
  <1>5. Present(redis') => Present(redis) /\ redis'.val = redis.val
    BY Zenon, <1>4 DEF Tick, StaleInv, RedisInv, RedisOk
  <1>6. Present(local'[writer]) => Present(local[writer]) /\ local'[writer].val = local[writer].val
    BY Zenon, <1>1, <1>4 DEF Tick, LocalInv, LocalOk
  <1>7. commanding' = commanding /\ PodOf' = PodOf
    BY Zenon, <1>1, <1>2 DEF commanding, PodOf
  <1>8. WaitedFor'
    BY <1>2, <1>3, <1>7 DEF Quiet, WaitedFor
  <1>9. Alone'
    BY ZenonT(60), <1>1, <1>2, <1>6, <1>7 DEF Quiet, Alone
  <1>10. AllFresh'
    BY <1>1, <1>2, <1>3, <1>5, <1>6, <1>7 DEF Quiet, AllFresh
  <1> QED
    BY Zenon, <1>8, <1>9, <1>10 DEF Quiet

LEMMA UnracedStep ==
  ASSUME StaleInv, UnracedInv, [Next]_vars
  PROVE  UnracedInv'
  <1>0. writer' \in Pods
    BY ZenonT(60), CacheConstants DEF UnracedInv, StaleInv, AgeInv, Next, Get, Command, ClientStep, Promote, Handle,
       SetRemote, SetLocal, EvictLocal, EvictRemote, PodStep, RedisGet, FlightReturns, Invalidate,
       Crash, Tick, history, vars
  <1> SUFFICES ASSUME ~raced' PROVE Quiet'
    BY Zenon, <1>0 DEF UnracedInv
  <1>1. CASE UNCHANGED vars
    BY <1>1 DEF vars, UnracedInv, Quiet, WaitedFor, Alone, AllFresh, commanding, PodOf
  <1>2. CASE Next
    <2>1. ~raced
      BY ZenonT(60), <1>2 DEF Next, Get, Command, ClientStep, Promote, Handle, SetRemote, SetLocal, EvictLocal,
                  EvictRemote, PodStep, RedisGet, FlightReturns, Invalidate, Crash, Tick, history
    <2>2. Quiet /\ writer \in Pods
      BY Zenon, <2>1 DEF UnracedInv
    <2>3. ASSUME NEW p \in Pods PROVE ~Crash(p)
      BY Zenon DEF Crash
    <2> QED
      BY Zenon, <1>2, <2>2, <2>3, GetFresh, CommandFresh, ClientFresh, RedisGetFresh, FlightReturnsFresh,
         InvalidateFresh, TickFresh DEF Next, PodStep
  <1> QED
    BY Zenon, <1>1, <1>2

\* The invalidation middleware: for any clients, pods, drivers and TTLs, as
\* long as no query overlapped a command and no eviction failed, Redis and the
\* L1 of the pod that wrote last hold the value of the database or nothing.
THEOREM UnracedIsFreshAlways == Spec => []UnracedIsFresh
  <1>1. Init => UnracedInv
    <2> SUFFICES ASSUME Init PROVE Quiet
      BY Zenon DEF UnracedInv, Init
    <2>1. \A c \in Clients : op[c].pc = "idle"
      BY Zenon DEF Init, Idle
    <2>2. \A p \in Pods : ~flight[p].read /\ ~flight[p].on /\ ~flight[p].hit /\ flight[p].members = {}
      BY Zenon DEF Init, NoFlight
    <2>3. redis.val = 0 /\ local[writer].val = 0 /\ db = 0
      BY DEF Init, None
    <2> QED
      BY Zenon, <2>1, <2>2, <2>3 DEF Quiet, WaitedFor, Alone, AllFresh
  <1>2. UnracedInv => UnracedIsFresh
    BY Zenon DEF UnracedInv, Quiet, AllFresh, UnracedIsFresh
  <1> QED
    BY <1>1, <1>2, StaleInit, StaleStep, UnracedStep, PTL DEF Spec

-----------------------------------------------------------------------------
\* Sessions.  A validation knows how long ago it read the clock, an entry of
\* the active cache how long it has left.  a is age[0], the ticks since the
\* revocation, and d is db.
IsCall(o)  == DOMAIN o = {"pc", "val", "ok", "hold"} /\ o = [f \in DOMAIN o |-> o[f]]
IsClock(k) == DOMAIN k = {"ago", "revoked"} /\ k = [f \in DOMAIN k |-> k[f]]

ClockOk(o, k, a, d) ==
  /\ IsCall(o) /\ IsClock(k)
  /\ k.ago \in Nat /\ k.revoked \in Int
  /\ o.pc \in checking /\ d = 0 => k.revoked = -1
  /\ o.pc = "load" => /\ o.hold = k.ago /\ k.ago <= Timeout
                      /\ k.revoked = -1 \/ k.revoked + k.ago <= a \/ a > MaxAge
  /\ o.pc = "store" => k.revoked = -1 /\ a <= k.ago

EntryOk(e, a) == e \in Int /\ (e <= -Timeout \/ e + a <= sessionActiveCacheTTL)

RevokedInv == db \in {0, 1} /\ age[0] \in Nat /\ (db = 0 => age[0] = 0) /\ 0 \in DOMAIN age
ClientsInv ==
  /\ op = [c \in Clients |-> op[c]] /\ clock = [c \in Clients |-> clock[c]]
  /\ \A c \in Clients : ClockOk(op[c], clock[c], age[0], db)
ActiveInv ==
  /\ activeCache = [p \in Pods |-> activeCache[p]]
  /\ \A p \in Pods : EntryOk(activeCache[p], age[0])
LatestInv == latest \in Int /\ latest < sessionActiveCacheTTL

SessionInv == RevokedInv /\ ClientsInv /\ ActiveInv /\ LatestInv

RevocationInv ==
  /\ conf \in Configs
  /\ conf.use = "query" => latest = -1
  /\ conf.use = "session" => SessionInv

\* The constants of sessions.
LEMMA SessionConstants ==
  /\ sessionActiveCacheTTL \in Nat /\ sessionActiveCacheTTL > 0
  /\ Absent \in Int /\ Absent <= -Timeout /\ Timeout \in Nat /\ MaxAge \in Int
  /\ conf \in Configs => conf.use \in {"query", "session"}
  BY CacheConstants, SessionsAssumption DEF Absent, MaxAge

\* The records that the steps make.
LEMMA Shapes ==
  /\ \A x, v, ok : IsCall(At(x, v, ok)) /\ At(x, v, ok).pc = x /\ At(x, v, ok).hold = 0
  /\ IsCall(Idle) /\ Idle.pc = "idle"
  /\ IsClock(NotRead) /\ NotRead.ago = 0 /\ NotRead.revoked = -1
  BY ZenonT(60) DEF IsCall, IsClock, At, Idle, NotRead

\* The clock that ReadClock reads.
LEMMA ReadShape ==
  ASSUME NEW r
  PROVE  LET k == [ago |-> 0, revoked |-> r] IN IsClock(k) /\ k.ago = 0 /\ k.revoked = r
  BY Zenon DEF IsClock

\* Idle clients, and those that go on elsewhere, with no clock.
LEMMA NoClock ==
  ASSUME NEW a, NEW d, NEW x, NEW v, NEW ok, x \notin {"load", "forget", "query", "store"}
  PROVE  ClockOk(Idle, NotRead, a, d) /\ ClockOk(At(x, v, ok), NotRead, a, d)
  BY Shapes DEF ClockOk, checking

\* A client that is not at the session check carries no obligation.
LEMMA OtherClock ==
  ASSUME NEW o, NEW k, NEW a, NEW d, ClockOk(o, k, a, d),
         NEW x, NEW v, NEW ok, x \notin {"load", "forget", "query", "store"}
  PROVE  /\ ClockOk(At(x, v, ok), k, a, d) /\ ClockOk(At(x, v, ok), NotRead, a, d)
         /\ ClockOk(Idle, k, a, d) /\ ClockOk(Idle, NotRead, a, d)
  BY Shapes, NoClock DEF ClockOk, checking

\* What Store stores.
LEMMA StoredEntry ==
  ASSUME NEW n \in Nat, NEW a \in Nat, a <= n
  PROVE  EntryOk(sessionActiveCacheTTL - n, a)
  BY SessionConstants DEF EntryOk

\* A validation that has just read the clock.
LEMMA LoadClock ==
  ASSUME NEW a \in Nat, NEW d \in {0, 1}
  PROVE  ClockOk(At("load", 0, TRUE), [ago |-> 0, revoked |-> IF d = 0 THEN -1 ELSE a], a, d)
  <1> DEFINE k == [ago |-> 0, revoked |-> IF d = 0 THEN -1 ELSE a]
             o == At("load", 0, TRUE)
  <1>1. IsClock(k) /\ k.ago = 0 /\ k.revoked = IF d = 0 THEN -1 ELSE a
    BY Zenon, ReadShape
  <1>2. IsCall(o) /\ o.pc = "load" /\ o.hold = 0
    BY Zenon DEF At, IsCall
  <1> HIDE DEF k, o
  <1>3. /\ k.revoked \in Int /\ (d = 0 => k.revoked = -1)
        /\ k.revoked = -1 \/ k.revoked + k.ago <= a
    BY <1>1
  <1>4. k.ago \in Nat /\ k.ago <= Timeout
    BY <1>1, SessionConstants
  <1>5. ClockOk(o, k, a, d)
    BY Zenon, <1>1, <1>2, <1>3, <1>4 DEF ClockOk
  <1> QED
    BY Zenon, <1>5 DEF k, o

\* A validation to which the database has just said that the session is active.
LEMMA StoreClock ==
  ASSUME NEW k, IsClock(k), k.ago \in Nat, k.revoked = -1, NEW a, a = 0, NEW d
  PROVE  ClockOk(At("store", 0, TRUE), k, a, d)
  <1> DEFINE o == At("store", 0, TRUE)
  <1>1. IsCall(o) /\ o.pc = "store"
    BY Zenon, Shapes
  <1> HIDE DEF o
  <1>2. ClockOk(o, k, a, d)
    BY <1>1 DEF ClockOk
  <1> QED
    BY Zenon, <1>2 DEF o

\* A client goes on with the clock it read.
LEMMA OneClient ==
  ASSUME ClientsInv, UNCHANGED <<db, age, clock>>, NEW c \in Clients, NEW x,
         ClockOk(x, clock[c], age[0], db), op' = [op EXCEPT ![c] = x]
  PROVE  ClientsInv'
  BY Zenon DEF ClientsInv

\* A client goes on with another clock.
LEMMA OneClock ==
  ASSUME ClientsInv, UNCHANGED <<db, age>>, NEW c \in Clients, NEW x, NEW k,
         ClockOk(x, k, age[0], db), op' = [op EXCEPT ![c] = x],
         clock' = [clock EXCEPT ![c] = k]
  PROVE  ClientsInv'
  BY Zenon DEF ClientsInv

\* One pod's active cache changes.
LEMMA OneEntry ==
  ASSUME ActiveInv, UNCHANGED age, NEW p \in Pods, NEW e, EntryOk(e, age[0]),
         activeCache' = [activeCache EXCEPT ![p] = e]
  PROVE  ActiveInv'
  BY Zenon DEF ActiveInv

\* The step every accepted token rests on: an entry that had not expired when
\* the clock was read was stored by a validation that read the clock before
\* the revocation.
LEMMA LoadIsTimely ==
  ASSUME sessionActiveCacheTTL + Timeout <= MaxAge + 1,
         NEW o, NEW k, NEW a \in Nat, NEW d, ClockOk(o, k, a, d), o.pc = "load",
         NEW e, EntryOk(e, a), e + k.ago > 0
  PROVE  k.revoked < sessionActiveCacheTTL
  <1>1. /\ k.ago \in Nat /\ k.revoked \in Int /\ k.ago <= Timeout /\ e \in Int
        /\ k.revoked = -1 \/ k.revoked + k.ago <= a \/ a > MaxAge
    BY Zenon DEF ClockOk, EntryOk
  <1>2. e > -Timeout
    BY <1>1, SessionConstants
  <1>3. e + a <= sessionActiveCacheTTL
    BY <1>1, <1>2, SessionConstants DEF EntryOk
  <1>4. CASE k.revoked = -1
    BY <1>4, SessionConstants
  <1>5. CASE k.revoked + k.ago <= a
    BY <1>1, <1>3, <1>5, SessionConstants
  <1>6. CASE a > MaxAge
    BY <1>1, <1>2, <1>3, <1>6, SessionConstants
  <1> QED
    BY Zenon, <1>1, <1>4, <1>5, <1>6

\* Steps of the cache below the sessions: clients that fetch, promote or return
\* are not at the session check.
LEMMA CacheMoves ==
  ASSUME ClientsInv, UNCHANGED <<db, age, clock>>, NEW c \in Clients,
         \/ Returns(c)
         \/ \E x, v, ok : x \notin {"load", "forget", "query", "store"} /\ Goes(c, x, v, ok)
  PROVE  ClientsInv'
  <1>0. ClockOk(op[c], clock[c], age[0], db)
    BY Zenon DEF ClientsInv
  <1>1. CASE Returns(c)
    <2>1. ClockOk(Idle, clock[c], age[0], db)
      BY <1>0, OtherClock
    <2> QED
      BY Zenon, <1>1, <2>1, OneClient DEF Returns
  <1>2. CASE \E x, v, ok : x \notin {"load", "forget", "query", "store"} /\ Goes(c, x, v, ok)
    <2> PICK x, v, ok : x \notin {"load", "forget", "query", "store"} /\ Goes(c, x, v, ok)
      BY Zenon, <1>2
    <2>1. ClockOk(At(x, v, ok), clock[c], age[0], db)
      BY Zenon, <1>0, OtherClock
    <2> QED
      BY Zenon, <2>1, OneClient DEF Goes
  <1> QED
    BY Zenon, <1>1, <1>2

\* A validation that ends, accepted or not.
LEMMA EndMoves ==
  ASSUME ClientsInv, UNCHANGED <<db, age>>, NEW c \in Clients, Ends(c)
  PROVE  ClientsInv'
  <1>1. ClockOk(op[c], clock[c], age[0], db)
    BY Zenon DEF ClientsInv
  <1>2. ClockOk(Idle, NotRead, age[0], db)
    BY <1>1, OtherClock
  <1> QED
    BY Zenon, <1>2, OneClock DEF Ends, Returns

\* A validation goes from one step of the check to the next.
LEMMA CheckMoves ==
  ASSUME ClientsInv, UNCHANGED <<db, age, clock>>, NEW c \in Clients,
         op[c].pc \in checking, NEW x \in {"forget", "query"}, Goes(c, x, 0, TRUE)
  PROVE  ClientsInv'
  <1>1. ClockOk(op[c], clock[c], age[0], db)
    BY Zenon DEF ClientsInv
  <1>2. ClockOk(At(x, 0, TRUE), clock[c], age[0], db)
    BY Zenon, <1>1, Shapes DEF ClockOk, checking
  <1> QED
    BY Zenon, <1>2, OneClient DEF Goes

\* A step of a client that validates or revokes.
LEMMA ValidationKeeps ==
  ASSUME sessionActiveCacheTTL + Timeout <= MaxAge + 1,
         SessionInv, conf \in Configs, NEW c \in Clients,
         \/ \E t \in DOMAIN GenerateTokenPair : ValidateAccessToken(c, t)
         \/ ReadClock(c) \/ Load(c) \/ Forget(c) \/ IsSessionRevoked(c) \/ Store(c)
         \/ Revoke(c) \/ RevokeSession(c) \/ Blacklist(c)
         \/ (Promote(c) \/ SetLocal(c)) /\ UNCHANGED sessionVars
  PROVE  SessionInv' /\ conf' = conf
  <1> USE DEF SessionInv
  <1>0. PodOf[c] \in Pods /\ ClockOk(op[c], clock[c], age[0], db)
    BY Zenon, CacheConstants DEF ClientsInv
  <1>a. EntryOk(activeCache[PodOf[c]], age[0])
    BY Zenon, <1>0 DEF ActiveInv
  <1>b. EntryOk(Absent, age[0])
    BY Zenon, SessionConstants DEF EntryOk
  <1>1. ASSUME NEW t, ValidateAccessToken(c, t)
        PROVE  SessionInv' /\ conf' = conf
    <2>1. UNCHANGED <<conf, db, age, sessionVars>>
      BY Zenon, <1>1 DEF ValidateAccessToken, IsBlacklisted, NeverBlacklisted, Get
    <2>2. RevokedInv' /\ ActiveInv' /\ LatestInv'
      BY Zenon, <2>1 DEF RevokedInv, ActiveInv, LatestInv, sessionVars
    <2>3. \/ Returns(c) \/ Goes(c, "purge", 0, TRUE) \/ Goes(c, "handle", 0, TRUE)
          \/ Goes(c, "fetch", 0, TRUE)
      BY Zenon, <1>1 DEF ValidateAccessToken, IsBlacklisted, NeverBlacklisted, Get, NoopGet,
                  Decoded, JSONDecoded, RawDecoded
    <2>4. ClientsInv'
      BY Zenon, <2>1, <2>3, CacheMoves DEF sessionVars
    <2> QED
      BY Zenon, <2>1, <2>2, <2>4
  <1>2. CASE ReadClock(c)
    <2>1. UNCHANGED <<conf, db, age, activeCache, latest>>
      BY Zenon, <1>2 DEF ReadClock
    <2>2. RevokedInv' /\ ActiveInv' /\ LatestInv'
      BY Zenon, <2>1 DEF RevokedInv, ActiveInv, LatestInv
    <2>3. CASE conf.checker
      <3> DEFINE k == [ago |-> 0, revoked |-> IF db = 0 THEN -1 ELSE age[0]]
      <3>1. ClockOk(At("load", 0, TRUE), k, age[0], db)
        BY Zenon, LoadClock DEF RevokedInv
      <3>2. Goes(c, "load", 0, TRUE) /\ clock' = [clock EXCEPT ![c] = k]
        BY Zenon, <1>2, <2>3 DEF ReadClock
      <3>3. ClientsInv'
        BY ZenonT(60), <2>1, <3>1, <3>2, OneClock DEF Goes
      <3> QED
        BY Zenon, <2>1, <2>2, <3>3
    <2>4. CASE ~conf.checker
      BY Zenon, <1>2, <2>1, <2>2, <2>4, EndMoves DEF ReadClock
    <2> QED
      BY Zenon, <2>3, <2>4
  <1>3. CASE Load(c)
    <2>1. UNCHANGED <<conf, db, age, activeCache>> /\ op[c].pc = "load"
      BY Zenon, <1>3 DEF Load
    <2>2. RevokedInv' /\ ActiveInv'
      BY Zenon, <2>1 DEF RevokedInv, ActiveInv
    <2>3. CASE activeCache[PodOf[c]] # Absent /\ activeCache[PodOf[c]] + clock[c].ago > 0
      <3>1. Accepts(c)
        BY Zenon, <1>3, <2>3 DEF Load
      <3>2. clock[c].revoked < sessionActiveCacheTTL /\ clock[c].revoked \in Int
        BY Zenon, <1>0, <1>a, <2>1, <2>3, LoadIsTimely DEF RevokedInv, ClockOk
      <3>3. LatestInv'
        BY Zenon, <3>1, <3>2 DEF Accepts, LatestInv
      <3> QED
        BY Zenon, <2>1, <2>2, <3>1, <3>3, EndMoves DEF Accepts
    <2>4. CASE ~(activeCache[PodOf[c]] # Absent /\ activeCache[PodOf[c]] + clock[c].ago > 0)
      <3>1. /\ UNCHANGED <<clock, latest>>
            /\ Goes(c, "query", 0, TRUE) \/ Goes(c, "forget", 0, TRUE)
        BY Zenon, <1>3, <2>4 DEF Load
      <3>2. ClientsInv'
        BY ZenonT(60), <2>1, <3>1, CheckMoves DEF checking
      <3> QED
        BY Zenon, <2>1, <2>2, <3>1, <3>2 DEF LatestInv
    <2> QED
      BY Zenon, <2>3, <2>4
  <1>4. CASE Forget(c)
    <2>1. UNCHANGED <<conf, db, age, clock, latest>> /\ op[c].pc = "forget"
      BY Zenon, <1>4 DEF Forget
    <2>2. RevokedInv' /\ LatestInv'
      BY Zenon, <2>1 DEF RevokedInv, LatestInv
    <2>3. ActiveInv'
      BY ZenonT(60), <1>4, <1>0, <1>b, <2>1, OneEntry DEF Forget
    <2>4. ClientsInv'
      BY ZenonT(60), <1>4, <2>1, CheckMoves DEF Forget, checking
    <2> QED
      BY Zenon, <2>1, <2>2, <2>3, <2>4
  <1>5. CASE IsSessionRevoked(c)
    <2>1. UNCHANGED <<conf, db, age, activeCache, latest>> /\ op[c].pc = "query"
      BY Zenon, <1>5 DEF IsSessionRevoked
    <2>2. RevokedInv' /\ ActiveInv' /\ LatestInv'
      BY Zenon, <2>1 DEF RevokedInv, ActiveInv, LatestInv
    <2>3. CASE db = 0 /\ Goes(c, "store", 0, TRUE) /\ UNCHANGED clock
      <3>1. ClockOk(At("store", 0, TRUE), clock[c], age[0], db)
        <4>1. age[0] = 0 /\ clock[c].ago \in Nat /\ clock[c].revoked = -1 /\ IsClock(clock[c])
          BY Zenon, <1>0, <2>1, <2>3 DEF ClockOk, checking, RevokedInv
        <4> QED
          BY Zenon, <4>1, StoreClock
      <3>2. ClientsInv'
        BY Zenon, <2>1, <2>3, <3>1, OneClient DEF Goes
      <3> QED
        BY Zenon, <2>1, <2>2, <3>2
    <2>4. CASE Goes(c, "backfill", 0, TRUE) /\ UNCHANGED clock
      BY ZenonT(60), <2>1, <2>2, <2>4, CacheMoves
    <2>5. CASE Ends(c)
      BY Zenon, <2>1, <2>2, <2>5, EndMoves
    <2> QED
      BY Zenon, <1>5, <2>3, <2>4, <2>5 DEF IsSessionRevoked
  <1>6. CASE Store(c)
    <2>1. UNCHANGED <<conf, db, age>> /\ op[c].pc = "store" /\ Accepts(c)
      BY Zenon, <1>6 DEF Store
    <2>2. /\ clock[c].revoked = -1 /\ age[0] <= clock[c].ago
          /\ clock[c].ago \in Nat /\ age[0] \in Nat
      BY Zenon, <1>0, <2>1 DEF ClockOk, RevokedInv
    <2>3. EntryOk(sessionActiveCacheTTL - clock[c].ago, age[0])
      BY Zenon, <2>2, StoredEntry
    <2>4. ActiveInv'
      BY Zenon, <1>6, <1>0, <2>1, <2>3, OneEntry DEF Store
    <2>a. latest' \in {latest, -1}
      BY Zenon, <2>1, <2>2 DEF Accepts
    <2>5. LatestInv'
      BY <2>a, SessionConstants DEF LatestInv
    <2> QED
      BY Zenon, <2>1, <2>4, <2>5, EndMoves DEF Accepts, RevokedInv
  <1>7. CASE Revoke(c)
    <2>1. /\ UNCHANGED <<conf, age, activeCache, clock, latest>>
          /\ db = 0 /\ db' = 1 /\ Goes(c, "revoke", 0, TRUE)
      BY Zenon, <1>7 DEF Revoke, sessionVars
    <2>2. RevokedInv' /\ ActiveInv' /\ LatestInv'
      BY Zenon, <2>1 DEF RevokedInv, ActiveInv, LatestInv
    <2>3. \A b \in Clients : ClockOk(op[b], clock[b], age[0], 1)
      BY Zenon, <2>1 DEF ClientsInv, ClockOk
    <2>4. ClockOk(At("revoke", 0, TRUE), clock[c], age[0], 1)
      BY Zenon, <2>3, OtherClock
    <2>5. ClientsInv'
      BY Zenon, <2>1, <2>3, <2>4 DEF ClientsInv, Goes
    <2> QED
      BY Zenon, <2>1, <2>2, <2>5
  <1>8. CASE RevokeSession(c)
    <2>1. UNCHANGED <<conf, db, age, clock, latest>> /\ Goes(c, "blacklist", 0, TRUE)
      BY Zenon, <1>8 DEF RevokeSession
    <2>2. RevokedInv' /\ LatestInv'
      BY Zenon, <2>1 DEF RevokedInv, LatestInv
    <2>3. ActiveInv'
      BY Zenon, <1>8, <1>0, <1>b, <2>1, OneEntry DEF RevokeSession
    <2> QED
      BY Zenon, <2>1, <2>2, <2>3, CacheMoves
  <1>9. CASE Blacklist(c)
    <2>1. /\ UNCHANGED <<conf, db, age, activeCache, latest>>
          /\ clock' = [clock EXCEPT ![c] = NotRead]
          /\ Goes(c, "add", db, TRUE) \/ Returns(c)
      BY Zenon, <1>9 DEF Blacklist
    <2>2. RevokedInv' /\ ActiveInv' /\ LatestInv'
      BY Zenon, <2>1 DEF RevokedInv, ActiveInv, LatestInv
    <2>3. ClockOk(At("add", db, TRUE), NotRead, age[0], db) /\ ClockOk(Idle, NotRead, age[0], db)
      <3>1. "add" \notin {"load", "forget", "query", "store"}
        BY Zenon
      <3> QED
        BY Zenon, <3>1, NoClock
    <2>4. ClientsInv'
      BY Zenon, <2>1, <2>3, OneClock DEF Goes, Returns
    <2> QED
      BY Zenon, <2>1, <2>2, <2>4
  <1>10. CASE (Promote(c) \/ SetLocal(c)) /\ UNCHANGED sessionVars
    <2>1. UNCHANGED <<conf, db, age, activeCache, clock, latest>>
      BY Zenon, <1>10 DEF Promote, SetLocal, sessionVars
    <2>2. RevokedInv' /\ ActiveInv' /\ LatestInv'
      BY Zenon, <2>1 DEF RevokedInv, ActiveInv, LatestInv
    <2>3. Returns(c) \/ Goes(c, "purge", 0, TRUE) \/ Goes(c, "handle", 0, TRUE)
      BY Zenon, <1>10 DEF Promote, SetLocal, Decoded, JSONDecoded, RawDecoded
    <2> QED
      BY Zenon, <2>1, <2>2, <2>3, CacheMoves
  <1> QED
    BY Zenon, <1>1, <1>2, <1>3, <1>4, <1>5, <1>6, <1>7, <1>8, <1>9, <1>10

\* A step of a pod, its restart included.
LEMMA SessionPodKeeps ==
  ASSUME SessionInv, NEW p \in Pods,
         \/ (PodStep(p) \/ Invalidate(p)) /\ UNCHANGED sessionVars
         \/ Restart(p)
  PROVE  SessionInv' /\ conf' = conf
  <1> USE DEF SessionInv
  <1>1. CASE (PodStep(p) \/ Invalidate(p)) /\ UNCHANGED sessionVars
    <2>1. UNCHANGED <<conf, db, age, activeCache, clock, latest>>
      BY Zenon, <1>1 DEF PodStep, RedisGet, FlightReturns, Invalidate, sessionVars
    <2>2. RevokedInv' /\ ActiveInv' /\ LatestInv'
      BY Zenon, <2>1 DEF RevokedInv, ActiveInv, LatestInv
    <2>3. \/ UNCHANGED op
          \/ op' = [c \in Clients |-> IF c \in flight[p].members
                     THEN IF flight[p].hit THEN At("promote", flight[p].val, flight[p].ok)
                                           ELSE At("handle", 0, TRUE)
                     ELSE op[c]]
      BY Zenon, <1>1 DEF PodStep, RedisGet, FlightReturns, Invalidate
    <2>4. ASSUME NEW c \in Clients
          PROVE  /\ ClockOk(op[c], clock[c], age[0], db)
                 /\ ClockOk(At("promote", flight[p].val, flight[p].ok), clock[c], age[0], db)
                 /\ ClockOk(At("handle", 0, TRUE), clock[c], age[0], db)
      <3>1. ClockOk(op[c], clock[c], age[0], db)
        BY Zenon DEF ClientsInv
      <3> QED
        BY Zenon, <3>1, OtherClock
    <2>5. ClientsInv'
      BY Zenon, <2>1, <2>3, <2>4 DEF ClientsInv
    <2> QED
      BY Zenon, <2>1, <2>2, <2>5
  <1>2. CASE Restart(p)
    <2>1. UNCHANGED <<conf, db, age, latest>>
      BY Zenon, <1>2 DEF Restart, Crash
    <2>2. RevokedInv' /\ LatestInv'
      BY Zenon, <2>1 DEF RevokedInv, LatestInv
    <2>3. EntryOk(Absent, age[0])
      BY Zenon, SessionConstants DEF EntryOk
    <2>4. ActiveInv'
      BY Zenon, <1>2, <2>1, <2>3, OneEntry DEF Restart
    <2>5. ClockOk(Idle, NotRead, age[0], db)
      BY NoClock
    <2>6. ClientsInv'
      BY Zenon, <1>2, <2>1, <2>5 DEF Restart, Crash, ClientsInv
    <2> QED
      BY Zenon, <2>1, <2>2, <2>4, <2>6
  <1> QED
    BY Zenon, <1>1, <1>2

\* An entry of the active cache one tick later.
LEMMA ActiveTick ==
  ASSUME NEW a \in Nat, NEW b \in Nat, b <= a + 1, NEW e, EntryOk(e, a)
  PROVE  EntryOk(IF e > -Timeout THEN e - 1 ELSE e, b)
  <1>1. e \in Int /\ (e <= -Timeout \/ e + a <= sessionActiveCacheTTL)
    BY Zenon DEF EntryOk
  <1>2. CASE e > -Timeout
    BY <1>1, <1>2, SessionConstants DEF EntryOk
  <1>3. CASE ~(e > -Timeout)
    BY <1>1, <1>3, SessionConstants DEF EntryOk
  <1> QED
    BY Zenon, <1>2, <1>3

\* A validation one tick later.
LEMMA ClockTick ==
  ASSUME NEW a \in Nat, NEW b \in Nat, NEW d \in {0, 1}, NEW o, NEW k, ClockOk(o, k, a, d),
         d = 0 => a = 0 /\ b = 0,
         a <= b /\ b <= a + 1, d = 1 => b = a + 1 \/ b > MaxAge,
         o.pc # "idle" => o.hold < Timeout
  PROVE  ClockOk(IF o.pc # "idle" THEN [o EXCEPT !.hold = @ + 1] ELSE o,
                 IF o.pc \in checking THEN [k EXCEPT !.ago = @ + 1] ELSE k, b, d)
  <1>1. CASE o.pc \in checking
    <2> DEFINE n == [o EXCEPT !.hold = @ + 1]
               m == [k EXCEPT !.ago = @ + 1]
    <2>1. o.pc # "idle"
      BY Zenon, <1>1 DEF checking
    <2>2. IsCall(n) /\ n.pc = o.pc /\ n.hold = o.hold + 1
      BY Zenon DEF ClockOk, IsCall
    <2>3. IsClock(m) /\ m.ago = k.ago + 1 /\ m.revoked = k.revoked
      BY Zenon DEF ClockOk, IsClock
    <2>4. k.ago \in Nat /\ k.revoked \in Int /\ m.ago \in Nat /\ m.revoked \in Int
      BY <2>3 DEF ClockOk
    <2>5. d = 0 => m.revoked = -1
      BY Zenon, <1>1, <2>3 DEF ClockOk
    <2>6. ASSUME o.pc = "load"
          PROVE  /\ n.hold = m.ago /\ m.ago <= Timeout
                 /\ m.revoked = -1 \/ m.revoked + m.ago <= b \/ b > MaxAge
      <3>1. /\ o.hold = k.ago /\ k.ago < Timeout
            /\ k.revoked = -1 \/ k.revoked + k.ago <= a \/ a > MaxAge
        BY Zenon, <2>1, <2>6 DEF ClockOk
      <3>2. n.hold = m.ago /\ m.ago <= Timeout
        BY <2>2, <2>3, <2>4, <3>1, SessionConstants
      <3>3. CASE d = 0
        BY Zenon, <2>5, <3>2, <3>3
      <3>4. CASE d = 1 /\ b > MaxAge
        BY Zenon, <3>2, <3>4
      <3>5. CASE d = 1 /\ b = a + 1
        BY <2>3, <2>4, <3>1, <3>2, <3>5, SessionConstants
      <3> QED
        BY Zenon, <3>3, <3>4, <3>5
    <2>7. o.pc = "store" => m.revoked = -1 /\ b <= m.ago
      BY <2>3, <2>4 DEF ClockOk
    <2>8. ClockOk(n, m, b, d)
      BY Zenon, <2>2, <2>3, <2>4, <2>5, <2>6, <2>7 DEF ClockOk
    <2> QED
      BY Zenon, <1>1, <2>1, <2>8
  <1>2. CASE o.pc \notin checking /\ o.pc # "idle"
    <2> DEFINE n == [o EXCEPT !.hold = @ + 1]
    <2>1. IsCall(n) /\ n.pc = o.pc
      BY Zenon DEF ClockOk, IsCall
    <2>2. ClockOk(n, k, b, d)
      BY Zenon, <1>2, <2>1 DEF ClockOk, checking
    <2> QED
      BY Zenon, <1>2, <2>2
  <1>3. CASE o.pc = "idle"
    BY Zenon, <1>3 DEF ClockOk, checking
  <1> QED
    BY Zenon, <1>1, <1>2, <1>3

\* A tick of the sessions.
LEMMA SessionTickKeeps ==
  ASSUME SessionInv, SessionTick
  PROVE  SessionInv' /\ conf' = conf
  <1> USE DEF SessionInv
  <1>1. UNCHANGED <<conf, db, latest>>
    BY Zenon DEF SessionTick, Tick
  <1>2. age' = [v \in Values |-> IF v < db /\ age[v] <= MaxAge THEN age[v] + 1 ELSE age[v]]
    BY Zenon DEF SessionTick, Tick
  <1>3. age'[0] = IF 0 < db /\ age[0] <= MaxAge THEN age[0] + 1 ELSE age[0]
    BY Zenon, <1>2, CacheConstants
  <1>4. age[0] \in Nat /\ db \in {0, 1} /\ (db = 0 => age[0] = 0)
    BY Zenon DEF RevokedInv
  <1>5. /\ age'[0] \in Nat /\ age[0] <= age'[0] /\ age'[0] <= age[0] + 1
        /\ db = 0 => age[0] = 0 /\ age'[0] = 0
        /\ db = 1 => age'[0] = age[0] + 1 \/ age'[0] > MaxAge
    BY <1>3, <1>4, SessionConstants
  <1>6. RevokedInv'
    BY Zenon, <1>1, <1>2, <1>5, <1>4, CacheConstants DEF RevokedInv
  <1>7. ActiveInv'
    <2>1. activeCache' = [p \in Pods |-> IF activeCache[p] > -Timeout THEN activeCache[p] - 1
                                                                     ELSE activeCache[p]]
      BY Zenon DEF SessionTick
    <2>2. ASSUME NEW p \in Pods PROVE EntryOk(activeCache'[p], age'[0])
      <3>1. EntryOk(activeCache[p], age[0])
        BY Zenon DEF ActiveInv
      <3>2. activeCache'[p] = IF activeCache[p] > -Timeout THEN activeCache[p] - 1 ELSE activeCache[p]
        BY Zenon, <2>1
      <3> QED
        BY <3>1, <3>2, <1>4, <1>5, ActiveTick
    <2> QED
      BY Zenon, <2>1, <2>2 DEF ActiveInv
  <1>8. ClientsInv'
    <2>1. /\ op' = [c \in Clients |-> IF op[c].pc # "idle" THEN [op[c] EXCEPT !.hold = @ + 1]
                                                           ELSE op[c]]
          /\ clock' = [c \in Clients |-> IF op[c].pc \in checking
                         THEN [clock[c] EXCEPT !.ago = @ + 1] ELSE clock[c]]
          /\ \A c \in Clients : op[c].pc # "idle" => op[c].hold < Timeout
      BY Zenon DEF SessionTick, Tick
    <2>2. ASSUME NEW c \in Clients PROVE ClockOk(op'[c], clock'[c], age'[0], db)
      <3>1. ClockOk(op[c], clock[c], age[0], db)
        BY Zenon DEF ClientsInv
      <3>2. /\ op'[c] = IF op[c].pc # "idle" THEN [op[c] EXCEPT !.hold = @ + 1] ELSE op[c]
            /\ clock'[c] = IF op[c].pc \in checking THEN [clock[c] EXCEPT !.ago = @ + 1] ELSE clock[c]
        BY Zenon, <2>1
      <3>3. ClockOk(IF op[c].pc # "idle" THEN [op[c] EXCEPT !.hold = @ + 1] ELSE op[c],
                    IF op[c].pc \in checking THEN [clock[c] EXCEPT !.ago = @ + 1] ELSE clock[c],
                    age'[0], db)
        BY ZenonT(60), <3>1, <2>1, <1>4, <1>5, ClockTick
      <3> QED
        BY Zenon, <3>2, <3>3
    <2> QED
      BY Zenon, <2>1, <2>2, <1>1 DEF ClientsInv
  <1> QED
    BY Zenon, <1>1, <1>6, <1>7, <1>8 DEF LatestInv

\* The sessions' invariant holds at the start.
LEMMA RevocationInit == SessionsInit => RevocationInv
  <1> SUFFICES ASSUME SessionsInit PROVE RevocationInv
    BY Zenon
  <1>1. RevokedInv /\ age[0] = 0 /\ db = 0
    BY Zenon, CacheConstants DEF SessionsInit, Init, RevokedInv
  <1>2. EntryOk(Absent, age[0]) /\ LatestInv
    BY SessionConstants DEF EntryOk, LatestInv, SessionsInit
  <1>3. ActiveInv
    BY Zenon, <1>2 DEF SessionsInit, ActiveInv
  <1>4. ClockOk(Idle, NotRead, age[0], db)
    BY NoClock
  <1>5. ClientsInv
    BY Zenon, <1>4 DEF SessionsInit, Init, ClientsInv
  <1> QED
    BY Zenon, <1>1, <1>2, <1>3, <1>5 DEF SessionsInit, Init, SessionInv, RevocationInv

\* Every step keeps it.
LEMMA RevocationStep ==
  ASSUME sessionActiveCacheTTL + Timeout <= MaxAge + 1
  PROVE  RevocationInv /\ [CacheNext]_<<vars, sessionVars>> => RevocationInv'
  <1> SUFFICES ASSUME RevocationInv, [CacheNext]_<<vars, sessionVars>> PROVE RevocationInv'
    BY Zenon
  <1>1. CASE UNCHANGED <<vars, sessionVars>>
    BY Zenon, <1>1 DEF vars, sessionVars, RevocationInv, SessionInv, RevokedInv, ClientsInv, ActiveInv, LatestInv
  <1>2. CASE conf.use = "query" /\ Next /\ UNCHANGED sessionVars
    <2>1. conf' = conf
      BY Zenon, <1>2 DEF Next, Get, Command, ClientStep, Promote, Handle, SetRemote, SetLocal, EvictLocal,
                  EvictRemote, PodStep, RedisGet, FlightReturns, Invalidate, Crash, Tick
    <2> QED
      BY Zenon, <1>2, <2>1 DEF RevocationInv, sessionVars
  <1>3. CASE conf.use = "session" /\ SessionNext
    <2>1. SessionInv' /\ conf' = conf
      BY Zenon, <1>3, ValidationKeeps, SessionPodKeeps, SessionTickKeeps DEF SessionNext, RevocationInv
    <2> QED
      BY Zenon, <1>3, <2>1 DEF RevocationInv
  <1> QED
    BY Zenon, <1>1, <1>2, <1>3 DEF CacheNext

\* JWTService.checkSessionRevocation with its active cache, over any cache that
\* may lose, keep or fail to store the blacklist's entries: a revoked session is
\* accepted only by validations that read the clock less than
\* sessionActiveCacheTTL after the revocation.  The condition says that the
\* model's ages count far enough to tell.
THEOREM RevocationIsSeenAlways ==
  ASSUME sessionActiveCacheTTL + Timeout <= MaxAge + 1
  PROVE  CacheSpec => []RevocationIsSeen
  <1>1. RevocationInv /\ [CacheNext]_<<vars, sessionVars>> => RevocationInv'
    BY Zenon, RevocationStep
  <1>2. RevocationInv => RevocationIsSeen
    BY SessionConstants DEF RevocationInv, RevocationIsSeen, SessionInv, LatestInv
  <1> QED
    BY <1>1, <1>2, RevocationInit, PTL DEF CacheSpec
=============================================================================
