------------------------------- MODULE Limits -------------------------------
(***************************************************************************)
(* What stands between a caller and a call: the rate limiting strategies   *)
(* (and PerIPRateLimiter), Bulkhead, and ResilientHTTPClient, which is     *)
(* WithRetry around a circuit breaker.  conf.guard names the one in use.   *)
(*                                                                         *)
(* Time is a clock of whole ticks.  rate.Limiter and gobreaker are         *)
(* libraries, modelled from how this code configures and calls them.       *)
(***************************************************************************)
EXTENDS Integers, Sequences, FiniteSets, FiniteSetsExt

CONSTANTS
  Callers,
  Keys,
  Configs,
  MaxTime,    \* bound: ticks of the clock
  MaxCalls,   \* bound: calls started in one behaviour
  MaxFaults   \* bound: failing calls and cancelled contexts

VARIABLES
  conf,
  now,
  calls,      \* calls started
  faults,
  at,         \* caller -> where it is, and what it holds
  windows,    \* FixedWindow.entries: key -> counter
  stamps,     \* SlidingWindow.timestamps: key -> times
  entries,    \* TokenBucket.entries / PerIPRateLimiter.clients: key -> entry
  limiters,   \* every rate.Limiter ever made, the ones out of the map included
  grants,     \* history: the requests allowed
  removed,    \* history: key -> entries removed from the map
  breaker,    \* gobreaker.CircuitBreaker
  ended       \* history: how the calls of ResilientHTTPClient ended

limitVars  == <<windows, stamps, entries, limiters, grants, removed>>
clientVars == <<breaker, ended>>
vars == <<conf, now, calls, faults, at, limitVars, clientVars>>

None  == 0
Fault == faults > 0 /\ faults' = faults - 1
idle  == [pc |-> "idle", key |-> None, id |-> None, seen |-> 0, tries |-> 0,
          live |-> TRUE, gen |-> 0, failed |-> 0]
Goes(c, rec)  == at' = [at EXCEPT ![c] = rec]
guard(g)      == conf.guard = g

Init ==
  /\ conf \in Configs
  /\ now = 0 /\ calls = 0
  /\ faults = MaxFaults
  /\ at = [c \in Callers |-> idle]
  /\ windows = [k \in Keys |-> <<>>]
  /\ stamps  = [k \in Keys |-> <<>>]
  /\ entries = [k \in Keys |-> <<>>]
  /\ limiters = <<>> /\ grants = <<>>
  /\ removed = [k \in Keys |-> 0]
  /\ breaker = [state |-> "closed", gen |-> 0, requests |-> 0, failures |-> 0,
                successes |-> 0, expiry |-> conf.interval]
  /\ ended = {}

Tick ==
  /\ now < MaxTime
  /\ now' = now + 1
  /\ UNCHANGED <<conf, calls, faults, at, limitVars, clientVars>>

---------------------------------------------------------------------------
\* Rate limiting.

Grant(k, id) == grants' = Append(grants, [key |-> k, at |-> now, id |-> id])

FixedWindow(k) ==
  LET w == windows[k] IN
  IF w = <<>> \/ now > w[1].start + conf.window
  THEN windows' = [windows EXCEPT ![k] = <<[count |-> 1, start |-> now]>>] /\ Grant(k, None)
  ELSE IF w[1].count >= conf.rate THEN UNCHANGED <<windows, grants>>
  ELSE windows' = [windows EXCEPT ![k][1].count = @ + 1] /\ Grant(k, None)

pruneTimestamps(ts, cutoff) == SelectSeq(ts, LAMBDA t : t > cutoff)

SlidingWindow(k) ==
  LET pruned == pruneTimestamps(stamps[k], now - conf.window) IN
  IF Len(pruned) >= conf.rate
  THEN stamps' = [stamps EXCEPT ![k] = pruned] /\ UNCHANGED grants
  ELSE stamps' = [stamps EXCEPT ![k] = Append(pruned, now)] /\ Grant(k, None)

\* Strategy.Allow of the two strategies that hold their mutex throughout.
AllowWindow(c) ==
  /\ guard("fixed_window") \/ guard("sliding_window")
  /\ calls < MaxCalls /\ calls' = calls + 1
  /\ \E k \in Keys :
       \/ guard("fixed_window") /\ FixedWindow(k) /\ UNCHANGED stamps
       \/ guard("sliding_window") /\ SlidingWindow(k) /\ UNCHANGED windows
  /\ UNCHANGED <<conf, now, faults, at, entries, limiters, removed, clientVars>>

\* getLimiter: the look under the read lock.
Lookup(c) ==
  /\ guard("token_bucket")
  /\ at[c].pc = "idle" /\ calls < MaxCalls /\ calls' = calls + 1
  /\ \E k \in Keys :
       Goes(c, [at[c] EXCEPT !.pc = IF entries[k] = <<>> THEN "make" ELSE "touch",
                             !.key = k, !.seen = now,
                             !.id = IF entries[k] = <<>> THEN None ELSE entries[k][1].id])
  /\ UNCHANGED <<conf, now, faults, limitVars, clientVars>>

\* An entry found is marked as seen under the write lock, in the map or not.
Touch(c) ==
  LET k == at[c].key IN
  /\ at[c].pc = "touch"
  /\ entries' = IF entries[k] # <<>> /\ entries[k][1].id = at[c].id
                THEN [entries EXCEPT ![k][1].seen = at[c].seen] ELSE entries
  /\ Goes(c, [at[c] EXCEPT !.pc = "allow"])
  /\ UNCHANGED <<conf, now, calls, faults, windows, stamps, limiters, grants, removed, clientVars>>

present == {k \in Keys : entries[k] # <<>>}
full == conf.maxClients > 0 /\ Cardinality(present) >= conf.maxClients

\* evictOne removes an arbitrary entry.
Insert(k, seen) ==
  \E gone \in (IF full THEN {{x} : x \in present} ELSE {{}}) :
    /\ limiters' = Append(limiters, [key |-> k, tokens |-> conf.burst, last |-> now])
    /\ entries' = [x \in Keys |->
                     IF x = k THEN <<[id |-> Len(limiters) + 1, seen |-> seen]>>
                     ELSE IF x \in gone THEN <<>> ELSE entries[x]]
    /\ removed' = [x \in Keys |-> removed[x] + IF x \in gone THEN 1 ELSE 0]

\* Mutant of Make: the map is not looked at again under the write lock.
Make_NoDoubleCheck(c) ==
  /\ at[c].pc = "make"
  /\ Insert(at[c].key, at[c].seen)
  /\ Goes(c, [at[c] EXCEPT !.pc = "allow", !.id = Len(limiters) + 1])
  /\ UNCHANGED <<conf, now, calls, faults, windows, stamps, grants, clientVars>>

\* The double check under the write lock, then a new limiter.
Make(c) ==
  LET k == at[c].key IN
  /\ at[c].pc = "make"
  /\ IF entries[k] # <<>>
     THEN /\ entries' = [entries EXCEPT ![k][1].seen = at[c].seen]
          /\ Goes(c, [at[c] EXCEPT !.pc = "allow", !.id = entries[k][1].id])
          /\ UNCHANGED <<limiters, removed>>
     ELSE /\ Insert(k, at[c].seen)
          /\ Goes(c, [at[c] EXCEPT !.pc = "allow", !.id = Len(limiters) + 1])
  /\ UNCHANGED <<conf, now, calls, faults, windows, stamps, grants, clientVars>>

\* rate.Limiter.Allow: refill, then take a token if there is one.
Allow(c) ==
  LET id == at[c].id
      l  == limiters[id]
      t  == Min({conf.burst, l.tokens + (now - l.last) * conf.rate})
  IN /\ at[c].pc = "allow"
     /\ limiters' = [limiters EXCEPT ![id].tokens = IF t >= 1 THEN t - 1 ELSE t, ![id].last = now]
     /\ IF t >= 1 THEN Grant(at[c].key, id) ELSE UNCHANGED grants
     /\ Goes(c, idle)
     /\ UNCHANGED <<conf, now, calls, faults, windows, stamps, entries, removed, clientVars>>

\* removeStale, and the body of PerIPRateLimiter.cleanupLoop.
removeStale ==
  LET old == {k \in present : entries[k][1].seen < now - conf.stale} IN
  /\ guard("token_bucket") /\ old # {}
  /\ entries' = [k \in Keys |-> IF k \in old THEN <<>> ELSE entries[k]]
  /\ removed' = [k \in Keys |-> removed[k] + IF k \in old THEN 1 ELSE 0]
  /\ UNCHANGED <<conf, now, calls, faults, at, windows, stamps, limiters, grants, clientVars>>

---------------------------------------------------------------------------
\* Bulkhead.Execute: a slot, or the end of the context.

inside == {c \in Callers : at[c].pc = "running"}

Execute(c) ==
  /\ guard("bulkhead")
  /\ at[c].pc = "idle" /\ calls < MaxCalls /\ calls' = calls + 1
  /\ Goes(c, [at[c] EXCEPT !.pc = "waiting"])
  /\ UNCHANGED <<conf, now, faults, limitVars, clientVars>>

Enter(c) ==
  /\ at[c].pc = "waiting"
  /\ Cardinality(inside) < conf.maxConcurrent
  /\ Goes(c, [at[c] EXCEPT !.pc = "running"])
  /\ UNCHANGED <<conf, now, calls, faults, limitVars, clientVars>>

\* ErrBulkheadFull, or fn has returned and the slot is given back.
LeaveBulkhead(c) ==
  /\ at[c].pc = "running" \/ (at[c].pc = "waiting" /\ ~at[c].live)
  /\ Goes(c, idle)
  /\ UNCHANGED <<conf, now, calls, faults, limitVars, clientVars>>

Cancel(c) ==
  /\ at[c].pc \in {"waiting", "attempt", "upstream", "backoff"} /\ at[c].live
  /\ Fault
  /\ Goes(c, [at[c] EXCEPT !.live = FALSE])
  /\ UNCHANGED <<conf, now, calls, limitVars, clientVars>>

---------------------------------------------------------------------------
\* gobreaker, as configured by NewCircuitBreaker and NewResilientHTTPClient.

Generation(b, state) ==
  [state |-> state, gen |-> b.gen + 1, requests |-> 0, failures |-> 0, successes |-> 0,
   expiry |-> CASE state = "closed"   -> IF conf.interval = 0 THEN 0 ELSE now + conf.interval
                [] state = "open"     -> now + conf.timeout
                [] state = "halfopen" -> 0]

currentState(b) ==
  CASE b.state = "closed" /\ b.expiry # 0 /\ b.expiry < now -> Generation(b, "closed")
    [] b.state = "open" /\ b.expiry < now -> Generation(b, "halfopen")
    [] OTHER -> b

\* More than half of at least minRequests requests failed (1, or 5 for HTTP).
ReadyToTrip(b) == b.requests >= conf.minRequests /\ 2 * b.failures > b.requests

Refuses(b) == \/ b.state = "open"
              \/ b.state = "halfopen" /\ b.requests >= conf.maxRequests

Succeeds(b) ==
  LET n == [b EXCEPT !.successes = @ + 1] IN
  IF b.state = "halfopen" /\ n.successes >= conf.maxRequests
  THEN Generation(b, "closed") ELSE n

Fails(b) ==
  LET n == [b EXCEPT !.failures = @ + 1] IN
  IF b.state = "halfopen" \/ ReadyToTrip(n) THEN Generation(b, "open") ELSE n

\* A result that belongs to an earlier generation is dropped.
afterRequest(gen, ok) ==
  LET b == currentState(breaker) IN
  breaker' = IF b.gen # gen THEN b ELSE IF ok THEN Succeeds(b) ELSE Fails(b)

---------------------------------------------------------------------------
\* ResilientHTTPClient.Do.

Do(c) ==
  /\ guard("http_client")
  /\ at[c].pc = "idle" /\ calls < MaxCalls /\ calls' = calls + 1
  /\ Goes(c, [at[c] EXCEPT !.pc = "attempt"])
  /\ UNCHANGED <<conf, now, faults, limitVars, clientVars>>

Ends(c, how, failed) ==
  /\ ended' = ended \cup {[how |-> how, failed |-> failed, live |-> at[c].live]}
  /\ Goes(c, idle)

\* Mutant of AfterFailure: one attempt more.
AfterFailure_OneMore(c) ==
  IF at[c].tries > conf.maxRetries
  THEN Ends(c, "failed", at[c].failed + 1)
  ELSE Goes(c, [at[c] EXCEPT !.pc = "backoff", !.tries = @ + 1, !.failed = @ + 1])
       /\ UNCHANGED ended

\* fn returned an error: back off, unless this was the last attempt.
AfterFailure(c) ==
  IF at[c].tries = conf.maxRetries
  THEN Ends(c, "failed", at[c].failed + 1)
  ELSE Goes(c, [at[c] EXCEPT !.pc = "backoff", !.tries = @ + 1, !.failed = @ + 1])
       /\ UNCHANGED ended

\* The head of WithRetry's loop, and the breaker's answer to cb.Execute.
Attempt(c) ==
  LET b == currentState(breaker) IN
  /\ at[c].pc = "attempt"
  /\ IF ~at[c].live THEN Ends(c, "cancelled", at[c].failed) /\ UNCHANGED breaker
     ELSE IF Refuses(b) THEN breaker' = b /\ AfterFailure(c)
     ELSE /\ breaker' = [b EXCEPT !.requests = @ + 1]
          /\ Goes(c, [at[c] EXCEPT !.pc = "upstream", !.gen = b.gen])
          /\ UNCHANGED ended
  /\ UNCHANGED <<conf, now, calls, faults, limitVars>>

\* A response below 500; or an error, a 5xx response, an ended context.
Upstream(c) ==
  /\ at[c].pc = "upstream"
  /\ \/ at[c].live /\ afterRequest(at[c].gen, TRUE) /\ Ends(c, "ok", at[c].failed)
        /\ UNCHANGED faults
     \/ at[c].live /\ Fault /\ afterRequest(at[c].gen, FALSE) /\ AfterFailure(c)
     \/ ~at[c].live /\ afterRequest(at[c].gen, FALSE) /\ AfterFailure(c) /\ UNCHANGED faults
  /\ UNCHANGED <<conf, now, calls, limitVars>>

\* The back-off timer fires, or the context ends first.
Backoff(c) ==
  /\ at[c].pc = "backoff"
  /\ \/ Goes(c, [at[c] EXCEPT !.pc = "attempt"]) /\ UNCHANGED ended
     \/ ~at[c].live /\ Ends(c, "cancelled", at[c].failed)
  /\ UNCHANGED <<conf, now, calls, faults, limitVars, breaker>>

Next ==
  \/ Tick \/ removeStale
  \/ \E c \in Callers :
       \/ AllowWindow(c) \/ Lookup(c) \/ Touch(c) \/ Make(c) \/ Allow(c)
       \/ Execute(c) \/ Enter(c) \/ LeaveBulkhead(c) \/ Cancel(c)
       \/ Do(c) \/ Attempt(c) \/ Upstream(c) \/ Backoff(c)

Spec == Init /\ [][Next]_vars

---------------------------------------------------------------------------
GrantsIn(k, from, to) ==
  Cardinality({i \in DOMAIN grants : /\ grants[i].key = k
                                     /\ grants[i].at >= from /\ grants[i].at <= to})

\* The bound each strategy gives on what it lets through for one key, whatever
\* the callers interleave: rate in any window for SlidingWindow; twice that for
\* FixedWindow, across a boundary; burst and the refill of the time for a token
\* bucket, once more for every time its entry left the map.  PerIPRateLimiter's
\* map stays within its capacity.
RateHeld ==
  /\ \A k \in Keys, from \in 0..MaxTime, to \in 0..MaxTime : from <= to =>
       LET n == GrantsIn(k, from, to) IN
       CASE guard("sliding_window") -> to - from < conf.window => n <= conf.rate
         [] guard("fixed_window")   -> to - from < conf.window => n <= 2 * conf.rate
         [] guard("token_bucket")   ->
              n <= (1 + removed[k]) * (conf.burst + (to - from) * conf.rate)
         [] OTHER -> TRUE
  /\ conf.maxClients > 0 => Cardinality(present) <= conf.maxClients

\* ReadyToTrip's comment: it "prevents tripping on a single initial failure in a
\* quiet window".  A breaker that trips has seen a second request.
QuietFailureIsHarmless ==
  [][breaker.state = "closed" /\ breaker'.state = "open" => breaker.requests > 1]_vars

\* ResilientHTTPClient's comment: "sustained failures trip the circuit breaker and
\* fail fast".  A call that the breaker refuses does not wait for another attempt.
RefusedFailsFast ==
  [][\A c \in Callers : at[c].pc = "attempt" => at'[c].pc # "backoff"]_vars

\* WithRetry makes at most maxRetries + 1 attempts, gives up with an error only
\* after that many or a cancelled context, and Bulkhead runs no more functions
\* at a time than it has slots.
CallsAreBounded ==
  /\ \A e \in ended :
       CASE e.how = "ok"        -> e.failed <= conf.maxRetries
         [] e.how = "failed"    -> e.failed = conf.maxRetries + 1
         [] e.how = "cancelled" -> e.failed <= conf.maxRetries /\ ~e.live
  /\ Cardinality(inside) <= conf.maxConcurrent
=============================================================================
