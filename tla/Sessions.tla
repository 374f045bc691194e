------------------------------ MODULE Sessions ------------------------------
(***************************************************************************)
(* The second user of the cache: JWTService keeps revoked sessions in a    *)
(* blacklist over the same cache client (bootstrap wires RedisBlacklist    *)
(* over L1, singleflight and Redis), with the database behind it and an    *)
(* in-process cache of sessions found active in front of the database.     *)
(*                                                                         *)
(* There is one session and one pair of tokens.  db = 1 says that the      *)
(* session is revoked, age[0] counts the ticks since then, and the cached  *)
(* key is the session's: an entry, whatever its value, means revoked.  The *)
(* key of the token itself is never written here and always misses.        *)
(***************************************************************************)
EXTENDS Caching

CONSTANTS
  AccessTokenTTL, RefreshTokenTTL,
  Leeway,                  \* of the parser, past a token's expiry
  sessionActiveCacheTTL

ASSUME SessionsAssumption ==
  /\ {AccessTokenTTL, RefreshTokenTTL, sessionActiveCacheTTL} \subseteq Nat \ {0}
  /\ Leeway \in Nat
  /\ \A c \in Configs : c.use \in {"query", "session"} /\ c.checker \in BOOLEAN

VARIABLES
  activeCache,  \* of each pod: the ticks until the entry's expiry, or Absent
  clock,        \* of each client: how long ago it read the clock, and how
                \* long the session had then been revoked (-1: it was not)
  elapsed,      \* ticks since the tokens were issued
  latest        \* history: the longest a session had been revoked when a
                \* validation that accepts it read the clock

sessionVars == <<activeCache, clock, elapsed, latest>>

Absent   == -Timeout - 1
NotRead  == [ago |-> 0, revoked |-> -1]
checking == {"load", "forget", "query", "store"}

\* The pair shares a session; its tokens differ in type and time to live.
GenerateTokenPair ==
  [access  |-> [type |-> "access",  ttl |-> AccessTokenTTL],
   refresh |-> [type |-> "refresh", ttl |-> RefreshTokenTTL]]

Remaining(t) == GenerateTokenPair[t].ttl - elapsed
parse(t)     == Remaining(t) + Leeway > 0

SessionsInit ==
  /\ Init
  /\ conf.use = "session" => redis = None
  /\ activeCache = [p \in Pods |-> Absent]
  /\ clock = [c \in Clients |-> NotRead]
  /\ elapsed = 0
  /\ latest = -1

\* A validation returns; Accepts is the one way it returns claims.
Ends(c)    == Returns(c) /\ clock' = [clock EXCEPT ![c] = NotRead]
Accepts(c) == /\ Ends(c)
              /\ latest' = IF clock[c].revoked > latest THEN clock[c].revoked ELSE latest

\* ResilientBlacklist.IsBlacklisted: a hit refuses the token; a miss, an error
\* of the call and an open breaker all say not blacklisted.
IsBlacklisted(c) ==
  \/ conf.redis /\ Get(c)
  \/ /\ conf.redis /\ Fault
     /\ Goes(c, "handle", 0, TRUE)
     /\ UNCHANGED <<conf, db, age, redis, local, flight, history>>

\* NoopBlacklist.IsBlacklisted.
NeverBlacklisted(c) ==
  /\ ~conf.redis
  /\ Goes(c, "handle", 0, TRUE)
  /\ UNCHANGED <<conf, db, age, redis, local, flight, history, faults>>

\* A token that does not parse, and a refresh token, are turned away at once.
ValidateAccessToken(c, t) ==
  /\ op[c].pc = "idle"
  /\ parse(t) /\ GenerateTokenPair[t].type = "access"
  /\ IsBlacklisted(c) \/ NeverBlacklisted(c)
  /\ UNCHANGED sessionVars

\* checkSessionRevocation after the blacklist: the clock is read first.
ReadClock(c) ==
  /\ op[c].pc = "handle"
  /\ IF conf.checker
     THEN /\ Goes(c, "load", 0, TRUE)
          /\ clock' = [clock EXCEPT ![c] = [ago |-> 0,
                         revoked |-> IF db = 0 THEN -1 ELSE age[0]]]
     ELSE Ends(c)
  /\ UNCHANGED <<conf, db, age, redis, local, flight, history, faults,
                 activeCache, elapsed, latest>>

\* An entry that has not expired at the time read accepts the token.
Load(c) ==
  LET left == activeCache[PodOf[c]] IN
  /\ op[c].pc = "load"
  /\ IF left # Absent /\ left + clock[c].ago > 0
     THEN Accepts(c)
     ELSE /\ Goes(c, IF left = Absent THEN "query" ELSE "forget", 0, TRUE)
          /\ UNCHANGED <<clock, latest>>
  /\ UNCHANGED <<conf, db, age, redis, local, flight, history, faults,
                 activeCache, elapsed>>

\* activeCache.Delete of an expired entry, or of the one that replaced it.
Forget(c) ==
  /\ op[c].pc = "forget"
  /\ activeCache' = [activeCache EXCEPT ![PodOf[c]] = Absent]
  /\ Goes(c, "query", 0, TRUE)
  /\ UNCHANGED <<conf, db, age, redis, local, flight, history, faults,
                 clock, elapsed, latest>>

\* The module's checker reads the database; its error refuses the token.
IsSessionRevoked(c) ==
  /\ op[c].pc = "query"
  /\ \/ Goes(c, IF db = 0 THEN "store" ELSE "backfill", 0, TRUE) /\ UNCHANGED <<faults, clock>>
     \/ Fault /\ Ends(c)
  /\ UNCHANGED <<conf, db, age, redis, local, flight, history,
                 activeCache, elapsed, latest>>

\* Mutant of Store: the expiry is counted from the time of the answer.
Store_Later(c) ==
  /\ op[c].pc = "store"
  /\ activeCache' = [activeCache EXCEPT ![PodOf[c]] = sessionActiveCacheTTL]
  /\ Accepts(c)
  /\ UNCHANGED <<conf, db, age, redis, local, flight, history, faults, elapsed>>

\* activeCache.Store, with an expiry counted from the time read before.
Store(c) ==
  /\ op[c].pc = "store"
  /\ activeCache' = [activeCache EXCEPT ![PodOf[c]] = sessionActiveCacheTTL - clock[c].ago]
  /\ Accepts(c)
  /\ UNCHANGED <<conf, db, age, redis, local, flight, history, faults, elapsed>>

\* The module commits the revocation, and calls RevokeSession.
Revoke(c) ==
  /\ op[c].pc = "idle"
  /\ db = 0
  /\ db' = 1
  /\ writer' = PodOf[c]
  /\ Goes(c, "revoke", 0, TRUE)
  /\ UNCHANGED <<conf, age, redis, local, flight, raced, faults, sessionVars>>

\* RevokeSession: this pod forgets that the session was active.
RevokeSession(c) ==
  /\ op[c].pc = "revoke"
  /\ activeCache' = [activeCache EXCEPT ![PodOf[c]] = Absent]
  /\ Goes(c, "blacklist", 0, TRUE)
  /\ UNCHANGED <<conf, db, age, redis, local, flight, history, faults,
                 clock, elapsed, latest>>

\* Blacklist, for RevokeSession until the time its caller gives, and for the
\* backfill until the token expires.  Past that time nothing is written, nor
\* by NoopBlacklist; an error ends RevokeSession and is ignored by the backfill.
Blacklist(c) ==
  /\ op[c].pc \in {"blacklist", "backfill"}
  /\ \E t \in IF op[c].pc = "backfill" THEN {"access"} ELSE DOMAIN GenerateTokenPair :
       \/ /\ conf.redis /\ Remaining(t) > 0
          /\ redis' = [val |-> db, left |-> Remaining(t), ok |-> TRUE]
          /\ Goes(c, "add", db, TRUE)
          /\ UNCHANGED faults
       \/ /\ ~conf.redis \/ Remaining(t) <= 0
          /\ Returns(c)
          /\ UNCHANGED <<redis, faults>>
       \/ conf.redis /\ Fault /\ Returns(c) /\ UNCHANGED redis
  /\ clock' = [clock EXCEPT ![c] = NotRead]
  /\ UNCHANGED <<conf, db, age, local, flight, history, activeCache, elapsed, latest>>

\* A restart empties the active cache with the rest of the pod's memory.
Restart(p) ==
  /\ Crash(p)
  /\ activeCache' = [activeCache EXCEPT ![p] = Absent]
  /\ clock' = [c \in Clients |-> IF PodOf[c] = p THEN NotRead ELSE clock[c]]
  /\ UNCHANGED <<elapsed, latest>>

\* Time passes; counters stop where nothing depends on them any more.
SessionTick ==
  /\ Tick
  /\ activeCache' = [p \in Pods |-> IF activeCache[p] > -Timeout THEN activeCache[p] - 1
                                                                ELSE activeCache[p]]
  /\ clock' = [c \in Clients |-> IF op[c].pc \in checking
                 THEN [clock[c] EXCEPT !.ago = @ + 1] ELSE clock[c]]
  /\ elapsed' = IF elapsed < RefreshTokenTTL + Leeway THEN elapsed + 1 ELSE elapsed
  /\ UNCHANGED latest

SessionNext ==
  \/ \E c \in Clients :
       \/ \E t \in DOMAIN GenerateTokenPair : ValidateAccessToken(c, t)
       \/ ReadClock(c) \/ Load(c) \/ Forget(c) \/ IsSessionRevoked(c) \/ Store(c)
       \/ Revoke(c) \/ RevokeSession(c) \/ Blacklist(c)
       \/ (Promote(c) \/ SetLocal(c)) /\ UNCHANGED sessionVars
  \/ \E p \in Pods :
       \/ (PodStep(p) \/ Invalidate(p)) /\ UNCHANGED sessionVars
       \/ Restart(p)
  \/ SessionTick

CacheNext ==
  \/ conf.use = "query" /\ Next /\ UNCHANGED sessionVars
  \/ conf.use = "session" /\ SessionNext

CacheSpec == SessionsInit /\ [][CacheNext]_<<vars, sessionVars>>

-----------------------------------------------------------------------------

\* The comment on sessionActiveCacheTTL: a revocation "is detected within this
\* TTL".  With a session checker a validation accepts a revoked session only if
\* it read the clock less than sessionActiveCacheTTL after the revocation,
\* whether the blacklist lost the entry, failed or was never written, and
\* whatever other validation crossed the revocation.
RevocationIsSeen == conf.checker => latest < sessionActiveCacheTTL
=============================================================================
