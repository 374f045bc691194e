------------------------------ MODULE Requests ------------------------------
(***************************************************************************)
(* The way of a request through the middleware: BuildChain (HTTP) or       *)
(* BuildInterceptors (gRPC), then what the route adds (authentication,     *)
(* access rule, transaction, error handler), then the handler.             *)
(*                                                                         *)
(* A request is a cursor on that chain.  dir "down" is about to run the    *)
(* middleware at pos, "up" returns into it, "panic" unwinds through it.    *)
(* Middleware of different requests interleave; they share the load        *)
(* shedder, the in-flight gauge and the DI container.                      *)
(***************************************************************************)
EXTENDS Integers, Sequences, FiniteSets

CONSTANTS
  Requests,
  Configs,    \* protocol, chain and route of the server, and what clients send
  Errors,     \* error codes a handler may answer with
  MaxFaults   \* bound: calls that fail, contexts that end, panics

VARIABLES
  conf,       \* one of Configs, which never changes
  chain,      \* the middleware of the server, which never changes either
  req,        \* the state of each request
  inflight,   \* LoadShedder.inflight
  gauge,      \* HTTPRequestsInFlight
  factory,    \* root container: whose transaction the "db.conn" factory returns
  singleton,  \* root container: the once-initialised singleton
  published,  \* history: requests whose command the broker holds
  faults

vars == <<conf, chain, req, inflight, gauge, factory, singleton, published, faults>>

None  == "none"
Fault == faults > 0 /\ faults' = faults - 1
http  == conf.proto = "http"

BuildChain(deps) ==
     <<"recovery">>
  \o (IF deps.securityHeaders THEN <<"securityHeaders">> ELSE <<>>)
  \o <<"requestID", "tracing", "logging", "metrics">>
  \o (IF deps.maxConcurrent > 0 THEN <<"loadShed">> ELSE <<>>)
  \o (IF deps.timeout THEN <<"timeout">> ELSE <<>>)
  \o <<"cors">>
  \o (IF deps.perIP THEN <<"rateLimit">> ELSE <<>>)

BuildInterceptors == <<"recovery", "tracing", "logging", "metrics", "errors">>

fresh ==
  [pos |-> 0, dir |-> "new", cred |-> None, claims |-> FALSE,
   status |-> IF http THEN 200 ELSE 0, sent |-> FALSE, err |-> None,
   scope |-> None, tx |-> None, live |-> TRUE, rid |-> FALSE,
   logged |-> <<>>, at |-> "start", wrote |-> FALSE, ran |-> FALSE]

Init ==
  /\ conf \in Configs
  /\ chain = (IF http THEN BuildChain(conf) ELSE BuildInterceptors) \o conf.route
  /\ req = [r \in Requests |-> fresh]
  /\ inflight = 0 /\ gauge = 0
  /\ factory = None
  /\ singleton = "absent"
  /\ published = {}
  /\ faults = MaxFaults

---------------------------------------------------------------------------
\* Moving along the chain.

At(r, name, dir) ==
  /\ req[r].pos \in DOMAIN chain
  /\ chain[req[r].pos] = name
  /\ req[r].dir = dir

Onward(q)  == [q EXCEPT !.pos = @ + 1]
Return(q)  == [q EXCEPT !.pos = @ - 1, !.dir = "up"]
Panic(q)   == [q EXCEPT !.pos = @ - 1, !.dir = "panic"]
Becomes(r, q) == req' = [req EXCEPT ![r] = q]
Resume(q)  == IF q.dir = "down" THEN Onward(q) ELSE [q EXCEPT !.pos = @ - 1]

\* A response whose header is out keeps its status.
Write(q, status) == [q EXCEPT !.status = IF q.sent THEN @ ELSE status, !.sent = TRUE]

AbortWithError(q, status) == Return(Write(q, status))
AbortUnauthorized(q)      == AbortWithError(q, 401)
AbortForbidden(q)         == AbortWithError(q, 403)
AbortTooManyRequests(q)   == AbortWithError(q, 429)
AbortInternalError(q)     == AbortWithError(q, 500)

\* An interceptor returns status.Error(code, ...).
StatusError(q, code) == Return([q EXCEPT !.status = code, !.err = None])

\* The tables of HandleError, of httputil and of the gRPC error mapper.
mapError(err) ==
  CASE err = "NOT_FOUND"    -> 404 [] err = "CONFLICT"   -> 409
    [] err = "VALIDATION"   -> 400 [] err = "FORBIDDEN"  -> 403
    [] err = "UNAUTHORIZED" -> 401 [] err = "RATE_LIMITED" -> 429
    [] err = "UNAVAILABLE"  -> 503 [] err = "TIMEOUT"    -> 504
    [] OTHER -> 500

CodeToStatus(err) == mapError(err)

mapGRPCError(err) ==
  CASE err = "NOT_FOUND"    -> 5  [] err = "CONFLICT"   -> 6
    [] err = "VALIDATION"   -> 3  [] err = "FORBIDDEN"  -> 7
    [] err = "UNAUTHORIZED" -> 16 [] err = "RATE_LIMITED" -> 8
    [] OTHER -> 13

Failed(q) == IF http THEN q.status >= 500 ELSE q.status # 0 \/ q.err # None

---------------------------------------------------------------------------
\* Access rules.

HasAnyRole(c, roles)        == c.roles \cap roles # {}
HasPermission(c, perm)      == perm \in c.perms

RequireRoles(c)       == HasAnyRole(c, conf.rule.roles)

RequirePermissions(c) == \A p \in conf.rule.perms : HasPermission(c, p)
RequireSelf(c)        == c.user = conf.rule.owner \/ "admin" \in c.roles
RequireRolesOrSelf(c) == HasAnyRole(c, conf.rule.roles) \/ c.user = conf.rule.owner
RBACRule(c) == /\ conf.rule.roles = {} \/ RequireRoles(c)
               /\ RequirePermissions(c)

Allowed(c) ==
  CASE conf.rule.kind = "roles"       -> RequireRoles(c)
    [] conf.rule.kind = "permissions" -> RequirePermissions(c)
    [] conf.rule.kind = "self"        -> RequireSelf(c)
    [] conf.rule.kind = "rolesOrSelf" -> RequireRolesOrSelf(c)

---------------------------------------------------------------------------
\* Middleware that only looks at its request: a function of the request on the
\* way down, on the way up and in a panic.

Recovery(q)        == IF q.dir = "panic" THEN AbortInternalError(q) ELSE Resume(q)
SecurityHeaders(q) == Resume(q)
RequestID(q)       == [Resume(q) EXCEPT !.rid = TRUE]
Tracing(q)         == Resume(q)
Timeout(q)         == Resume(q)

\* The entry is made after Next returns; a panic skips it.
Logging(q) ==
  IF q.dir = "up" THEN [Resume(q) EXCEPT !.logged = <<q.status, q.rid>>] ELSE Resume(q)

\* gin-contrib/cors answers a preflight request itself.
CORS(q) ==
  IF q.dir = "down" /\ q.cred.preflight THEN AbortWithError(q, 204) ELSE Resume(q)

parseBearerToken(q) == q.cred.token \notin {"missing", "malformed"}
writeAuthError(q)   == IF q.cred.token = "forbidden" THEN AbortForbidden(q)
                                                     ELSE AbortUnauthorized(q)
Authenticated(q)    == [Resume(q) EXCEPT !.claims = TRUE]

Auth(q) ==
  IF q.dir # "down" THEN Resume(q)
  ELSE IF ~parseBearerToken(q) THEN AbortUnauthorized(q)
  ELSE IF q.cred.token = "valid" THEN Authenticated(q) ELSE writeAuthError(q)

\* The digest of the key is one of the stored ones, or not.
APIKey(q) ==
  IF q.dir = "down" /\ q.cred.token # "valid" THEN AbortUnauthorized(q) ELSE Resume(q)

RBAC(q) ==
  IF q.dir # "down" THEN Resume(q)
  ELSE IF ~q.claims THEN AbortUnauthorized(q)
  ELSE IF Allowed(q.cred) THEN Resume(q) ELSE AbortForbidden(q)

ErrorHandler(q) ==
  IF q.dir = "up" /\ q.err # None THEN AbortWithError(q, mapError(q.err)) ELSE Resume(q)

\* The same for gRPC.
RecoveryInterceptor(q) == IF q.dir = "panic" THEN StatusError(q, 13) ELSE Resume(q)
TracingInterceptor(q)  == Resume(q)
MetricsInterceptor(q)  == Resume(q)
LoggingInterceptor(q)  ==
  IF q.dir = "up" THEN [Resume(q) EXCEPT !.logged = <<q.status, q.rid>>] ELSE Resume(q)

ErrorMappingInterceptor(q) ==
  IF q.dir = "up" /\ q.err # None THEN StatusError(q, mapGRPCError(q.err)) ELSE Resume(q)

extractBearerToken(q) == q.cred.token \notin {"missing", "malformed"}
mapAuthError(q)       == StatusError(q, IF q.cred.token = "forbidden" THEN 7 ELSE 16)

AuthInterceptor(q) ==
  IF q.dir # "down" \/ conf.public THEN Resume(q)
  ELSE IF ~extractBearerToken(q) THEN StatusError(q, 16)
  ELSE IF q.cred.token = "valid" THEN Authenticated(q) ELSE mapAuthError(q)

RBACInterceptor(q) ==
  IF q.dir # "down" \/ conf.rule.kind = "unlisted" THEN Resume(q)
  ELSE IF ~q.claims THEN StatusError(q, 16)
  ELSE IF RBACRule(q.cred) THEN Resume(q) ELSE StatusError(q, 7)

HandlerFunc(name, q) ==
  CASE name = "recovery"        -> Recovery(q)
    [] name = "securityHeaders" -> SecurityHeaders(q)
    [] name = "requestID"       -> RequestID(q)
    [] name = "tracing"         -> Tracing(q)
    [] name = "logging"         -> Logging(q)
    [] name = "timeout"         -> Timeout(q)
    [] name = "cors"            -> CORS(q)
    [] name = "auth"            -> Auth(q)
    [] name = "apiKey"          -> APIKey(q)
    [] name = "rbac"            -> RBAC(q)
    [] name = "errors"          -> ErrorHandler(q)

UnaryInterceptor(name, q) ==
  CASE name = "recovery" -> RecoveryInterceptor(q)
    [] name = "tracing"  -> TracingInterceptor(q)
    [] name = "logging"  -> LoggingInterceptor(q)
    [] name = "metrics"  -> MetricsInterceptor(q)
    [] name = "errors"   -> ErrorMappingInterceptor(q)
    [] name = "auth"     -> AuthInterceptor(q)
    [] name = "rbac"     -> RBACInterceptor(q)

---------------------------------------------------------------------------
\* The steps of a request.

Arrive(r) ==
  /\ req[r].dir = "new"
  /\ Cardinality({s \in Requests : req[s].dir \in {"down", "up", "panic"}}) < conf.parallel
  /\ \E c \in conf.credentials :
       Becomes(r, [req[r] EXCEPT !.pos = 1, !.dir = "down", !.cred = c])
  /\ UNCHANGED <<conf, chain, inflight, gauge, factory, singleton, published, faults>>

\* The chain is unwound: net/http or grpc-go sends what is left to send.  A
\* panic that got here would be net/http's to handle, or end the process.
Leave(r) ==
  /\ req[r].pos = 0 /\ req[r].dir = "up"
  /\ Becomes(r, [req[r] EXCEPT !.dir = "done", !.sent = TRUE])
  /\ UNCHANGED <<conf, chain, inflight, gauge, factory, singleton, published, faults>>

Pure == {"recovery", "securityHeaders", "requestID", "tracing", "logging", "timeout", "cors",
         "auth", "apiKey", "rbac", "errors"} \cup (IF http THEN {} ELSE {"metrics"})

Pass(r) ==
  LET q == req[r] IN
  /\ q.pos \in DOMAIN chain /\ chain[q.pos] \in Pure
  /\ Becomes(r, IF http THEN HandlerFunc(chain[q.pos], q) ELSE UnaryInterceptor(chain[q.pos], q))
  /\ UNCHANGED <<conf, chain, inflight, gauge, factory, singleton, published, faults>>

\* Dec is not deferred: a panic leaves the gauge as it is.
Metrics(r) ==
  /\ http /\ \E d \in {"down", "up", "panic"} : At(r, "metrics", d)
  /\ Becomes(r, Resume(req[r]))
  /\ gauge' = CASE req[r].dir = "down"  -> gauge + 1
                [] req[r].dir = "up"    -> gauge - 1
                [] req[r].dir = "panic" -> gauge
  /\ UNCHANGED <<conf, chain, inflight, factory, singleton, published, faults>>

\* Mutant of LoadShedDone: the counter is lowered after Next, without defer.
LoadShedDone_NotDeferred(r) ==
  /\ \E d \in {"up", "panic"} : At(r, "loadShed", d)
  /\ inflight' = IF req[r].dir = "up" THEN inflight - 1 ELSE inflight
  /\ Becomes(r, Resume(req[r]))
  /\ UNCHANGED <<conf, chain, gauge, factory, singleton, published, faults>>

\* The deferred Add(-1), which a panic runs too.
LoadShedDone(r) ==
  /\ \E d \in {"up", "panic"} : At(r, "loadShed", d)
  /\ inflight' = inflight - 1
  /\ Becomes(r, Resume(req[r]))
  /\ UNCHANGED <<conf, chain, gauge, factory, singleton, published, faults>>

\* Add(1) decides; a request turned away is counted until LoadShedDone.
LoadShed(r) ==
  /\ At(r, "loadShed", "down")
  /\ inflight' = inflight + 1
  /\ Becomes(r, IF inflight' > conf.maxConcurrent
                THEN [Write(req[r], 503) EXCEPT !.dir = "up"] ELSE Onward(req[r]))
  /\ UNCHANGED <<conf, chain, gauge, factory, singleton, published, faults>>

\* Whether the client's bucket has a token is the limiter's business.
RateLimit(r) ==
  /\ \E d \in {"down", "up", "panic"} : At(r, "rateLimit", d)
  /\ \/ Becomes(r, Resume(req[r])) /\ UNCHANGED faults
     \/ /\ req[r].dir = "down" /\ Fault
        /\ Becomes(r, AbortTooManyRequests(req[r]))
  /\ UNCHANGED <<conf, chain, inflight, gauge, factory, singleton, published>>

\* Timeout's deadline passes, or the client goes away: database/sql rolls the
\* transaction back and refuses to commit it.
Cancel(r) ==
  /\ req[r].dir \in {"down", "up", "panic"} /\ req[r].live
  /\ Fault
  /\ Becomes(r, [req[r] EXCEPT !.live = FALSE,
                               !.tx = IF @ = "open" THEN "rolledback" ELSE @])
  /\ UNCHANGED <<conf, chain, inflight, gauge, factory, singleton, published>>

---------------------------------------------------------------------------
\* The transaction of a request.

RolledBack(q) == [q EXCEPT !.tx = IF @ = "open" THEN "rolledback" ELSE @]

\* A child container without values; what is registered through it goes to
\* the root container.
Scoped(q)    == [q EXCEPT !.scope = "empty"]
AddScoped(r) == factory' = r

BeginTx(r) ==
  LET q == Scoped(req[r]) IN
  /\ At(r, "tx", "down")
  /\ \/ q.live /\ Becomes(r, [Onward(q) EXCEPT !.tx = "open"])
        /\ AddScoped(r) /\ UNCHANGED faults
     \/ /\ Becomes(r, IF http THEN AbortInternalError(q) ELSE StatusError(q, 13))
        /\ \/ ~q.live /\ UNCHANGED faults
           \/ Fault
        /\ UNCHANGED factory
  /\ UNCHANGED <<conf, chain, inflight, gauge, singleton, published>>

\* Commit works, is refused (the transaction is over already), or fails and
\* nobody knows whether the database has it.
Committed(q, commit) ==
  [q EXCEPT !.tx = CASE commit = "ok"      -> "committed"
                     [] commit = "refused" -> @
                     [] commit = "unknown" -> "unknown"]

\* Mutant of TransactionMiddleware: the status is not looked at.
TransactionMiddleware_Always(q, commit) ==
  CASE q.dir = "panic" -> RolledBack(Resume(q))
    [] q.dir = "up"    -> IF commit = "ok" THEN Committed(Return(q), commit)
                          ELSE Committed(AbortInternalError(q), commit)

\* After Next: Rollback for a panic or a status of 500 and above, else Commit.
\* The error of a failed Commit comes too late for a reply that is out.
TransactionMiddleware(q, commit) ==
  CASE q.dir = "panic" -> RolledBack(Resume(q))
    [] q.dir = "up"    -> IF q.status >= 500 THEN RolledBack(Return(q))
                          ELSE IF commit = "ok" THEN Committed(Return(q), commit)
                          ELSE Committed(AbortInternalError(q), commit)

TransactionInterceptor(q, commit) ==
  CASE q.dir = "panic" -> RolledBack(Resume(q))
    [] q.dir = "up"    -> IF Failed(q) THEN RolledBack(Return(q))
                          ELSE IF commit = "ok" THEN Committed(Return(q), commit)
                          ELSE Committed(StatusError(q, 13), commit)

\* wrote: the reply was written before the transaction ended.
EndTx(r) ==
  LET q == [req[r] EXCEPT !.wrote = @ \/ req[r].sent] IN
  /\ \E d \in {"up", "panic"} : At(r, "tx", d)
  /\ \E commit \in {"ok", "refused", "unknown"} :
       /\ commit = "refused" <=> ~q.live
       /\ IF commit = "unknown" THEN Fault ELSE UNCHANGED faults
       /\ Becomes(r, IF http THEN TransactionMiddleware(q, commit)
                             ELSE TransactionInterceptor(q, commit))
  /\ UNCHANGED <<conf, chain, inflight, gauge, factory, singleton, published>>

---------------------------------------------------------------------------
\* Handlers: one that works in the request's transaction, one without,
\* AsyncCommand, and the readiness probe.

handling(r, name) == At(r, name, "down")

\* GetTyped of a singleton: one caller runs the factory inside Once.Do, the
\* others wait.  A factory that panics leaves a done Once and a nil value, on
\* which every later type assertion panics.
GetSingleton(r) ==
  LET q == req[r] IN
  /\ handling(r, "handler") /\ q.at = "start"
  /\ \/ q.scope = None /\ Becomes(r, [q EXCEPT !.at = "reply", !.ran = TRUE])
        /\ UNCHANGED <<singleton, faults>>
     \/ q.scope # None /\ singleton = "absent" /\ singleton' = r
        /\ Becomes(r, [q EXCEPT !.at = "factory", !.ran = TRUE]) /\ UNCHANGED faults
     \/ q.scope # None /\ singleton = "built"
        /\ Becomes(r, [q EXCEPT !.at = "repo", !.ran = TRUE]) /\ UNCHANGED <<singleton, faults>>
     \/ q.scope # None /\ singleton = "nil"
        /\ Becomes(r, [Panic(q) EXCEPT !.ran = TRUE]) /\ UNCHANGED <<singleton, faults>>
  /\ UNCHANGED <<conf, chain, inflight, gauge, factory, published>>

SingletonFactory(r) ==
  LET q == req[r] IN
  /\ handling(r, "handler") /\ q.at = "factory"
  /\ \/ singleton' = "built" /\ Becomes(r, [q EXCEPT !.at = "repo"]) /\ UNCHANGED faults
     \/ Fault /\ singleton' = "nil" /\ Becomes(r, Panic(q))
  /\ UNCHANGED <<conf, chain, inflight, gauge, factory, published>>

\* GetTyped[db.Conn]: the scope's value, made by the root's factory if absent.
GetConn(r) ==
  LET q == req[r] IN
  /\ handling(r, "handler") /\ q.at = "repo"
  /\ Becomes(r, [q EXCEPT !.at = "reply", !.scope = IF @ = "empty" THEN factory ELSE @])
  /\ UNCHANGED <<conf, chain, inflight, gauge, factory, singleton, published, faults>>

\* httputil's answers.  NoContent sets a status that is sent later.
OK(q)        == Write(q, 200)
Created(q)   == Write(q, 201)
NoContent(q) == [q EXCEPT !.status = IF q.sent THEN @ ELSE 204]
Error(q, e)  == Write(q, CodeToStatus(e))

\* What a handler may have written when it ends.
Replies(q) ==
  {q} \cup (IF ~http THEN {} ELSE {OK(q), Created(q), NoContent(q)} \cup {Error(q, e) : e \in Errors})

\* It returns, leaves an error to the error handler, or panics, and has written
\* its reply or has not.
Reply(r) ==
  LET q == req[r] IN
  /\ handling(r, "handler") /\ q.at = "reply"
  /\ \E p \in Replies(q) :
       \/ Becomes(r, Return(p)) /\ UNCHANGED faults
       \/ \E e \in Errors : Becomes(r, [Return(p) EXCEPT !.err = e]) /\ UNCHANGED faults
       \/ Fault /\ Becomes(r, Panic(p))
  /\ UNCHANGED <<conf, chain, inflight, gauge, factory, singleton, published>>

\* A body that does not bind or validate, a command published, or a Publish
\* that failed, of which the broker may still hold the message.
AsyncCommand(r) ==
  LET q == req[r] IN
  /\ handling(r, "async")
  /\ \/ Becomes(r, AbortWithError(q, 400)) /\ UNCHANGED <<published, faults>>
     \/ q.live /\ published' = published \cup {r} /\ Becomes(r, Return(Write(q, 202)))
        /\ UNCHANGED faults
     \/ Fault /\ published' \in {published, published \cup {r}} /\ Becomes(r, AbortInternalError(q))
     \/ ~q.live /\ Becomes(r, AbortInternalError(q)) /\ UNCHANGED <<published, faults>>
  /\ UNCHANGED <<conf, chain, inflight, gauge, factory, singleton>>

\* ReadinessChecker.Handler: every check is run under the deadline.
Ready(r) ==
  LET q == req[r] IN
  /\ handling(r, "ready")
  /\ \/ q.live /\ Becomes(r, Return(Write(q, 200))) /\ UNCHANGED faults
     \/ ~q.live /\ Becomes(r, Return(Write(q, 503))) /\ UNCHANGED faults
     \/ Fault /\ Becomes(r, Return(Write(q, 503)))
  /\ UNCHANGED <<conf, chain, inflight, gauge, factory, singleton, published>>

Next ==
  \E r \in Requests :
    \/ Arrive(r) \/ Leave(r) \/ Pass(r) \/ Metrics(r) \/ LoadShed(r) \/ LoadShedDone(r)
    \/ RateLimit(r) \/ Cancel(r) \/ BeginTx(r) \/ EndTx(r) \/ GetSingleton(r)
    \/ SingletonFactory(r) \/ GetConn(r) \/ Reply(r) \/ AsyncCommand(r) \/ Ready(r)

Spec == Init /\ [][Next]_vars

---------------------------------------------------------------------------
Done(r) == req[r].dir = "done"
Transactional == \E i \in DOMAIN conf.route : conf.route[i] = "tx"

\* A request counted by the load shedder: past its Add(1), before its Add(-1).
Counted(r) ==
  /\ req[r].dir \in {"down", "up", "panic"}
  /\ \E i \in DOMAIN chain :
       /\ chain[i] = "loadShed"
       /\ req[r].pos > i \/ (req[r].pos = i /\ req[r].dir # "down")

\* The client is told the truth about its transaction.  A handler that ran and
\* whose call is answered with success has its transaction committed, over gRPC
\* and where an HTTP handler leaves the reply to be sent after Commit; one that
\* is answered with a failure has not; an accepted command is with the broker; and
\* the request log has the status the client got, with the request's id over HTTP.
DurableReply ==
  \A r \in Requests : Done(r) =>
    LET q == req[r] IN
    /\ Transactional /\ q.ran /\ ~Failed(q) /\ ~(http /\ q.wrote) => q.tx = "committed"
    /\ Failed(q) => q.tx # "committed"
    /\ http /\ q.status = 202 => r \in published
    /\ q.logged # <<>> => q.logged = <<q.status, http>>

\* TransactionMiddleware's comment: "if the HTTP response status is < 500 the
\* transaction is committed".
StatusIsDurable ==
  \A r \in Requests : Done(r) /\ http /\ Transactional /\ req[r].ran =>
    (req[r].status < 500 => req[r].tx = "committed")

\* Whatever way a request leaves the chain, and panics above all, nothing of it
\* stays behind: the load shedder counts exactly the requests inside it, and at
\* most MaxConcurrent are below it however Add and the comparison of different
\* requests interleave; no finished request has an open transaction, and no panic
\* gets past Recovery.
NothingLeaks ==
  /\ inflight = Cardinality({r \in Requests : Counted(r)})
  /\ \A i \in DOMAIN chain : chain[i] = "loadShed" =>
       Cardinality({r \in Requests : req[r].pos > i}) <= conf.maxConcurrent
  /\ \A r \in Requests : Done(r) => req[r].tx # "open"
  /\ \A r \in Requests : req[r].pos = 0 => req[r].dir # "panic"

\* Metrics' comment: the gauge HTTPRequestsInFlight is "incremented before and
\* decremented after each request".
GaugeReturns == (\A r \in Requests : Done(r)) => gauge = 0

\* A handler works in the transaction its own request began.
OwnTransaction ==
  \A r \in Requests : req[r].scope \in Requests => req[r].scope = r
=============================================================================
