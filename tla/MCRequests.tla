----------------------------- MODULE MCRequests -----------------------------
EXTENDS Requests, TLC

Carries(token, user, roles, perms) ==
  [token |-> token, user |-> user, roles |-> roles, perms |-> perms, preflight |-> FALSE]

\* Every answer of the token validator, a plain user and an administrator.
Callers ==
  {Carries(t, "u", {}, {}) : t \in {"missing", "malformed", "forbidden"}}
  \cup {Carries("valid", "u", {}, {"read"}),
        Carries("valid", "v", {"admin"}, {"read", "write"})}

Plain == {Carries("missing", "u", {}, {})}
Preflight == {[c EXCEPT !.preflight = TRUE] : c \in Plain}

Rule(kind, roles, perms) == [kind |-> kind, roles |-> roles, perms |-> perms, owner |-> "u"]
Unlisted == Rule("unlisted", {}, {})

Http(limit, route, rule, callers, parallel) ==
  [proto |-> "http", securityHeaders |-> limit = 0, maxConcurrent |-> limit,
   timeout |-> limit > 0, perIP |-> limit = 0, route |-> route, public |-> FALSE,
   rule |-> rule, credentials |-> callers, parallel |-> parallel]

Grpc(route, public, rule, callers, parallel) ==
  [proto |-> "grpc", securityHeaders |-> FALSE, maxConcurrent |-> 0, timeout |-> FALSE,
   perIP |-> FALSE, route |-> route, public |-> public, rule |-> rule,
   credentials |-> callers, parallel |-> parallel]

Rules == {Rule("roles", {"admin"}, {}), Rule("permissions", {}, {"read", "write"}),
          Rule("self", {}, {}), Rule("rolesOrSelf", {"admin"}, {})}

MCConfigs ==
  {Http(1, <<"tx", "handler">>, Unlisted, Plain, 2),
   Http(1, <<"tx", "errors", "handler">>, Unlisted, Plain, 2),
   Http(1, <<"async">>, Unlisted, Plain \cup Preflight, 2),
   Http(0, <<"ready">>, Unlisted, Plain, 2),
   Grpc(<<"tx", "handler">>, TRUE, Unlisted, Plain, 2)}

\* One request at a time is enough for the access rules, which share nothing (parallel).
AccessConfigs ==
  {Http(0, <<"apiKey", "handler">>, Unlisted, Callers, 1)}
  \cup {Http(0, <<"auth", "rbac", "handler">>, rule, Callers, 1) : rule \in Rules}
  \cup {Grpc(<<"auth", "rbac", "handler">>, public, rule, Callers, 1) :
          public \in BOOLEAN,
          rule \in {Unlisted, Rule("method", {"admin"}, {"read", "write"}),
                    Rule("method", {}, {"read"})}}

AllConfigs == MCConfigs \cup AccessConfigs
MCErrors == {"NOT_FOUND", "UNAVAILABLE"}
MCSymmetry == Permutations(Requests)
=============================================================================
