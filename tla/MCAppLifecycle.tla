--------------------------- MODULE MCAppLifecycle ---------------------------
EXTENDS Startup

\* What three modules may declare: a chain listed backwards, a diamond's
\* half, a duplicate entry, a cycle, a self-dependency, a missing module.
Graphs == {
  [a |-> <<>>, b |-> <<>>, c |-> <<>>],
  [a |-> <<"b">>, b |-> <<"c">>, c |-> <<>>],
  [a |-> <<"b", "c">>, b |-> <<>>, c |-> <<>>],
  [a |-> <<"c", "c">>, b |-> <<"c">>, c |-> <<>>],
  [a |-> <<"b">>, b |-> <<"a">>, c |-> <<>>],
  [a |-> <<>>, b |-> <<"b">>, c |-> <<"a">>] }

MCModules == {"a", "b", "c"}
Independent == [a |-> <<>>, b |-> <<>>, c |-> <<>>]

\* The least a file has to say, and the settings of a production deployment.
Strong == [len |-> 32, weak |-> FALSE, placeholder |-> FALSE]
Base == "db.write.dsn" :> "dsn" @@ "db.read.dsn" :> "dsn" @@ "jwt.secret_key" :> Strong
Production ==
  "app.env" :> "production" @@ "broker.driver" :> "nats" @@ "otel.insecure" :> FALSE
  @@ "http.trusted_proxies" :> {"10.0.0.0/8"}
Small == "metrics.enabled" :> FALSE @@ "grpc.enabled" :> "false"
Large == "otel.enabled" :> TRUE @@ "outbox.notify_enabled" :> TRUE
RSA   == "jwt.signing_method" :> "RS256" @@ "jwt.private_key_path" :> "private.pem"
         @@ "jwt.public_key_path" :> "public.pem"

File(vals) == [status |-> "ok", vals |-> vals]
Env(vals)  == [vals |-> vals, malformed |-> {}]
Nothing    == Env([k \in {} |-> 0])
KeyFiles   == {"private.pem", "public.pem"}

WithModules(graph, manifest, vals) ==
  Deployment(graph, manifest, File(vals @@ Base), Nothing, KeyFiles)
Configured(file, env) == Deployment(Independent, <<>>, file, env, {"private.pem"})

\* Every setting that Validate looks at, wrong on its own.
Wrong ==
  {k :> -1 : k \in {"http.port", "http.read_timeout", "http.write_timeout", "http.idle_timeout",
     "http.max_header_bytes", "http.cors.max_age", "grpc.port", "grpc.max_recv_msg_size",
     "grpc.max_send_msg_size", "grpc.keepalive_time", "grpc.keepalive_timeout",
     "db.write.max_open_conns", "db.write.max_idle_conns", "db.read.conn_max_lifetime",
     "db.read.conn_max_idle_time", "redis.db", "redis.pool_size", "redis.dial_timeout",
     "cb.max_requests", "cb.interval", "cb.timeout", "rate_limit.rps", "rate_limit.burst",
     "load_shed.max_concurrent", "security_headers.hsts_max_age", "outbox.poll_interval",
     "outbox.batch_size", "outbox.max_retries", "outbox.retention", "outbox.poll_timeout",
     "outbox.health_threshold", "jwt.access_token_ttl", "jwt.refresh_token_ttl", "bcrypt.cost"}}
  \cup {k :> "" : k \in {"app.name", "app.env", "cache.driver", "redis.addr", "broker.driver",
          "log.level", "log.format", "jwt.signing_method", "jwt.issuer"}}
  \cup {"http.port" :> 65536, "app.shutdown_timeout" :> Seconds(30),
        "db.write.max_idle_conns" :> 26, "broker.driver" :> "kafka",
        "http.cors.allowed_origins" :> {"*"}, "jwt.audience" :> {}, "jwt.audience" :> {"a", "b"},
        "broker.driver" :> "nats" @@ "nats.subjects" :> {},
        "otel.enabled" :> TRUE @@ "otel.sample_rate" :> 11,
        "jwt.secret_key" :> [Strong EXCEPT !.len = 31],
        "jwt.secret_key" :> [Strong EXCEPT !.placeholder = TRUE]}
  \cup {o @@ Production : o \in {"app.debug" :> TRUE, "broker.driver" :> "inprocess",
          "cache.driver" :> "noop", "otel.insecure" :> TRUE, "http.trusted_proxies" :> {},
          "jwt.secret_key" :> [Strong EXCEPT !.weak = TRUE]}}

\* Ports given by the environment, which may collide with each other; a key
\* that the environment cannot give; drivers and key files that are not there.
Environments ==
  {p :> n : p \in {"http.port", "grpc.port", "metrics.port"}, n \in {8080, 9090, 9091}}
  \cup {"http.port" :> 9091 @@ "metrics.enabled" :> FALSE, "app.shutdown_timeout" :> 0}

LoadConfigs ==
  {Configured(File(o @@ Base), Nothing) : o \in Wrong}
  \cup {Configured(File(Small @@ Base), Env(e)) : e \in Environments}
  \cup {Configured(File(Base), Env(e)) : e \in {f \in Environments : DOMAIN f = {"grpc.port"}
                                                 \/ DOMAIN f = {"metrics.port"}}}
  \cup {Configured(File(Small @@ Production @@ Base), Nothing),
        Configured(File([k \in DOMAIN Production \ {"http.trusted_proxies"} |-> Production[k]] @@ Base),
                   Env("http.trusted_proxies" :> {"10.0.0.0/8"})),
        Configured([status |-> "absent", vals |-> [k \in {} |-> 0]], Nothing),
        Configured([status |-> "absent", vals |-> [k \in {} |-> 0]], Env("metrics.enabled" :> FALSE @@ Base)),
        Configured([status |-> "unreadable", vals |-> [k \in {} |-> 0]], Env(Base)),
        Configured(File(Base), [Nothing EXCEPT !.malformed = {"http.port"}]),
        Configured(File("broker.driver" :> "sqs" @@ Base), Nothing),
        Configured(File(RSA @@ Base), Nothing),
        Configured(File("cache.driver" :> "noop" @@ "rate_limit.rps" :> 0 @@ Small @@ Base), Nothing)}

MCConfigs ==
  {WithModules(g, <<"a", "b", "c">>, Small) : g \in Graphs}
    \cup {WithModules(g, <<"a", "b", "c">>, "modules" :> {"c"} @@ Small) : g \in Graphs}
    \cup {WithModules(Independent, <<"a", "a">>, Small), WithModules(Independent, <<"a">>, Large),
          WithModules(Independent, <<"a">>, RSA @@ Small)}
    \cup LoadConfigs

OneConfig == {WithModules(Independent, <<"a">>, Large)}

\* A file that sets no time to stop in, for which the code takes its default.
ZeroConfig == {WithModules(Independent, <<>>, "app.shutdown_timeout" :> 0 @@ Small)}
=============================================================================
