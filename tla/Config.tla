------------------------------- MODULE Config -------------------------------
(***************************************************************************)
(* config.Load and Config.Validate, and what bootstrap.New makes of the    *)
(* result.  Settings are a function from the keys of the YAML file to      *)
(* values; only the keys that something here looks at are kept.  Durations *)
(* are in tenths of a second, the sample rate in tenths.  A JWT secret is  *)
(* its length, whether it is on the block list, and whether "${" is in it. *)
(***************************************************************************)
EXTENDS Integers, Sequences, TLC

Seconds(n) == 10 * n
Hours(n)   == 36000 * n
NoSecret   == [len |-> 0, weak |-> FALSE, placeholder |-> FALSE]

-----------------------------------------------------------------------------
\* The defaults.

setAppDefaults ==
  "app.name" :> "wolf-prime" @@ "app.env" :> "development" @@ "app.debug" :> FALSE
  @@ "app.shutdown_timeout" :> Seconds(15) @@ "modules" :> {}

setHTTPDefaults ==
  "http.port" :> 8080 @@ "http.read_timeout" :> Seconds(10)
  @@ "http.write_timeout" :> Seconds(15) @@ "http.idle_timeout" :> Seconds(120)
  @@ "http.max_header_bytes" :> 1048576
  @@ "http.cors.allowed_origins" :> {"http://localhost:3000"}
  @@ "http.cors.allow_credentials" :> TRUE @@ "http.cors.max_age" :> 86400

setGRPCDefaults ==
  "grpc.port" :> 9090 @@ "grpc.max_recv_msg_size" :> 4194304
  @@ "grpc.max_send_msg_size" :> 4194304
  @@ "grpc.keepalive_time" :> Seconds(30) @@ "grpc.keepalive_timeout" :> Seconds(10)

setDBDefaults ==
  "db.write.dsn" :> "" @@ "db.read.dsn" :> ""
  @@ "db.write.max_open_conns" :> 25 @@ "db.write.max_idle_conns" :> 10
  @@ "db.read.max_open_conns" :> 50 @@ "db.read.max_idle_conns" :> 25
  @@ "db.write.conn_max_lifetime" :> Seconds(300) @@ "db.write.conn_max_idle_time" :> Seconds(60)
  @@ "db.read.conn_max_lifetime" :> Seconds(300) @@ "db.read.conn_max_idle_time" :> Seconds(60)

setRedisDefaults ==
  "redis.addr" :> "localhost:6379" @@ "redis.db" :> 0 @@ "redis.pool_size" :> 20
  @@ "redis.read_timeout" :> Seconds(3) @@ "redis.write_timeout" :> Seconds(3)
  @@ "redis.dial_timeout" :> Seconds(5)

setCacheDefaults == "cache.driver" :> "redis"

setBrokerDefaults ==
  "broker.driver" :> "inprocess" @@ "nats.url" :> "nats://localhost:4222"
  @@ "nats.stream" :> "wolf" @@ "nats.subjects" :> {"wolf.>"}

setObservabilityDefaults ==
  "log.level" :> "debug" @@ "log.format" :> "json" @@ "otel.enabled" :> FALSE
  @@ "otel.exporter" :> "otlp" @@ "otel.endpoint" :> "localhost:4317"
  @@ "otel.sample_rate" :> 10 @@ "otel.insecure" :> TRUE
  @@ "metrics.enabled" :> TRUE @@ "metrics.port" :> 9091

setResilienceDefaults ==
  "cb.max_requests" :> 5 @@ "cb.interval" :> Seconds(10) @@ "cb.timeout" :> Seconds(30)
  @@ "rate_limit.rps" :> 1000 @@ "rate_limit.burst" :> 2000
  @@ "load_shed.max_concurrent" :> 5000 @@ "security_headers.enabled" :> TRUE
  @@ "security_headers.hsts" :> TRUE @@ "security_headers.hsts_max_age" :> 31536000

setOutboxDefaults ==
  "outbox.poll_interval" :> 5 @@ "outbox.batch_size" :> 100 @@ "outbox.max_retries" :> 5
  @@ "outbox.retention" :> Hours(72) @@ "outbox.poll_timeout" :> Seconds(30)
  @@ "outbox.health_threshold" :> Seconds(60) @@ "outbox.notify_enabled" :> FALSE

setAuthDefaults ==
  "jwt.signing_method" :> "HS256" @@ "jwt.secret_key" :> NoSecret
  @@ "jwt.access_token_ttl" :> Seconds(900) @@ "jwt.refresh_token_ttl" :> Hours(168)
  @@ "jwt.issuer" :> "wolf-prime" @@ "jwt.audience" :> {"wolf-prime-api"} @@ "bcrypt.cost" :> 12

setDefaults ==
  setAppDefaults @@ setHTTPDefaults @@ setGRPCDefaults @@ setDBDefaults @@ setRedisDefaults
  @@ setCacheDefaults @@ setBrokerDefaults @@ setObservabilityDefaults
  @@ setResilienceDefaults @@ setOutboxDefaults @@ setAuthDefaults

\* Fields of Config without a default keep Go's zero value.  A nil Enabled
\* is the string "nil".
zero ==
  "http.trusted_proxies" :> {} @@ "grpc.enabled" :> "nil"
  @@ "jwt.private_key_path" :> "" @@ "jwt.public_key_path" :> ""

-----------------------------------------------------------------------------
\* Validate: the keys that an error is about.

Key(wrong, key)     == IF wrong THEN {key} ELSE {}
Empty(c, keys)      == {k \in keys : c[k] = ""}
NotPositive(c, keys) == {k \in keys : c[k] <= 0}
Negative(c, keys)   == {k \in keys : c[k] < 0}
validatePort(c, key) == Key(c[key] < 1 \/ c[key] > 65535, key)

validateApp(c) ==
  Empty(c, {"app.name"})
  \cup Key(c["app.env"] \notin {"development", "staging", "production"}, "app.env")
  \cup Key(c["app.debug"] /\ c["app.env"] = "production", "app.debug")
  \cup Key(c["app.shutdown_timeout"] >= Seconds(30), "app.shutdown_timeout")

validateCORS(c) ==
  Key(c["http.cors.allow_credentials"] /\ "*" \in c["http.cors.allowed_origins"],
      "http.cors.allow_credentials")
  \cup Negative(c, {"http.cors.max_age"})

validateHTTP(c) ==
  validatePort(c, "http.port")
  \cup NotPositive(c, {"http.read_timeout", "http.write_timeout", "http.idle_timeout",
                       "http.max_header_bytes"})
  \cup validateCORS(c)

validateGRPC(c) ==
  validatePort(c, "grpc.port")
  \cup Key(c["grpc.port"] # 0 /\ c["grpc.port"] = c["http.port"], "grpc.port")
  \cup NotPositive(c, {"grpc.max_recv_msg_size", "grpc.max_send_msg_size",
                       "grpc.keepalive_time", "grpc.keepalive_timeout"})

validatePool(c, dsn, open, idle, times) ==
  Empty(c, {dsn}) \cup NotPositive(c, {open, idle} \cup times) \cup Key(c[idle] > c[open], idle)

validateDB(c) ==
  validatePool(c, "db.write.dsn", "db.write.max_open_conns", "db.write.max_idle_conns",
               {"db.write.conn_max_lifetime", "db.write.conn_max_idle_time"})
  \cup
  validatePool(c, "db.read.dsn", "db.read.max_open_conns", "db.read.max_idle_conns",
               {"db.read.conn_max_lifetime", "db.read.conn_max_idle_time"})

validateRedis(c) ==
  CASE c["cache.driver"] = "noop"  -> {}
    [] c["cache.driver"] = "redis" ->
         Empty(c, {"redis.addr"}) \cup Negative(c, {"redis.db"})
         \cup NotPositive(c, {"redis.pool_size", "redis.dial_timeout", "redis.read_timeout",
                              "redis.write_timeout"})
    [] OTHER -> {"cache.driver"}

validateBroker(c) ==
  Key(c["broker.driver"] \in {"", "kafka", "rabbitmq"}, "broker.driver")
  \cup IF c["broker.driver"] # "nats" THEN {}
       ELSE Empty(c, {"nats.url", "nats.stream"}) \cup Key(c["nats.subjects"] = {}, "nats.subjects")

validateLog(c) ==
  Key(c["log.level"] \notin {"debug", "info", "warn", "error"}, "log.level")
  \cup Key(c["log.format"] \notin {"json", "console"}, "log.format")

validateOtel(c) ==
  IF ~c["otel.enabled"] THEN {}
  ELSE Empty(c, {"otel.exporter", "otel.endpoint"})
       \cup Key(c["otel.sample_rate"] \notin 0..10, "otel.sample_rate")

\* Mutant of validateMetrics: the gRPC port is forgotten.
validateMetrics_NoGRPC(c) ==
  IF ~c["metrics.enabled"] THEN {}
  ELSE validatePort(c, "metrics.port")
       \cup Key(c["metrics.port"] = c["http.port"], "metrics.port")

validateMetrics(c) ==
  IF ~c["metrics.enabled"] THEN {}
  ELSE validatePort(c, "metrics.port")
       \cup Key(c["metrics.port"] \in {c["http.port"], c["grpc.port"]}, "metrics.port")

validateCB(c) == NotPositive(c, {"cb.max_requests", "cb.interval", "cb.timeout"})

validateRateLimit(c) ==
  IF c["rate_limit.rps"] = 0 THEN {}
  ELSE Negative(c, {"rate_limit.rps"}) \cup NotPositive(c, {"rate_limit.burst"})

validateLoadShed(c) == Negative(c, {"load_shed.max_concurrent"})

validateSecurityHeaders(c) ==
  Key(/\ c["security_headers.enabled"] /\ c["security_headers.hsts"]
      /\ c["security_headers.hsts_max_age"] < 0, "security_headers.hsts_max_age")

validateOutbox(c) ==
  NotPositive(c, {"outbox.poll_interval", "outbox.batch_size", "outbox.max_retries",
                  "outbox.retention"})
  \cup Negative(c, {"outbox.poll_timeout", "outbox.health_threshold"})

validateJWT(c) ==
  Key(c["jwt.secret_key"].placeholder, "jwt.secret_key")
  \cup (CASE c["jwt.signing_method"] = "HS256" ->
              Key(c["jwt.secret_key"].len < 32, "jwt.secret_key")
          [] c["jwt.signing_method"] = "RS256" ->
              Empty(c, {"jwt.private_key_path", "jwt.public_key_path"})
          [] OTHER -> {"jwt.signing_method"})
  \cup Key(c["jwt.access_token_ttl"] \notin Seconds(60)..Hours(1), "jwt.access_token_ttl")
  \cup Key(c["jwt.refresh_token_ttl"] \notin Hours(1)..Hours(2160), "jwt.refresh_token_ttl")
  \cup Empty(c, {"jwt.issuer"})
  \cup Key(\A a \in c["jwt.audience"] : c["jwt.audience"] # {a}, "jwt.audience")

validateBcrypt(c) == Key(c["bcrypt.cost"] \notin 10..14, "bcrypt.cost")

validateProductionSafety(c) ==
  Key(c["broker.driver"] = "inprocess", "broker.driver")
  \cup Key(c["cache.driver"] \in {"noop", ""}, "cache.driver")
  \cup Key(c["otel.insecure"], "otel.insecure")
  \cup Key(c["jwt.secret_key"].weak, "jwt.secret_key")
  \cup Key(c["rate_limit.rps"] > 0 /\ c["http.trusted_proxies"] = {}, "http.trusted_proxies")

Validate(c) ==
  validateApp(c) \cup validateHTTP(c) \cup validateGRPC(c) \cup validateDB(c)
  \cup validateRedis(c) \cup validateBroker(c) \cup validateLog(c) \cup validateOtel(c)
  \cup validateMetrics(c) \cup validateCB(c) \cup validateRateLimit(c) \cup validateLoadShed(c)
  \cup validateSecurityHeaders(c) \cup validateOutbox(c) \cup validateJWT(c) \cup validateBcrypt(c)
  \cup (IF c["app.env"] = "production" THEN validateProductionSafety(c) ELSE {})

-----------------------------------------------------------------------------
\* Load.  viper takes a key from the environment, else from the file, else
\* from the defaults, and asks the environment only for keys that the file or
\* the defaults have.

Merged(file, env) ==
  LET known == setDefaults @@ file.vals
      asked == {k \in DOMAIN env.vals : k \in DOMAIN known} IN
  [k \in asked |-> env.vals[k]] @@ file.vals @@ setDefaults @@ zero

\* A file that is not there is no error; one that cannot be read or parsed
\* is, and so is a value that does not decode.
LoadFails(file, env) ==
  \/ file.status = "unreadable" \/ env.malformed # {}
  \/ Validate(Merged(file, env)) # {}

\* The rest of New.

GRPCEnabled(c)      == c["grpc.enabled"] # "false"
ModuleEnabled(c, m) == m \notin c["modules"]

NewBus(c)    == c["broker.driver"] \in {"inprocess", "nats", "kafka", "rabbitmq"}
NewStream(c) == c["broker.driver"] \in {"inprocess", "nats"}

NewJWTService(c, readable) ==
  /\ \E a \in c["jwt.audience"] : c["jwt.audience"] = {a}
  /\ \/ c["jwt.signing_method"] = "HS256"
     \/ /\ c["jwt.signing_method"] = "RS256"
        /\ {c["jwt.private_key_path"], c["jwt.public_key_path"]} \subseteq readable

\* The steps of New that fail whatever the rest of the world does.
Rejects(file, env, readable) ==
  LET c == Merged(file, env) IN
  Key(LoadFails(file, env), "config")
  \cup Key(~NewJWTService(c, readable), "jwt")
  \cup Key(~NewBus(c), "event-bus") \cup Key(~NewStream(c), "stream")

\* What the context-watcher gives the servers to stop.
stopTimeout(c) == IF c["app.shutdown_timeout"] = 0 THEN Seconds(30) ELSE c["app.shutdown_timeout"]
=============================================================================
