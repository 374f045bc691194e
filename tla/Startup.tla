------------------------------ MODULE Startup ------------------------------
(***************************************************************************)
(* bootstrap.App started from a configuration: config.Load is the first    *)
(* step of New, and what it returns decides which steps follow, which of   *)
(* them fail, which modules are enabled and which servers Run starts.      *)
(***************************************************************************)
EXTENDS AppLifecycle, Config

\* The settings that Run and Shutdown look at later.
Kept == {"http.port", "grpc.port", "metrics.port", "app.shutdown_timeout"}

\* What New and RegisterModules take from the settings.  readable are the key
\* files that exist.
Deployment(graph, manifest, file, env, readable) ==
  LET c == Merged(file, env) IN
  [dependsOn |-> graph, manifest |-> manifest,
   enabled |-> {m \in Modules : ModuleEnabled(c, m)},
   tracing |-> c["otel.enabled"], metrics |-> c["metrics.enabled"],
   grpc |-> GRPCEnabled(c), notify |-> c["outbox.notify_enabled"],
   limiter |-> c["rate_limit.rps"] > 0,
   rejects |-> Rejects(file, env, readable),
   settings |-> [k \in Kept |-> c[k]]]

port(s) == conf.settings[CASE s = "http" -> "http.port" [] s = "grpc" -> "grpc.port"
                           [] s = "metrics" -> "metrics.port"]

listening == {s \in Servers : go[s] = "serving"}

\* However defaults, file and environment combine, no two servers that Run has
\* started share a port: validateGRPC and validateMetrics compare the ports between
\* them, the latter only when there is a metrics server.
PortsAreDistinct == \A s, t \in listening : s # t => port(s) # port(t)

\* defaultK8sGracePeriod: "shutdown_timeout must be strictly less than this to
\* avoid SIGKILL during drain."  The servers get less than that to stop.
StopsInGrace == phase = "run" => stopTimeout(conf.settings) < Seconds(30)
=============================================================================
