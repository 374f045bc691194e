---------------------------- MODULE AppLifecycle ----------------------------
(***************************************************************************)
(* bootstrap.App from New to Shutdown: resources are opened in order and   *)
(* closed again if a later one fails, modules are ordered, wired and       *)
(* started, Run's error group serves until its context is done, and        *)
(* Shutdown closes what is left by priority.                               *)
(*                                                                         *)
(* The goroutines of Run interleave freely.  Requests and the handlers of  *)
(* the in-process bus are what a premature close would hurt.               *)
(***************************************************************************)
EXTENDS ModuleOrder

CONSTANTS
  Configs,    \* what the configuration file and the manifest may say
  MaxActive,  \* bound: requests per server and bus handlers at a time
  MaxFaults   \* bound: failing calls in one behaviour

ASSUME LifecycleNumbers == MaxActive \in Nat \ {0} /\ MaxFaults \in Nat

ASSUME ConfigsAssumption ==
  \A c \in Configs : /\ c.dependsOn \in [Modules -> Seq(Modules)]
                     /\ c.manifest \in Seq(Modules)

VARIABLES
  conf,         \* the configuration, which never changes
  phase,        \* where the main goroutine is
  done,         \* steps of New, entries of the manifest, or modules
                \* wired or started, so far
  open,         \* resources that are open, oldest first
  go,           \* the goroutines of Run's error group
  down,         \* servers whose Stop was called
  active,       \* requests in progress on each server
  cancelled,    \* the context passed to Run is done
  groupErr,     \* a goroutine of the error group returned an error
  cause,        \* history: some module or server really failed
  stopExpired,  \* the context of the context-watcher's Stop calls is done
  handlers,     \* bus handlers in flight: the count of Bus.wg
  started,      \* modules whose OnStart returned nil
  closed,       \* closers of the ShutdownGroup that have returned
  gaveUp,       \* Bus.Close ran into its timeout
  limiter,      \* the clean-up goroutine of the per-IP rate limiter runs
  faults        \* calls that may still fail

run  == <<go, down, active, stopExpired>>
rest == <<handlers, closed, gaveUp, limiter>>
vars == <<orderVars, conf, phase, done, open, run, cancelled, groupErr, cause,
          rest, started, faults>>

Servers    == {"http", "metrics", "grpc"}
Goroutines == Servers \cup {"worker", "notifier", "watcher"}

Fault == faults > 0 /\ faults' = faults - 1

Init ==
  /\ OrderInit
  /\ conf \in Configs
  /\ dependsOn = conf.dependsOn
  /\ phase = "new"
  /\ done = 0
  /\ open = <<>>
  /\ go = [g \in Goroutines |-> "off"]
  /\ down = {}
  /\ active = [s \in Servers |-> 0]
  /\ cancelled = FALSE
  /\ groupErr = FALSE
  /\ cause = FALSE
  /\ stopExpired = FALSE
  /\ handlers = 0
  /\ started = {}
  /\ closed = {}
  /\ gaveUp = FALSE
  /\ limiter = FALSE
  /\ faults = MaxFaults

-----------------------------------------------------------------------------
\* New

\* The steps of New that can fail, in order.
NewSteps ==
  <<"config", "logger">> \o (IF conf.tracing THEN <<"tracer">> ELSE <<>>) \o
  <<"write-db", "read-db", "cache", "jwt", "event-bus", "stream">>

\* Mutant of Closers: nothing closes the read pool.
Closers_NoReadDB == {"tracer", "write-db", "cache", "event-bus", "stream"}

\* The steps that append to closers.
Closers == {"tracer", "write-db", "read-db", "cache", "event-bus", "stream"}

\* The steps that leave something open.  The rate limiter's goroutine, which
\* New starts after the last step that can fail, has no closer: see limiter.
Resources == {"tracer", "write-db", "read-db", "cache", "event-bus", "stream"}

\* Closers are told apart by their names.
ASSUME NamesAssumption == Modules \cap Resources = {}

\* s without its n-th element.
Without(s, n) == [i \in 1..(Len(s) - 1) |-> IF i < n THEN s[i] ELSE s[i + 1]]

\* The next step of New returns.  After the last one New builds the servers and
\* starts the rate limiter's goroutine.
NewStep ==
  /\ phase = "new"
  /\ NewSteps[done + 1] \notin conf.rejects
  /\ open' = IF NewSteps[done + 1] \in Resources
             THEN Append(open, NewSteps[done + 1]) ELSE open
  /\ IF done + 1 = Len(NewSteps)
     THEN phase' = "register" /\ done' = 0 /\ limiter' = conf.limiter
     ELSE phase' = "new" /\ done' = done + 1 /\ UNCHANGED limiter
  /\ UNCHANGED <<orderVars, conf, run, cancelled, groupErr, cause, handlers,
                 closed, gaveUp, started, faults>>

\* The next step fails, by accident or because the configuration makes it:
\* the deferred function closes what was opened.
NewFails ==
  /\ phase = "new"
  /\ \/ Fault
     \/ NewSteps[done + 1] \in conf.rejects /\ UNCHANGED faults
  /\ phase' = "unwind"
  /\ UNCHANGED <<orderVars, conf, done, open, run, cancelled, groupErr, cause,
                 rest, started>>

\* One iteration of the deferred loop, or its end.
Unwind ==
  LET left == {i \in DOMAIN open : open[i] \in Closers}
      last == CHOOSE i \in left : \A j \in left : j <= i
  IN /\ phase = "unwind"
     /\ IF left = {}
        THEN /\ phase' = "aborted"
             /\ UNCHANGED open
        ELSE /\ open' = Without(open, last)
             /\ UNCHANGED phase
     /\ UNCHANGED <<orderVars, conf, done, run, cancelled, groupErr, cause,
                    rest, started, faults>>

-----------------------------------------------------------------------------
\* RegisterModules

\* The next entry of the manifest: a disabled module is skipped, another
\* is created and registered.  done counts the entries.
RegisterModules ==
  /\ phase = "register"
  /\ done < Len(conf.manifest)
  /\ IF conf.manifest[done + 1] \in conf.enabled
     THEN Register(conf.manifest[done + 1])
     ELSE UNCHANGED orderVars
  /\ phase' = IF outcome' = "duplicate" THEN "refused" ELSE "register"
  /\ done' = done + 1
  /\ UNCHANGED <<conf, open, run, cancelled, groupErr, cause, rest, started,
                 faults>>

\* registry.Modules() computes the boot order.
OrderModules ==
  /\ phase = "register"
  /\ done = Len(conf.manifest)
  /\ BeginSort \/ SortNext \/ EndSort
  /\ phase' = CASE outcome' = "error" -> "refused"
                [] outcome' = "ok"    -> "wire"
                [] OTHER              -> "register"
  /\ done' = IF outcome' = "ok" THEN 0 ELSE done
  /\ UNCHANGED <<conf, open, run, cancelled, groupErr, cause, rest, started,
                 faults>>

\* RegisterModule of the next module: all of its registrations, then
\* the append to a.modules.  done = Len(sorted) ends the loop.
RegisterModule ==
  /\ phase = "wire"
  /\ done < Len(sorted)
  /\ \/ done' = done + 1 /\ UNCHANGED <<phase, faults>>
     \/ Fault /\ phase' = "refused" /\ UNCHANGED done
  /\ UNCHANGED <<orderVars, conf, open, run, cancelled, groupErr, cause, rest,
                 started>>

-----------------------------------------------------------------------------
\* Run

\* The caller calls Run.
CallRun ==
  /\ phase = "wire"
  /\ done = Len(sorted)
  /\ phase' = "start"
  /\ done' = 0
  /\ UNCHANGED <<orderVars, conf, open, run, cancelled, groupErr, cause, rest,
                 started, faults>>

\* Mutant of OnStart: modules start in the order of the manifest.
OnStart_ManifestOrder ==
  /\ phase = "start"
  /\ done < Len(sorted)
  /\ started' = started \cup {registered[done + 1]}
  /\ done' = done + 1
  /\ UNCHANGED <<orderVars, conf, phase, open, run, cancelled, groupErr, cause,
                 rest, faults>>

\* OnStart of the next module.  An error ends Run there and then.
OnStart ==
  /\ phase = "start"
  /\ done < Len(sorted)
  /\ \/ /\ started' = started \cup {sorted[done + 1]}
        /\ done' = done + 1
        /\ UNCHANGED <<phase, groupErr, cause, faults>>
     \/ /\ Fault
        /\ phase' = "returned"
        /\ groupErr' = TRUE
        /\ cause' = TRUE
        /\ UNCHANGED <<started, done>>
  /\ UNCHANGED <<orderVars, conf, open, run, cancelled, rest>>

\* The goroutines the configuration asks for.
Spawned ==
  {"http", "grpc", "worker", "watcher"}
    \cup (IF conf.metrics THEN {"metrics"} ELSE {})
    \cup (IF conf.notify THEN {"notifier"} ELSE {})

\* errgroup.WithContext and the g.Go calls.
SpawnAll ==
  /\ phase = "start"
  /\ done = Len(sorted)
  /\ phase' = "run"
  /\ go' = [g \in Goroutines |-> IF g \in Spawned THEN "spawned" ELSE "off"]
  /\ UNCHANGED <<orderVars, conf, done, open, down, active, stopExpired,
                 cancelled, groupErr, cause, rest, started, faults>>

\* The group's context is done.
GroupDone == cancelled \/ groupErr

\* A signal cancels the caller's context.
Cancel ==
  /\ phase \in {"start", "run"}
  /\ ~cancelled
  /\ cancelled' = TRUE
  /\ UNCHANGED <<orderVars, conf, phase, done, open, run, groupErr, cause, rest,
                 started, faults>>

Moves(g, to) == go' = [go EXCEPT ![g] = to]

\* Start of the HTTP and the metrics server: ListenAndServe returns
\* ErrServerClosed, which is no error, when Shutdown came first.
StartHTTP(s) ==
  /\ s # "grpc"
  /\ go[s] = "spawned"
  /\ \/ /\ Moves(s, IF s \in down THEN "done" ELSE "serving")
        /\ UNCHANGED <<groupErr, cause, faults>>
     \/ /\ s \notin down
        /\ Fault
        /\ Moves(s, "done")
        /\ groupErr' = TRUE
        /\ cause' = TRUE
  /\ UNCHANGED <<orderVars, conf, phase, done, open, down, active, stopExpired,
                 cancelled, rest, started>>

\* Start of the gRPC server.  Serve after GracefulStop returns
\* ErrServerStopped, which Start passes on.
StartGRPC ==
  /\ go["grpc"] = "spawned"
  /\ \/ /\ ~conf.grpc
        /\ Moves("grpc", "done")
        /\ UNCHANGED <<groupErr, cause, faults>>
     \/ /\ conf.grpc /\ "grpc" \notin down
        /\ Moves("grpc", "serving")
        /\ UNCHANGED <<groupErr, cause, faults>>
     \/ /\ conf.grpc /\ "grpc" \in down
        /\ Moves("grpc", "done")
        /\ groupErr' = TRUE
        /\ UNCHANGED <<cause, faults>>
     \/ /\ conf.grpc /\ Fault
        /\ Moves("grpc", "done")
        /\ groupErr' = TRUE
        /\ cause' = TRUE
  /\ UNCHANGED <<orderVars, conf, phase, done, open, down, active, stopExpired,
                 cancelled, rest, started>>

\* A server that was stopped returns from Start.  The gRPC server waits
\* for GracefulStop, which waits for its requests until Stop forces it.
ServeReturns(s) ==
  /\ go[s] = "serving"
  /\ s \in down
  /\ s = "grpc" => active[s] = 0 \/ go["watcher"] = "done"
  /\ Moves(s, "done")
  /\ UNCHANGED <<orderVars, conf, phase, done, open, down, active, stopExpired,
                 cancelled, groupErr, cause, rest, started, faults>>

\* A request arrives at a server, and ends.
BeginRequest(s) ==
  /\ go[s] = "serving"
  /\ s \notin down
  /\ active[s] < MaxActive
  /\ active' = [active EXCEPT ![s] = @ + 1]
  /\ UNCHANGED <<orderVars, conf, phase, done, open, go, down, stopExpired,
                 cancelled, groupErr, cause, rest, started, faults>>

EndRequest(s) ==
  /\ active[s] > 0
  /\ active' = [active EXCEPT ![s] = @ - 1]
  /\ UNCHANGED <<orderVars, conf, phase, done, open, go, down, stopExpired,
                 cancelled, groupErr, cause, rest, started, faults>>

\* The outbox worker polls; the select of its loop may still pick a tick
\* when the context is done as well.
BeginPoll ==
  /\ go["worker"] = "spawned"
  /\ Moves("worker", "polling")
  /\ UNCHANGED <<orderVars, conf, phase, done, open, down, active, stopExpired,
                 cancelled, groupErr, cause, rest, started, faults>>

EndPoll ==
  /\ go["worker"] = "polling"
  /\ Moves("worker", "spawned")
  /\ UNCHANGED <<orderVars, conf, phase, done, open, down, active, stopExpired,
                 cancelled, groupErr, cause, rest, started, faults>>

\* The outbox worker or the notifier sees that its context is done.  Its
\* error is dropped because the group's context is done.
LoopReturns(g) ==
  /\ g \in {"worker", "notifier"}
  /\ go[g] = "spawned"
  /\ GroupDone
  /\ Moves(g, "done")
  /\ UNCHANGED <<orderVars, conf, phase, done, open, down, active, stopExpired,
                 cancelled, groupErr, cause, rest, started, faults>>

\* Mutant of StopNext: the gRPC server is only stopped gracefully.
StopNext_Graceful ==
  /\ \/ /\ go["watcher"] = "spawned" /\ GroupDone
        /\ Moves("watcher", "http")
        /\ down' = down \cup {"http"}
     \/ /\ go["watcher"] = "http"
        /\ active["http"] = 0 \/ stopExpired
        /\ Moves("watcher", IF conf.metrics THEN "metrics" ELSE "grpc")
        /\ down' = down \cup {IF conf.metrics THEN "metrics" ELSE "grpc"}
     \/ /\ go["watcher"] = "metrics"
        /\ active["metrics"] = 0 \/ stopExpired
        /\ Moves("watcher", "grpc")
        /\ down' = down \cup {"grpc"}
     \/ /\ go["watcher"] = "grpc"
        /\ active["grpc"] = 0
        /\ Moves("watcher", "done")
        /\ UNCHANGED down
  /\ UNCHANGED <<orderVars, conf, phase, done, open, active, stopExpired,
                 cancelled, groupErr, cause, rest, started, faults>>

\* The context-watcher: it wakes up, then stops the servers one after the
\* other.  Stop refuses new requests at once and waits for those in
\* progress until the context it shares with the other Stops is done; the
\* gRPC server's Stop then forces the rest.
StopNext ==
  /\ \/ /\ go["watcher"] = "spawned" /\ GroupDone
        /\ Moves("watcher", "http")
        /\ down' = down \cup {"http"}
     \/ /\ go["watcher"] = "http"
        /\ active["http"] = 0 \/ stopExpired
        /\ Moves("watcher", IF conf.metrics THEN "metrics" ELSE "grpc")
        /\ down' = down \cup {IF conf.metrics THEN "metrics" ELSE "grpc"}
     \/ /\ go["watcher"] = "metrics"
        /\ active["metrics"] = 0 \/ stopExpired
        /\ Moves("watcher", "grpc")
        /\ down' = down \cup {"grpc"}
     \/ /\ go["watcher"] = "grpc"
        /\ active["grpc"] = 0 \/ stopExpired
        /\ Moves("watcher", "done")
        /\ UNCHANGED down
  /\ UNCHANGED <<orderVars, conf, phase, done, open, active, stopExpired,
                 cancelled, groupErr, cause, rest, started, faults>>

\* app.shutdown_timeout passes while the context-watcher stops servers.
StopTimeout ==
  /\ go["watcher"] \in Servers
  /\ ~stopExpired
  /\ stopExpired' = TRUE
  /\ UNCHANGED <<orderVars, conf, phase, done, open, go, down, active,
                 cancelled, groupErr, cause, rest, started, faults>>

\* g.Wait returns and Run closes the rate limiter; groupErr says whether Run
\* returns an error.
RunReturns ==
  /\ phase = "run"
  /\ \A g \in Goroutines : go[g] \in {"off", "done"}
  /\ phase' = "returned"
  /\ limiter' = FALSE
  /\ UNCHANGED <<orderVars, conf, done, open, run, cancelled, groupErr, cause,
                 handlers, closed, gaveUp, started, faults>>

-----------------------------------------------------------------------------
\* The in-process event bus

\* A request in progress or a running module publishes a domain event:
\* Publish adds to the wait group and starts the handler.
Publish ==
  /\ \/ \E s \in {"http", "grpc"} : active[s] > 0
     \/ started \ closed # {}
  /\ handlers < MaxActive
  /\ handlers' = handlers + 1
  /\ UNCHANGED <<orderVars, conf, phase, done, open, run, cancelled, groupErr,
                 cause, started, closed, gaveUp, limiter, faults>>

HandlerReturns ==
  /\ handlers > 0
  /\ handlers' = handlers - 1
  /\ UNCHANGED <<orderVars, conf, phase, done, open, run, cancelled, groupErr,
                 cause, started, closed, gaveUp, limiter, faults>>

-----------------------------------------------------------------------------
\* Shutdown

\* Mutant of Pools: the read pool is forgotten.
Pools_NoReadDB == {"write-db"}

Pools == {"write-db", "read-db"}

\* The closers Shutdown adds to the group, with their priorities.
Added == Elements(sorted) \cup {"event-bus", "stream", "cache"} \cup Pools
           \cup (IF conf.tracing THEN {"tracer"} ELSE {})
Priority ==
  [e \in Added |-> CASE e \in Elements(sorted)        -> 1
                     [] e \in {"event-bus", "stream"} -> 2
                     [] e = "cache"                   -> 3
                     [] e \in Pools                   -> 4
                     [] e = "tracer"                  -> 5]

\* The caller calls Shutdown after Run.
CallShutdown ==
  /\ phase = "returned"
  /\ phase' = "shutdown"
  /\ UNCHANGED <<orderVars, conf, done, open, run, cancelled, groupErr, cause,
                 rest, started, faults>>

\* The batch of e's priority runs: the batches before it have returned.
Ready(e) ==
  /\ e \in DOMAIN Priority \ closed
  /\ \A f \in DOMAIN Priority : Priority[f] < Priority[e] => f \in closed

\* The resource e, if it is one, is closed.
Close(e) ==
  open' = IF e \in Elements(open) THEN Without(open, CHOOSE i \in DOMAIN open : open[i] = e) ELSE open

\* Mutant of CloseEntry: Bus.Close does not wait for the handlers.
CloseEntry_NoWait(e) ==
  /\ phase = "shutdown"
  /\ Ready(e)
  /\ closed' = closed \cup {e}
  /\ Close(e)
  /\ UNCHANGED <<orderVars, conf, phase, done, run, cancelled, groupErr, cause,
                 handlers, gaveUp, limiter, started, faults>>

\* The goroutine of closer e returns, with an error or without: either way
\* the group goes on.  Bus.Close waits for the handlers in flight, or
\* gives up after closeTimeout.
CloseEntry(e) ==
  /\ phase = "shutdown"
  /\ Ready(e)
  /\ IF e = "event-bus" /\ handlers > 0
     THEN gaveUp' = TRUE
     ELSE UNCHANGED gaveUp
  /\ closed' = closed \cup {e}
  /\ Close(e)
  /\ UNCHANGED <<orderVars, conf, phase, done, run, cancelled, groupErr, cause,
                 handlers, limiter, started, faults>>

ShutdownReturns ==
  /\ phase = "shutdown"
  /\ closed = DOMAIN Priority
  /\ phase' = "down"
  /\ UNCHANGED <<orderVars, conf, done, open, run, cancelled, groupErr, cause,
                 rest, started, faults>>

CloserNames == Modules \cup Resources

Next ==
  \/ NewStep \/ NewFails \/ Unwind
  \/ RegisterModules \/ OrderModules \/ RegisterModule
  \/ CallRun \/ OnStart \/ SpawnAll \/ Cancel
  \/ \E s \in Servers : StartHTTP(s) \/ ServeReturns(s)
                          \/ BeginRequest(s) \/ EndRequest(s)
  \/ StartGRPC \/ BeginPoll \/ EndPoll
  \/ \E g \in Goroutines : LoopReturns(g)
  \/ StopNext \/ StopTimeout \/ RunReturns
  \/ Publish \/ HandlerReturns
  \/ CallShutdown \/ ShutdownReturns
  \/ \E e \in CloserNames : CloseEntry(e)

Spec == Init /\ [][Next]_vars

\* Goroutines that can run do run, timers fire and the closers of New's own
\* resources return.  Nothing is assumed of requests, bus handlers and the
\* OnStop of modules, which may hang, or of the caller.  The worker's loop
\* selects at random between a tick and its context: it does not pick the tick
\* for ever.
Fairness ==
  /\ \A s \in Servers : WF_vars(StartHTTP(s)) /\ WF_vars(ServeReturns(s))
  /\ WF_vars(StartGRPC) /\ WF_vars(EndPoll)
  /\ WF_vars(SpawnAll) /\ WF_vars(OnStart)
  /\ SF_vars(LoopReturns("worker")) /\ WF_vars(LoopReturns("notifier"))
  /\ WF_vars(StopNext) /\ WF_vars(StopTimeout) /\ WF_vars(RunReturns)
  /\ \A e \in Resources : WF_vars(CloseEntry(e))
  /\ WF_vars(ShutdownReturns)

FairSpec == Spec /\ Fairness

-----------------------------------------------------------------------------

\* A New that returns an error leaves nothing open, whichever step failed:
\* every step that opens a resource also appended its closer.
NewLeaksNothing == phase = "aborted" => open = <<>>

\* A module is started only when everything it depends on is: Run calls
\* OnStart in the order the registry computed.
DependenciesStartFirst ==
  \A m \in started : Elements(dependsOn[m]) \subseteq started

\* While the relay polls, the pool and the stream it uses are open: Run returns
\* only after the worker did, and Shutdown closes them only after Run.  While a
\* request or a bus handler runs, the pools and the cache are open, unless a
\* timeout was reached: the servers refuse requests and drain, then modules
\* stop, then the bus drains, then pools close.
WorkHasResources ==
  /\ go["worker"] = "polling" => {"write-db", "stream"} \subseteq Elements(open)
  /\ \/ stopExpired \/ gaveUp
     \/ (\E s \in Servers : active[s] > 0) \/ handlers > 0
          => {"write-db", "read-db", "cache"} \subseteq Elements(open)

\* Once the group's context is done, because of a signal or because one of
\* the servers failed, Run returns, even if requests never end.
RunEnds == GroupDone /\ phase = "run" ~> phase # "run"

\* Once the OnStop of every module has returned, Shutdown returns, and then
\* everything New opened is closed: only when a failed OnStart ended Run, before
\* its goroutines, does the rate limiter's goroutine go on.
ShutdownCloses ==
  phase = "shutdown" /\ Elements(sorted) \subseteq closed
    ~> phase = "down" /\ open = <<>> /\ (limiter => go["watcher"] = "off")

\* Shutdown's comment: "Timeout is config-driven (app.shutdown_timeout, default
\* 30s)."  Shutdown returns, whatever the OnStop of a module does.
ShutdownIsBounded == phase = "shutdown" ~> phase = "down"

\* Close of the rate limiter: "Call during graceful shutdown."  After Shutdown
\* its goroutine has stopped.
LimiterStops == phase = "down" => ~limiter

\* Run's comment: "A cancelled context is not treated as an error."  Run
\* returns an error only if a module or a server failed.
CancelIsNoError == phase = "returned" /\ groupErr => cause
=============================================================================
