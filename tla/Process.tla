---- MODULE Process ----
(***************************************************************************)
(* The life of one service process: run of cmd/orderservice/main.go with    *)
(* the goroutines it starts (the recovery worker's Run, the HTTP server and  *)
(* its handlers), the signal context that ties them together and the         *)
(* deferred calls that take them down; and the tracer provider of           *)
(* observability/tracing.go that all of them write their spans to.          *)
(***************************************************************************)
EXTENDS Naturals

CONSTANTS Handlers,   \* the requests the server may be sent
          Exporters,  \* the values OTEL_TRACES_EXPORTER may have
          Batch       \* the name of the span of a recovery batch

ASSUME BatchAssumption == Batch \notin Handlers

VARIABLES
  main,          \* where run is; the names after "select" are those of its
                 \* deferred calls, in the order they are executed
  code,          \* what run returns, or how the process ends
  cancelled,     \* whether rootCtx is done
  exporter,      \* the configured exporter
  provider,      \* the tracer provider
  db,            \* the connection pool
  worker,        \* the goroutine of the recovery worker
  server,        \* the goroutine of the HTTP server
  serverErrors,  \* the channel with room for its one result
  handler,       \* the handlers of the requests
  span           \* what became of a span

vars == <<main, code, cancelled, exporter, provider, db, worker, server, serverErrors,
          handler, span>>

Spans == Handlers \cup {Batch}

\* Type correctness: each goroutine, the channel and each resource is in one of
\* the states run knows of.
ProcessTypeOK ==
  /\ main \in {"tracing", "config", "connect", "start", "select", "shutdown",
               "stop", "wait", "close", "flush", "exit", "exited"}
  /\ code \in {"none", "ok", "failed", "killed"}
  /\ cancelled \in BOOLEAN
  /\ exporter \in Exporters
  /\ provider \in {"none", "sampling", "silent", "off"}
  /\ db \in {"none", "open", "closed"}
  /\ worker \in {"none", "batch", "waiting", "done"}
  /\ server \in {"none", "starting", "listening", "draining", "done"}
  /\ serverErrors \in {"empty", "ErrServerClosed", "error"}
  /\ handler \in [Handlers -> {"none", "connected", "running", "answered", "cut"}]
  /\ span \in [Spans -> {"none", "unsampled", "queued", "discarded", "exported", "failed", "late"}]

Init ==
  /\ main = "tracing"
  /\ code = "none"
  /\ cancelled = FALSE
  /\ exporter \in Exporters
  /\ provider = "none"
  /\ db = "none"
  /\ worker = "none"
  /\ server = "none"
  /\ serverErrors = "empty"
  /\ handler = [q \in Handlers |-> "none"]
  /\ span = [s \in Spans |-> "none"]

goroutines == <<worker, server, serverErrors, handler>>
observed == <<exporter, span>>

\* SetupTracingWithConfig: what it makes of the configured exporter, after
\* blanks and case are taken off it.  Creating the OTLP exporter may fail.
Normalized(value) == CASE value = " OTLP " -> "otlp" [] value = "" -> "stdout" [] OTHER -> value

\* Bug: an exporter that does not exist is accepted.
SetupTracingAnyExporter(value) ==
  CASE Normalized(value) = "stdout" -> {"sampling"}
    [] Normalized(value) = "none" -> {"silent"}
    [] OTHER -> {Normalized(value)}

SetupTracing(value) ==
  CASE Normalized(value) = "stdout" -> {"sampling"}
    [] Normalized(value) = "otlp" -> {"sampling", "error"}
    [] Normalized(value) = "none" -> {"silent"}
    [] OTHER -> {"error"}

\* run returns: the deferred calls are executed from the given one on.
Return(result, deferred) == code' = result /\ main' = deferred

\* What may become of a span that ends: the sampler follows the caller's
\* decision and samples where there is none, as for a batch; the processor
\* queues a sampled span, or discards it if its queue is full.  Once the provider
\* was shut down it is too late.
Fates(s) ==
  CASE provider = "sampling" /\ s = Batch -> {"queued", "discarded"}
    [] provider = "sampling" /\ s # Batch -> {"queued", "discarded", "unsampled"}
    [] provider = "off" -> {"late"}
    [] OTHER -> {"unsampled"}

\* The batch span is that of any of the worker's batches.
EndSpan(s) == \E fate \in Fates(s) : span' = [span EXCEPT ![s] = fate]

\* Some of the queued spans are handed to the exporter, which writes them one
\* by one and stops at an error; those it was handed and has not written are
\* gone, those it was not handed stay in the queue.
Export ==
  \E handed \in SUBSET {s \in Spans : span[s] = "queued"} : \E written \in SUBSET handed :
    span' = [s \in Spans |-> CASE s \in written -> "exported"
                               [] s \in handed \ written -> "failed"
                               [] OTHER -> span[s]]
----
StartTracing ==
  /\ main = "tracing"
  /\ \E result \in SetupTracing(exporter) :
       IF result = "error"
       THEN Return("failed", "exit") /\ UNCHANGED provider
       ELSE main' = "config" /\ provider' = result /\ UNCHANGED code
  /\ UNCHANGED <<cancelled, db, goroutines, observed>>

\* The three URLs are required; sql.Open only prepares the pool.
Configure ==
  /\ main = "config"
  /\ \/ main' = "connect" /\ db' = "open" /\ UNCHANGED code
     \/ Return("failed", "flush") /\ UNCHANGED db
  /\ UNCHANGED <<cancelled, provider, goroutines, observed>>

\* Ping and Migrate, within 10 seconds; once rootCtx is done they fail.
Connect ==
  /\ main = "connect"
  /\ \/ ~cancelled /\ main' = "start" /\ UNCHANGED code
     \/ Return("failed", "close")
  /\ UNCHANGED <<cancelled, provider, db, goroutines, observed>>

\* The worker begins with a batch; RunOnce refuses it if rootCtx is done.
StartGoroutines ==
  /\ main = "start"
  /\ main' = "select"
  /\ worker' = IF cancelled THEN "waiting" ELSE "batch"
  /\ server' = "starting"
  /\ UNCHANGED <<code, cancelled, provider, db, serverErrors, handler, observed>>

\* The two cases of the select; when both are ready either is taken.
\* Shutdown closes the listener, or keeps it from being opened.
BeginShutdown ==
  /\ main = "select"
  /\ cancelled
  /\ main' = "shutdown"
  /\ server' = IF server = "done" THEN server ELSE "draining"
  /\ UNCHANGED <<code, cancelled, provider, db, worker, serverErrors, handler, observed>>

ServerFailed ==
  /\ main = "select"
  /\ serverErrors # "empty"
  /\ serverErrors' = "empty"
  /\ Return(IF serverErrors = "ErrServerClosed" THEN "ok" ELSE "failed", "stop")
  /\ UNCHANGED <<cancelled, provider, db, worker, server, handler, observed>>

\* Shutdown closes idle connections and waits until there is no other, at most
\* 10 seconds.
ShutdownCompletes ==
  /\ main = "shutdown"
  /\ \A q \in Handlers : handler[q] \notin {"connected", "running"}
  /\ Return("ok", "stop")
  /\ UNCHANGED <<cancelled, provider, db, goroutines, observed>>

\* Bug: the error of Shutdown is ignored.
ShutdownTimeoutIgnored ==
  /\ main = "shutdown"
  /\ Return("ok", "stop")
  /\ UNCHANGED <<cancelled, provider, db, goroutines, observed>>

ShutdownTimesOut ==
  /\ main = "shutdown"
  /\ Return("failed", "stop")
  /\ UNCHANGED <<cancelled, provider, db, goroutines, observed>>

\* Bug: the worker is waited for but not told to stop.
StopForgotten ==
  /\ main = "stop"
  /\ main' = "wait"
  /\ UNCHANGED <<code, cancelled, provider, db, goroutines, observed>>

\* The deferred calls: stop, then <-reconcilerDone, ...
Stop ==
  /\ main = "stop"
  /\ cancelled' = TRUE
  /\ main' = "wait"
  /\ UNCHANGED <<code, provider, db, goroutines, observed>>

\* Bug: the deferred function does not wait for reconcilerDone.
WorkerNotAwaited ==
  /\ main = "wait"
  /\ main' = "close"
  /\ UNCHANGED <<code, cancelled, provider, db, goroutines, observed>>

WorkerStopped ==
  /\ main = "wait"
  /\ worker = "done"
  /\ main' = "close"
  /\ UNCHANGED <<code, cancelled, provider, db, goroutines, observed>>

\* ... db.Close, ...
CloseDatabase ==
  /\ main = "close"
  /\ db' = "closed"
  /\ main' = "flush"
  /\ UNCHANGED <<code, cancelled, provider, goroutines, observed>>

\* ... and the provider's Shutdown, which takes no more spans and exports what is
\* queued, as far as it gets in 5 seconds.  Its error is ignored: what is still
\* queued then goes with the process.
Flush ==
  /\ main = "flush"
  /\ main' = "exit"
  /\ provider' = "off"
  /\ Export
  /\ UNCHANGED <<code, cancelled, exporter, db, goroutines>>

\* What the end of the process does to the requests in flight.
CutOff ==
  handler' = [q \in Handlers |-> IF handler[q] \in {"connected", "running"} THEN "cut" ELSE handler[q]]

\* The first deferred call is the last: stop, which by then has nobody to tell.
Exit ==
  /\ main = "exit"
  /\ main' = "exited"
  /\ cancelled' = TRUE
  /\ CutOff
  /\ UNCHANGED <<code, provider, db, worker, server, serverErrors, observed>>

MainStep ==
  \/ StartTracing \/ Configure \/ Connect \/ StartGoroutines
  \/ BeginShutdown \/ ServerFailed \/ ShutdownCompletes \/ ShutdownTimesOut
  \/ Stop \/ WorkerStopped \/ CloseDatabase \/ Flush \/ Exit
----
Alive == main # "exited"

\* SIGINT or SIGTERM: NotifyContext cancels rootCtx, until stop gives the
\* signals back to the system, whose default is to kill the process.  Where the
\* goroutines were started, stop is called before anything is taken down.
Signal ==
  /\ Alive
  /\ ~cancelled
  /\ cancelled' = TRUE
  /\ UNCHANGED <<main, code, provider, db, goroutines, observed>>

Kill ==
  /\ main \in {"wait", "close", "flush", "exit"}
  /\ worker # "none"
  /\ Return("killed", "exited")
  /\ CutOff
  /\ UNCHANGED <<cancelled, provider, db, worker, server, serverErrors, observed>>

\* Run: batches until rootCtx is done.  Once it is, the select may still take
\* a tick, but RunOnce returns before it calls anything.
BatchEnds ==
  /\ Alive
  /\ worker = "batch"
  /\ worker' = "waiting"
  /\ EndSpan(Batch)
  /\ UNCHANGED <<main, code, cancelled, exporter, provider, db, server, serverErrors, handler>>

Tick ==
  /\ Alive
  /\ worker = "waiting"
  /\ ~cancelled
  /\ worker' = "batch"
  /\ UNCHANGED <<main, code, cancelled, provider, db, server, serverErrors, handler, observed>>

RunReturns ==
  /\ Alive
  /\ worker = "waiting"
  /\ cancelled
  /\ worker' = "done"
  /\ UNCHANGED <<main, code, cancelled, provider, db, server, serverErrors, handler, observed>>

\* ListenAndServe binds and serves, ...
Listen ==
  /\ Alive
  /\ server = "starting"
  /\ server' = "listening"
  /\ UNCHANGED <<main, code, cancelled, provider, db, worker, serverErrors, handler, observed>>

\* ... and returns an error, or, after Shutdown, ErrServerClosed.
ListenAndServeReturns ==
  /\ Alive
  /\ server \in {"starting", "listening", "draining"}
  /\ serverErrors' = IF server = "draining" THEN "ErrServerClosed" ELSE "error"
  /\ server' = "done"
  /\ UNCHANGED <<main, code, cancelled, provider, db, worker, handler, observed>>

\* The connection of a request is accepted.  Its handler starts once the request
\* is read, also after Shutdown began or gave up; or the connection is closed
\* before, by the client, a time-out or Shutdown.
Accept(q) ==
  /\ Alive
  /\ server = "listening"
  /\ handler[q] = "none"
  /\ handler' = [handler EXCEPT ![q] = "connected"]
  /\ UNCHANGED <<main, code, cancelled, provider, db, worker, server, serverErrors, observed>>

StartHandler(q) ==
  /\ Alive
  /\ handler[q] = "connected"
  /\ handler' = [handler EXCEPT ![q] = "running"]
  /\ UNCHANGED <<main, code, cancelled, provider, db, worker, server, serverErrors, observed>>

Disconnect(q) ==
  /\ Alive
  /\ handler[q] = "connected"
  /\ handler' = [handler EXCEPT ![q] = "none"]
  /\ UNCHANGED <<main, code, cancelled, provider, db, worker, server, serverErrors, observed>>

\* rootCtx is not the context of a handler.
HandlerEnds(q) ==
  /\ Alive
  /\ handler[q] = "running"
  /\ handler' = [handler EXCEPT ![q] = "answered"]
  /\ EndSpan(q)
  /\ UNCHANGED <<main, code, cancelled, exporter, provider, db, worker, server, serverErrors>>

\* The batch processor exports what is queued, from time to time (external).
ExportBatch ==
  /\ Alive
  /\ provider = "sampling"
  /\ \E s \in Spans : span[s] = "queued"
  /\ Export
  /\ UNCHANGED <<main, code, cancelled, exporter, provider, db, goroutines>>

\* Nothing happens after the process has exited.
Exited == ~Alive /\ UNCHANGED vars

Next ==
  \/ MainStep \/ Signal \/ Kill
  \/ BatchEnds \/ Tick \/ RunReturns
  \/ Listen \/ ListenAndServeReturns
  \/ \E q \in Handlers : Accept(q) \/ StartHandler(q) \/ Disconnect(q) \/ HandlerEnds(q)
  \/ ExportBatch \/ Exited

Spec == Init /\ [][Next]_vars

\* run goes on whenever it can, the context of Shutdown expires, and once
\* rootCtx is done the worker's calls return and so does Run.  Nothing is assumed
\* of handlers, nor that a batch ends while rootCtx lives: a database call of the
\* worker has no deadline of its own.
FairSpec ==
  /\ Spec
  /\ WF_vars(MainStep)
  /\ WF_vars(cancelled /\ BatchEnds)
  /\ WF_vars(RunReturns)
----
WorkerActive == worker \in {"batch", "waiting"}

\* The deferred calls are in the right order on every path through run: the
\* database stays open and the tracer provider on while the worker or the
\* listener is there to use them, also when the server fails by itself or a
\* signal arrives before it listens.
ResourcesOutliveUsers ==
  Alive /\ (WorkerActive \/ server = "listening") =>
    db = "open" /\ provider \in {"sampling", "silent"}

\* Exit code 0 is a promise: the worker has stopped and no request was cut off
\* or ran into the closed database, however the shutdown raced with them.
CleanStopDrains ==
  code = "ok" =>
    /\ \A q \in Handlers : handler[q] \in {"none", "answered"}
    /\ main \notin {"stop", "wait"} => worker = "done"

\* The shutdown of the provider is late enough: the span of a batch never ends
\* after it, whichever way the process stops, and the span of a request only if
\* the process reports a failure or is killed.  What the provider took it may
\* still lose, to a full queue, a failing export or the end of its 5 seconds.
SpansEndInTime ==
  /\ span[Batch] # "late"
  /\ code = "ok" => \A q \in Handlers : span[q] # "late"

\* A signal, and a server that fails, end the process, although requests may
\* hang, the worker be in the middle of a batch or blocked in a database call.
StopsWhenAsked == (cancelled \/ serverErrors # "empty") ~> ~Alive
====
