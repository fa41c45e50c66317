---- MODULE ProcessProofs ----
(***************************************************************************)
(* Proofs about Process, for every set of requests and every setting of the *)
(* exporter.                                                                *)
(***************************************************************************)
EXTENDS Process, TLAPS

ProviderOn == provider \in {"sampling", "silent"}
Starting == {"tracing", "config", "connect", "start"}
Ending == {"stop", "wait", "close", "flush", "exit", "exited"}

\* What there is at each place of run: nothing runs before the goroutines are
\* started, ...
StartInv ==
  main \in Starting =>
    /\ worker = "none" /\ server = "none" /\ serverErrors = "empty" /\ code = "none"
    /\ \A q \in Handlers : handler[q] = "none"

\* ... the pool and the provider are there until their deferred call, ...
ResourceInv ==
  /\ main \in {"connect", "start", "select", "shutdown", "stop", "wait", "close"} => db = "open"
  /\ main \in {"config", "connect", "start", "select", "shutdown", "stop", "wait", "close", "flush"} => ProviderOn
  /\ main = "tracing" => provider = "none"

\* ... the worker has stopped before either is taken down, ...
WorkerInv ==
  /\ main \in {"select", "shutdown"} => worker # "none"
  /\ main \in {"close", "flush", "exit"} \/ (main = "exited" /\ code = "ok") => worker \in {"none", "done"}

\* ... and the server no longer listens once run has left the select.
ServerInv ==
  /\ main \in {"shutdown"} \cup Ending => server \in {"none", "draining", "done"}
  /\ main = "select" => server \in {"starting", "listening", "done"} /\ serverErrors # "ErrServerClosed"
  /\ serverErrors # "empty" => server = "done"

\* Once run returns nil nothing is in flight, so nothing ends after the
\* provider's shutdown; and nothing of the worker's ever does.
ReturnInv ==
  /\ main # "exited" => \A q \in Handlers : handler[q] # "cut"
  /\ code = "ok" => main \in Ending /\ worker # "none"
                      /\ \A q \in Handlers : handler[q] \in {"none", "answered"}
  /\ provider # "off" \/ code = "ok" => \A s \in Spans : span[s] # "late"
  /\ span[Batch] # "late"

ProcessInv == ProcessTypeOK /\ StartInv /\ ResourceInv /\ WorkerInv /\ ServerInv /\ ReturnInv

\* The initial state satisfies it.
LEMMA InitInv == Init => ProcessInv
BY DEF Init, ProcessInv, ProcessTypeOK, ReturnInv, Spans, StartInv, ResourceInv, WorkerInv, ServerInv, Starting, Ending, ProviderOn

\* An export makes no span late, ...
LEMMA ExportInTime ==
  ASSUME Export, NEW s \in Spans, span[s] # "late"
  PROVE  span'[s] # "late"
BY DEF Export

\* ... and nor does the end of a span while the provider takes spans; it
\* decides over that span only.
LEMMA EndSpanInTime ==
  ASSUME ProcessTypeOK, NEW e \in Spans, EndSpan(e), NEW s \in Spans, span[s] # "late",
         s # e \/ provider # "off"
  PROVE  span'[s] # "late"
BY DEF EndSpan, Fates, ProcessTypeOK

\* A batch has a span, which is not that of a request.
LEMMA BatchSpan == Batch \in Spans /\ Handlers \subseteq Spans /\ Batch \notin Handlers
BY BatchAssumption DEF Spans

\* StartTracing: the provider is there, silent or sampling, before anything uses it.
LEMMA StartTracingInv ==
  ASSUME ProcessInv, StartTracing
  PROVE  ProcessInv'
<1>1. ProcessTypeOK'
  BY DEF ProcessInv, ProcessTypeOK, StartTracing, SetupTracing, Normalized, Return, goroutines, observed
<1>2. StartInv' /\ ResourceInv' /\ WorkerInv' /\ ServerInv'
  BY DEF ProcessInv, ProcessTypeOK, ReturnInv, StartInv, ResourceInv, WorkerInv, ServerInv, Starting, Ending, ProviderOn,
         StartTracing, SetupTracing, Normalized, Return, goroutines, observed
<1>3. ReturnInv'
  BY DEF ProcessInv, ProcessTypeOK, ReturnInv, StartInv, ResourceInv, WorkerInv, ServerInv, Starting, Ending, ProviderOn,
         StartTracing, SetupTracing, Normalized, Return, goroutines, observed
<1> QED BY <1>1, <1>2, <1>3 DEF ProcessInv

\* Configure: the pool is opened.
LEMMA ConfigureInv ==
  ASSUME ProcessInv, Configure
  PROVE  ProcessInv'
<1>1. ProcessTypeOK'
  BY DEF ProcessInv, ProcessTypeOK, Configure, Return, goroutines, observed
<1>2. StartInv' /\ ResourceInv' /\ WorkerInv' /\ ServerInv'
  BY DEF ProcessInv, ProcessTypeOK, ReturnInv, StartInv, ResourceInv, WorkerInv, ServerInv, Starting, Ending, ProviderOn,
         Configure, Return, goroutines, observed
<1>3. ReturnInv'
  BY DEF ProcessInv, ProcessTypeOK, ReturnInv, StartInv, ResourceInv, WorkerInv, ServerInv, Starting, Ending, ProviderOn,
         Configure, Return, goroutines, observed
<1> QED BY <1>1, <1>2, <1>3 DEF ProcessInv

\* Connect: a failure closes it again.
LEMMA ConnectInv ==
  ASSUME ProcessInv, Connect
  PROVE  ProcessInv'
<1>1. ProcessTypeOK'
  BY DEF ProcessInv, ProcessTypeOK, Connect, Return, goroutines, observed
<1>2. StartInv' /\ ResourceInv' /\ WorkerInv' /\ ServerInv'
  BY DEF ProcessInv, ProcessTypeOK, ReturnInv, StartInv, ResourceInv, WorkerInv, ServerInv, Starting, Ending, ProviderOn,
         Connect, Return, goroutines, observed
<1>3. ReturnInv'
  BY DEF ProcessInv, ProcessTypeOK, ReturnInv, StartInv, ResourceInv, WorkerInv, ServerInv, Starting, Ending, ProviderOn,
         Connect, Return, goroutines, observed
<1> QED BY <1>1, <1>2, <1>3 DEF ProcessInv

\* StartGoroutines: the worker and the server begin with pool and provider there.
LEMMA StartGoroutinesInv ==
  ASSUME ProcessInv, StartGoroutines
  PROVE  ProcessInv'
<1>1. ProcessTypeOK'
  BY DEF ProcessInv, ProcessTypeOK, StartGoroutines, goroutines, observed
<1>2. StartInv' /\ ResourceInv' /\ WorkerInv' /\ ServerInv'
  BY DEF ProcessInv, ProcessTypeOK, ReturnInv, StartInv, ResourceInv, WorkerInv, ServerInv, Starting, Ending, ProviderOn,
         StartGoroutines, goroutines, observed
<1>3. ReturnInv'
  BY DEF ProcessInv, ProcessTypeOK, ReturnInv, StartInv, ResourceInv, WorkerInv, ServerInv, Starting, Ending, ProviderOn,
         StartGoroutines, goroutines, observed
<1> QED BY <1>1, <1>2, <1>3 DEF ProcessInv

\* BeginShutdown: the listener is closed.
LEMMA BeginShutdownInv ==
  ASSUME ProcessInv, BeginShutdown
  PROVE  ProcessInv'
<1>1. ProcessTypeOK'
  BY DEF ProcessInv, ProcessTypeOK, BeginShutdown, goroutines, observed
<1>2. StartInv' /\ ResourceInv' /\ WorkerInv' /\ ServerInv'
  BY DEF ProcessInv, ProcessTypeOK, ReturnInv, StartInv, ResourceInv, WorkerInv, ServerInv, Starting, Ending, ProviderOn,
         BeginShutdown, goroutines, observed
<1>3. ReturnInv'
  BY DEF ProcessInv, ProcessTypeOK, ReturnInv, StartInv, ResourceInv, WorkerInv, ServerInv, Starting, Ending, ProviderOn,
         BeginShutdown, goroutines, observed
<1> QED BY <1>1, <1>2, <1>3 DEF ProcessInv

\* ServerFailed: run returns nil only for ErrServerClosed, which a select never meets.
LEMMA ServerFailedInv ==
  ASSUME ProcessInv, ServerFailed
  PROVE  ProcessInv'
<1>1. ProcessTypeOK'
  BY DEF ProcessInv, ProcessTypeOK, ServerFailed, Return, goroutines, observed
<1>2. StartInv' /\ ResourceInv' /\ WorkerInv' /\ ServerInv'
  BY DEF ProcessInv, ProcessTypeOK, ReturnInv, StartInv, ResourceInv, WorkerInv, ServerInv, Starting, Ending, ProviderOn,
         ServerFailed, Return, goroutines, observed
<1>3. ReturnInv'
  BY DEF ProcessInv, ProcessTypeOK, ReturnInv, StartInv, ResourceInv, WorkerInv, ServerInv, Starting, Ending, ProviderOn,
         ServerFailed, Return, goroutines, observed
<1> QED BY <1>1, <1>2, <1>3 DEF ProcessInv

\* ShutdownCompletes: no handler runs, and none can start without a connection.
LEMMA ShutdownCompletesInv ==
  ASSUME ProcessInv, ShutdownCompletes
  PROVE  ProcessInv'
<1>1. ProcessTypeOK'
  BY DEF ProcessInv, ProcessTypeOK, ShutdownCompletes, Return, goroutines, observed
<1>2. StartInv' /\ ResourceInv' /\ WorkerInv' /\ ServerInv'
  BY DEF ProcessInv, ProcessTypeOK, ReturnInv, StartInv, ResourceInv, WorkerInv, ServerInv, Starting, Ending, ProviderOn,
         ShutdownCompletes, Return, goroutines, observed
<1>3. ReturnInv'
  BY DEF ProcessInv, ProcessTypeOK, ReturnInv, StartInv, ResourceInv, WorkerInv, ServerInv, Starting, Ending, ProviderOn,
         ShutdownCompletes, Return, goroutines, observed
<1> QED BY <1>1, <1>2, <1>3 DEF ProcessInv

\* ShutdownTimesOut: run returns an error.
LEMMA ShutdownTimesOutInv ==
  ASSUME ProcessInv, ShutdownTimesOut
  PROVE  ProcessInv'
<1>1. ProcessTypeOK'
  BY DEF ProcessInv, ProcessTypeOK, ShutdownTimesOut, Return, goroutines, observed
<1>2. StartInv' /\ ResourceInv' /\ WorkerInv' /\ ServerInv'
  BY DEF ProcessInv, ProcessTypeOK, ReturnInv, StartInv, ResourceInv, WorkerInv, ServerInv, Starting, Ending, ProviderOn,
         ShutdownTimesOut, Return, goroutines, observed
<1>3. ReturnInv'
  BY DEF ProcessInv, ProcessTypeOK, ReturnInv, StartInv, ResourceInv, WorkerInv, ServerInv, Starting, Ending, ProviderOn,
         ShutdownTimesOut, Return, goroutines, observed
<1> QED BY <1>1, <1>2, <1>3 DEF ProcessInv

\* Stop: the worker is told to stop.
LEMMA StopInv ==
  ASSUME ProcessInv, Stop
  PROVE  ProcessInv'
<1>1. ProcessTypeOK'
  BY DEF ProcessInv, ProcessTypeOK, Stop, goroutines, observed
<1>2. StartInv' /\ ResourceInv' /\ WorkerInv' /\ ServerInv'
  BY DEF ProcessInv, ProcessTypeOK, ReturnInv, StartInv, ResourceInv, WorkerInv, ServerInv, Starting, Ending, ProviderOn,
         Stop, goroutines, observed
<1>3. ReturnInv'
  BY DEF ProcessInv, ProcessTypeOK, ReturnInv, StartInv, ResourceInv, WorkerInv, ServerInv, Starting, Ending, ProviderOn,
         Stop, goroutines, observed
<1> QED BY <1>1, <1>2, <1>3 DEF ProcessInv

\* WorkerStopped: the worker is done before the pool is closed.
LEMMA WorkerStoppedInv ==
  ASSUME ProcessInv, WorkerStopped
  PROVE  ProcessInv'
<1>1. ProcessTypeOK'
  BY DEF ProcessInv, ProcessTypeOK, WorkerStopped, goroutines, observed
<1>2. StartInv' /\ ResourceInv' /\ WorkerInv' /\ ServerInv'
  BY DEF ProcessInv, ProcessTypeOK, ReturnInv, StartInv, ResourceInv, WorkerInv, ServerInv, Starting, Ending, ProviderOn,
         WorkerStopped, goroutines, observed
<1>3. ReturnInv'
  BY DEF ProcessInv, ProcessTypeOK, ReturnInv, StartInv, ResourceInv, WorkerInv, ServerInv, Starting, Ending, ProviderOn,
         WorkerStopped, goroutines, observed
<1> QED BY <1>1, <1>2, <1>3 DEF ProcessInv

\* CloseDatabase: nobody of run's own is left to use it.
LEMMA CloseDatabaseInv ==
  ASSUME ProcessInv, CloseDatabase
  PROVE  ProcessInv'
<1>1. ProcessTypeOK'
  BY DEF ProcessInv, ProcessTypeOK, CloseDatabase, goroutines, observed
<1>2. StartInv' /\ ResourceInv' /\ WorkerInv' /\ ServerInv'
  BY DEF ProcessInv, ProcessTypeOK, ReturnInv, StartInv, ResourceInv, WorkerInv, ServerInv, Starting, Ending, ProviderOn,
         CloseDatabase, goroutines, observed
<1>3. ReturnInv'
  BY DEF ProcessInv, ProcessTypeOK, ReturnInv, StartInv, ResourceInv, WorkerInv, ServerInv, Starting, Ending, ProviderOn,
         CloseDatabase, goroutines, observed
<1> QED BY <1>1, <1>2, <1>3 DEF ProcessInv

\* Flush: an export makes no span late.
LEMMA FlushInv ==
  ASSUME ProcessInv, Flush
  PROVE  ProcessInv'
<1>1. ProcessTypeOK'
  BY DEF ProcessInv, ProcessTypeOK, Flush, Export, goroutines, observed
<1>2. StartInv' /\ ResourceInv' /\ WorkerInv' /\ ServerInv'
  BY DEF ProcessInv, ProcessTypeOK, ReturnInv, StartInv, ResourceInv, WorkerInv, ServerInv, Starting, Ending, ProviderOn,
         Flush, Export, goroutines, observed
<1>3. ReturnInv'
  BY ExportInTime, BatchSpan DEF ProcessInv, ProcessTypeOK, ReturnInv, StartInv, ResourceInv, WorkerInv, ServerInv, Starting, Ending, ProviderOn,
         Flush, goroutines, observed
<1> QED BY <1>1, <1>2, <1>3 DEF ProcessInv

\* Exit: there is nothing to cut off after a clean stop.
LEMMA ExitInv ==
  ASSUME ProcessInv, Exit
  PROVE  ProcessInv'
<1>1. ProcessTypeOK'
  BY DEF ProcessInv, ProcessTypeOK, Exit, CutOff, goroutines, observed
<1>2. StartInv' /\ ResourceInv' /\ WorkerInv' /\ ServerInv'
  BY DEF ProcessInv, ProcessTypeOK, ReturnInv, StartInv, ResourceInv, WorkerInv, ServerInv, Starting, Ending, ProviderOn,
         Exit, CutOff, goroutines, observed
<1>3. ReturnInv'
  BY DEF ProcessInv, ProcessTypeOK, ReturnInv, StartInv, ResourceInv, WorkerInv, ServerInv, Starting, Ending, ProviderOn,
         Exit, CutOff, goroutines, observed
<1> QED BY <1>1, <1>2, <1>3 DEF ProcessInv

\* Signal: only rootCtx changes.
LEMMA SignalInv ==
  ASSUME ProcessInv, Signal
  PROVE  ProcessInv'
<1>1. ProcessTypeOK'
  BY DEF ProcessInv, ProcessTypeOK, Signal, Alive, goroutines, observed
<1>2. StartInv' /\ ResourceInv' /\ WorkerInv' /\ ServerInv'
  BY DEF ProcessInv, ProcessTypeOK, ReturnInv, StartInv, ResourceInv, WorkerInv, ServerInv, Starting, Ending, ProviderOn,
         Signal, Alive, goroutines, observed
<1>3. ReturnInv'
  BY DEF ProcessInv, ProcessTypeOK, ReturnInv, StartInv, ResourceInv, WorkerInv, ServerInv, Starting, Ending, ProviderOn,
         Signal, Alive, goroutines, observed
<1> QED BY <1>1, <1>2, <1>3 DEF ProcessInv

\* Kill: the process is gone with a code of its own.
LEMMA KillInv ==
  ASSUME ProcessInv, Kill
  PROVE  ProcessInv'
<1>1. ProcessTypeOK'
  BY DEF ProcessInv, ProcessTypeOK, Kill, CutOff, Return, goroutines, observed
<1>2. StartInv' /\ ResourceInv' /\ WorkerInv' /\ ServerInv'
  BY DEF ProcessInv, ProcessTypeOK, ReturnInv, StartInv, ResourceInv, WorkerInv, ServerInv, Starting, Ending, ProviderOn,
         Kill, CutOff, Return, goroutines, observed
<1>3. ReturnInv'
  BY DEF ProcessInv, ProcessTypeOK, ReturnInv, StartInv, ResourceInv, WorkerInv, ServerInv, Starting, Ending, ProviderOn,
         Kill, CutOff, Return, goroutines, observed
<1> QED BY <1>1, <1>2, <1>3 DEF ProcessInv

\* BatchEnds: a batch ends before the provider is off.
LEMMA BatchEndsInv ==
  ASSUME ProcessInv, BatchEnds
  PROVE  ProcessInv'
<1>1. ProcessTypeOK'
  BY DEF ProcessInv, ProcessTypeOK, BatchEnds, EndSpan, Fates, Spans, Alive, goroutines, observed
<1>2. StartInv' /\ ResourceInv' /\ WorkerInv' /\ ServerInv'
  BY DEF ProcessInv, ProcessTypeOK, ReturnInv, StartInv, ResourceInv, WorkerInv, ServerInv, Starting, Ending, ProviderOn,
         BatchEnds, EndSpan, Fates, Spans, Alive, goroutines, observed
<1>3. ReturnInv'
  BY DEF ProcessInv, ProcessTypeOK, ReturnInv, StartInv, ResourceInv, WorkerInv, ServerInv, Starting, Ending, ProviderOn,
         BatchEnds, EndSpan, Fates, Spans, Alive, goroutines, observed
<1> QED BY <1>1, <1>2, <1>3 DEF ProcessInv

\* Tick: the worker goes on only before it has stopped.
LEMMA TickInv ==
  ASSUME ProcessInv, Tick
  PROVE  ProcessInv'
<1>1. ProcessTypeOK'
  BY DEF ProcessInv, ProcessTypeOK, Tick, Alive, goroutines, observed
<1>2. StartInv' /\ ResourceInv' /\ WorkerInv' /\ ServerInv'
  BY DEF ProcessInv, ProcessTypeOK, ReturnInv, StartInv, ResourceInv, WorkerInv, ServerInv, Starting, Ending, ProviderOn,
         Tick, Alive, goroutines, observed
<1>3. ReturnInv'
  BY DEF ProcessInv, ProcessTypeOK, ReturnInv, StartInv, ResourceInv, WorkerInv, ServerInv, Starting, Ending, ProviderOn,
         Tick, Alive, goroutines, observed
<1> QED BY <1>1, <1>2, <1>3 DEF ProcessInv

\* RunReturns: the worker stops.
LEMMA RunReturnsInv ==
  ASSUME ProcessInv, RunReturns
  PROVE  ProcessInv'
<1>1. ProcessTypeOK'
  BY DEF ProcessInv, ProcessTypeOK, RunReturns, Alive, goroutines, observed
<1>2. StartInv' /\ ResourceInv' /\ WorkerInv' /\ ServerInv'
  BY DEF ProcessInv, ProcessTypeOK, ReturnInv, StartInv, ResourceInv, WorkerInv, ServerInv, Starting, Ending, ProviderOn,
         RunReturns, Alive, goroutines, observed
<1>3. ReturnInv'
  BY DEF ProcessInv, ProcessTypeOK, ReturnInv, StartInv, ResourceInv, WorkerInv, ServerInv, Starting, Ending, ProviderOn,
         RunReturns, Alive, goroutines, observed
<1> QED BY <1>1, <1>2, <1>3 DEF ProcessInv

\* Listen: the server listens only while run is in its select.
LEMMA ListenInv ==
  ASSUME ProcessInv, Listen
  PROVE  ProcessInv'
<1>1. ProcessTypeOK'
  BY DEF ProcessInv, ProcessTypeOK, Listen, Alive, goroutines, observed
<1>2. StartInv' /\ ResourceInv' /\ WorkerInv' /\ ServerInv'
  BY DEF ProcessInv, ProcessTypeOK, ReturnInv, StartInv, ResourceInv, WorkerInv, ServerInv, Starting, Ending, ProviderOn,
         Listen, Alive, goroutines, observed
<1>3. ReturnInv'
  BY DEF ProcessInv, ProcessTypeOK, ReturnInv, StartInv, ResourceInv, WorkerInv, ServerInv, Starting, Ending, ProviderOn,
         Listen, Alive, goroutines, observed
<1> QED BY <1>1, <1>2, <1>3 DEF ProcessInv

\* ListenAndServeReturns: ErrServerClosed is sent only after Shutdown.
LEMMA ListenAndServeReturnsInv ==
  ASSUME ProcessInv, ListenAndServeReturns
  PROVE  ProcessInv'
<1>1. ProcessTypeOK'
  BY DEF ProcessInv, ProcessTypeOK, ListenAndServeReturns, Alive, goroutines, observed
<1>2. StartInv' /\ ResourceInv' /\ WorkerInv' /\ ServerInv'
  BY DEF ProcessInv, ProcessTypeOK, ReturnInv, StartInv, ResourceInv, WorkerInv, ServerInv, Starting, Ending, ProviderOn,
         ListenAndServeReturns, Alive, goroutines, observed
<1>3. ReturnInv'
  BY DEF ProcessInv, ProcessTypeOK, ReturnInv, StartInv, ResourceInv, WorkerInv, ServerInv, Starting, Ending, ProviderOn,
         ListenAndServeReturns, Alive, goroutines, observed
<1> QED BY <1>1, <1>2, <1>3 DEF ProcessInv

\* Accept: a connection is accepted only while the server listens.
LEMMA AcceptInv ==
  ASSUME ProcessInv, NEW q \in Handlers, Accept(q)
  PROVE  ProcessInv'
<1>1. ProcessTypeOK'
  BY DEF ProcessInv, ProcessTypeOK, Accept, Alive, goroutines, observed
<1>2. StartInv' /\ ResourceInv' /\ WorkerInv' /\ ServerInv'
  BY DEF ProcessInv, ProcessTypeOK, ReturnInv, StartInv, ResourceInv, WorkerInv, ServerInv, Starting, Ending, ProviderOn,
         Accept, Alive, goroutines, observed
<1>3. ReturnInv'
  BY DEF ProcessInv, ProcessTypeOK, ReturnInv, StartInv, ResourceInv, WorkerInv, ServerInv, Starting, Ending, ProviderOn,
         Accept, Alive, goroutines, observed
<1> QED BY <1>1, <1>2, <1>3 DEF ProcessInv

\* StartHandler: after a clean stop no connection is left to serve.
LEMMA StartHandlerInv ==
  ASSUME ProcessInv, NEW q \in Handlers, StartHandler(q)
  PROVE  ProcessInv'
<1>1. ProcessTypeOK'
  BY DEF ProcessInv, ProcessTypeOK, StartHandler, Alive, goroutines, observed
<1>2. StartInv' /\ ResourceInv' /\ WorkerInv' /\ ServerInv'
  BY DEF ProcessInv, ProcessTypeOK, ReturnInv, StartInv, ResourceInv, WorkerInv, ServerInv, Starting, Ending, ProviderOn,
         StartHandler, Alive, goroutines, observed
<1>3. ReturnInv'
  BY DEF ProcessInv, ProcessTypeOK, ReturnInv, StartInv, ResourceInv, WorkerInv, ServerInv, Starting, Ending, ProviderOn,
         StartHandler, Alive, goroutines, observed
<1> QED BY <1>1, <1>2, <1>3 DEF ProcessInv

\* Disconnect: nothing is in flight on a connection without a request.
LEMMA DisconnectInv ==
  ASSUME ProcessInv, NEW q \in Handlers, Disconnect(q)
  PROVE  ProcessInv'
<1>1. ProcessTypeOK'
  BY DEF ProcessInv, ProcessTypeOK, Disconnect, Alive, goroutines, observed
<1>2. StartInv' /\ ResourceInv' /\ WorkerInv' /\ ServerInv'
  BY DEF ProcessInv, ProcessTypeOK, ReturnInv, StartInv, ResourceInv, WorkerInv, ServerInv, Starting, Ending, ProviderOn,
         Disconnect, Alive, goroutines, observed
<1>3. ReturnInv'
  BY DEF ProcessInv, ProcessTypeOK, ReturnInv, StartInv, ResourceInv, WorkerInv, ServerInv, Starting, Ending, ProviderOn,
         Disconnect, Alive, goroutines, observed
<1> QED BY <1>1, <1>2, <1>3 DEF ProcessInv

\* HandlerEnds: after a clean stop no handler is left to end.
LEMMA HandlerEndsInv ==
  ASSUME ProcessInv, NEW q \in Handlers, HandlerEnds(q)
  PROVE  ProcessInv'
<1>1. ProcessTypeOK'
  BY DEF ProcessInv, ProcessTypeOK, HandlerEnds, EndSpan, Fates, Spans, Alive, goroutines, observed
<1>2. StartInv' /\ ResourceInv' /\ WorkerInv' /\ ServerInv'
  BY DEF ProcessInv, ProcessTypeOK, ReturnInv, StartInv, ResourceInv, WorkerInv, ServerInv, Starting, Ending, ProviderOn,
         HandlerEnds, EndSpan, Fates, Spans, Alive, goroutines, observed
<1>3. ReturnInv'
  <2>1. q \in Spans /\ q # Batch /\ Batch \in Spans
    BY BatchSpan
  <2>2. code # "ok" /\ code' = code /\ main' = main /\ worker' = worker /\ provider' = provider
    BY DEF ProcessInv, ReturnInv, HandlerEnds
  <2>3. span'[Batch] # "late"
    BY <2>1, EndSpanInTime DEF ProcessInv, ReturnInv, HandlerEnds
  <2>4. provider # "off" => \A s \in Spans : span'[s] # "late"
    BY <2>1, EndSpanInTime DEF ProcessInv, ReturnInv, HandlerEnds
  <2>5. main # "exited" => \A x \in Handlers : handler'[x] # "cut"
    BY DEF ProcessInv, ProcessTypeOK, ReturnInv, HandlerEnds
  <2> QED BY <2>2, <2>3, <2>4, <2>5 DEF ReturnInv
<1> QED BY <1>1, <1>2, <1>3 DEF ProcessInv

\* ExportBatch: an export only takes spans from the queue.
LEMMA ExportBatchInv ==
  ASSUME ProcessInv, ExportBatch
  PROVE  ProcessInv'
<1>1. ProcessTypeOK'
  BY DEF ProcessInv, ProcessTypeOK, ExportBatch, Export, Alive, goroutines, observed
<1>2. StartInv' /\ ResourceInv' /\ WorkerInv' /\ ServerInv'
  BY DEF ProcessInv, ProcessTypeOK, ReturnInv, StartInv, ResourceInv, WorkerInv, ServerInv, Starting, Ending, ProviderOn,
         ExportBatch, Export, Alive, goroutines, observed
<1>3. ReturnInv'
  BY ExportInTime, BatchSpan DEF ProcessInv, ProcessTypeOK, ReturnInv, StartInv, ResourceInv, WorkerInv, ServerInv, Starting, Ending, ProviderOn,
         ExportBatch, Alive, goroutines, observed
<1> QED BY <1>1, <1>2, <1>3 DEF ProcessInv

\* Every step keeps the invariant.
LEMMA StepInv == ProcessInv /\ [Next]_vars => ProcessInv'
<1> SUFFICES ASSUME ProcessInv, [Next]_vars PROVE ProcessInv'
  OBVIOUS
<1>1. CASE MainStep
  BY <1>1, StartTracingInv, ConfigureInv, ConnectInv, StartGoroutinesInv, BeginShutdownInv, ServerFailedInv, ShutdownCompletesInv, ShutdownTimesOutInv, StopInv, WorkerStoppedInv, CloseDatabaseInv, FlushInv, ExitInv DEF MainStep
<1>2. CASE UNCHANGED vars
  BY <1>2 DEF vars, ProcessInv, ProcessTypeOK, ReturnInv, StartInv, ResourceInv, WorkerInv, ServerInv, Starting, Ending, ProviderOn
<1> QED BY <1>1, <1>2, SignalInv, KillInv, BatchEndsInv, TickInv, RunReturnsInv, ListenInv, ListenAndServeReturnsInv, AcceptInv, StartHandlerInv, DisconnectInv, HandlerEndsInv, ExportBatchInv DEF Next, Exited

\* The invariant holds in every reachable state.
LEMMA ProcessInvariant == Spec => []ProcessInv
BY InitInv, StepInv, PTL DEF Spec

\* The deferred calls of run take the pool and the provider down only after the
\* worker has stopped and the listener is closed, on every path, for any number
\* of requests and wherever a signal or a failure of the server falls.
THEOREM ResourcesAreSafe == Spec => []ResourcesOutliveUsers
<1>1. ProcessInv => ResourcesOutliveUsers
  BY DEF ProcessInv, ProcessTypeOK, ResourcesOutliveUsers, Alive, WorkerActive, StartInv, ResourceInv, WorkerInv, ServerInv, Starting, Ending, ProviderOn
<1> QED BY <1>1, ProcessInvariant, PTL

\* run returns nil only when the worker stopped and every request it served was
\* answered with the pool open.
THEOREM CleanStopIsDrained == Spec => []CleanStopDrains
<1>1. ProcessInv => CleanStopDrains
  BY DEF ProcessInv, ProcessTypeOK, CleanStopDrains, ReturnInv, StartInv, ResourceInv, WorkerInv, ServerInv, Starting, Ending, ProviderOn
<1> QED BY <1>1, ProcessInvariant, PTL

\* The deferred calls of run shut the provider down after the last span of the
\* worker, on every path, and, where run returns nil, after the last span of
\* every request.
THEOREM SpansAreInTime == Spec => []SpansEndInTime
<1>1. ProcessInv => SpansEndInTime
  BY DEF ProcessInv, SpansEndInTime, ReturnInv, Spans
<1> QED BY <1>1, ProcessInvariant, PTL

\* Type correctness of the process.
THEOREM ProcessTypeCorrect == Spec => []ProcessTypeOK
<1>1. ProcessInv => ProcessTypeOK
  BY DEF ProcessInv
<1> QED BY <1>1, ProcessInvariant, PTL
====
