------------------------------ MODULE Lifecycle ------------------------------
(***************************************************************************)
(* The life of the app's process: the lifespan handler, setup_otel and     *)
(* shutdown_otel with the two providers they keep, the readiness flag, and *)
(* what becomes of the telemetry of the requests served in between.        *)
(*                                                                         *)
(* A lifespan is named by its number, and so is a provider, by the         *)
(* lifespan that made it; 0 stands for None.  The lifespan handler runs no *)
(* await before or after its yield: startup and shutdown are one step.     *)
(* A new process starts from Init: nothing outlives the one that is killed *)
(* or exits.  A host may also enter the lifespan again, as the tests do.   *)
(***************************************************************************)
EXTENDS Naturals, FiniteSets

CONSTANTS
    Requests,     \* requests that reach the gateway, one record per signal each
    MaxStarts,    \* bound on the lifespans of one process
    QueueLimit,   \* spans the BatchSpanProcessor holds, 2048 by default
    SetupFaults,  \* signals whose exporter may fail to be constructed
    Disabled      \* OTEL_SDK_DISABLED

Signals == {"traces", "metrics"}

ASSUME StartsAssumption == MaxStarts \in Nat /\ QueueLimit \in Nat
ASSUME SetupAssumption == SetupFaults \subseteq Signals
ASSUME FlagAssumption == Disabled \in BOOLEAN

VARIABLES
    phase,         \* down, serving, draining (after SIGTERM), stopped or failed
    starts,        \* lifespans begun so far
    stops,         \* history: lifespans shut down so far
    ready,         \* _ready of health.py
    instrumented,  \* whether the app carries the FastAPI instrumentation
    module,        \* _tracer_provider and _meter_provider of otel_setup.py
    global,        \* the providers OTel's own globals hold, set once a process
    running,       \* signal -> providers that collect and export
    inflight,      \* requests being served
    served,        \* requests that have been served
    queue,         \* signal -> records not exported yet
    exported,      \* signal -> records the backend has
    excused        \* history, signal -> records dropped by a full queue

otel == <<module, global, running>>
requests == <<inflight, served>>
records == <<queue, exported, excused>>
vars == <<phase, starts, stops, ready, instrumented, otel, requests, records>>

Each(v) == [s \in Signals |-> v]

Init ==
    /\ phase = "down"
    /\ starts = 0 /\ stops = 0
    /\ ready = FALSE
    /\ instrumented = FALSE
    /\ module = Each(0) /\ global = Each(0) /\ running = Each({})
    /\ inflight = {} /\ served = {}
    /\ queue = Each({}) /\ exported = Each({}) /\ excused = Each({})
-----------------------------------------------------------------------------
\* mutant: no guard against a second initialisation.
SetupNeverSkipped == Disabled

\* setup_otel does nothing a second time: it looks at the tracer provider.
SetupSkipped == module["traces"] # 0 \/ Disabled

\* The signals whose provider is complete when the exporter of fault, or
\* none, cannot be built: traces come first.
Completed(fault) ==
    CASE fault = "none" -> Signals
      [] fault = "metrics" -> {"traces"}
      [] fault = "traces" -> {}

\* The tracer provider is kept before its exporter is built.  OTel's globals
\* are set once: a second registration is ignored.
Setup(n, fault) ==
    /\ module' = [s \in Signals |->
         IF s = "traces" \/ s \in Completed(fault) THEN n ELSE module[s]]
    /\ running' = [s \in Signals |->
         IF s \in Completed(fault) THEN running[s] \cup {n} ELSE running[s]]
    /\ global' = [s \in Signals |->
         IF s \in Completed(fault) /\ global[s] = 0 THEN n ELSE global[s]]

Started ==
    /\ phase' = "serving"
    /\ ready' = TRUE
    /\ instrumented' = TRUE

\* mutant: the flag is set before the providers are built.
StartReadyFirst ==
    /\ phase = "down"
    /\ starts' = starts + 1
    /\ \/ SetupSkipped /\ UNCHANGED otel /\ Started
       \/ ~SetupSkipped /\ Setup(starts', "none") /\ Started
       \/ \E s \in SetupFaults : /\ ~SetupSkipped /\ Setup(starts', s)
                                 /\ phase' = "failed" /\ ready' = TRUE
                                 /\ UNCHANGED instrumented
    /\ UNCHANGED <<stops, requests, records>>

\* The lifespan up to its yield.  An exporter that cannot be built ends it
\* with the exception, before the flag is set.
Start ==
    /\ phase = "down"
    /\ starts' = starts + 1
    /\ \/ SetupSkipped /\ UNCHANGED otel /\ Started
       \/ ~SetupSkipped /\ Setup(starts', "none") /\ Started
       \/ \E s \in SetupFaults : /\ ~SetupSkipped /\ Setup(starts', s)
                                 /\ phase' = "failed"
                                 /\ UNCHANGED <<ready, instrumented>>
    /\ UNCHANGED <<stops, requests, records>>

-----------------------------------------------------------------------------
Accept(r) ==
    /\ phase = "serving" /\ r \notin inflight \cup served
    /\ inflight' = inflight \cup {r}
    /\ UNCHANGED <<phase, starts, stops, ready, instrumented, otel, served, records>>

\* The tracer and the instruments of the gateway belong to OTel's globals; a
\* record of a provider that collects no more is dropped.
Collects(s) == global[s] \in running[s]
Full(s) == s = "traces" /\ Cardinality(queue[s]) >= QueueLimit

\* A request ends, and with it its span; its metrics are recorded.
Finish(r) ==
    /\ r \in inflight
    /\ inflight' = inflight \ {r}
    /\ served' = served \cup {r}
    /\ queue' = [s \in Signals |->
         IF Collects(s) /\ ~Full(s) THEN queue[s] \cup {r} ELSE queue[s]]
    /\ excused' = [s \in Signals |->
         IF Collects(s) /\ Full(s) THEN excused[s] \cup {r} ELSE excused[s]]
    /\ UNCHANGED <<phase, starts, stops, ready, instrumented, otel, exported>>

\* The background thread of a provider exports what has been collected.
Export(s) ==
    /\ queue[s] # {}
    /\ exported' = [exported EXCEPT ![s] = @ \cup queue[s]]
    /\ queue' = [queue EXCEPT ![s] = {}]
    /\ UNCHANGED <<phase, starts, stops, ready, instrumented, otel, requests, excused>>
-----------------------------------------------------------------------------
\* The server stops accepting and waits for the requests in flight.
Sigterm ==
    /\ phase = "serving"
    /\ phase' = "draining"
    /\ UNCHANGED <<starts, stops, ready, instrumented, otel, requests, records>>

\* mutant: only the tracer provider is shut down.
ShutdownTracesOnly ==
    /\ running' = [running EXCEPT !["traces"] = @ \ {module["traces"]}]
    /\ exported' = [exported EXCEPT !["traces"] = @ \cup queue["traces"]]
    /\ queue' = Each({})
    /\ module' = Each(0)
    /\ UNCHANGED global

\* mutant: the providers of OTel's globals are shut down, not the module's.
ShutdownGlobals ==
    /\ running' = [s \in Signals |-> running[s] \ {global[s]}]
    /\ exported' = [s \in Signals |-> exported[s] \cup queue[s]]
    /\ queue' = Each({})
    /\ module' = Each(0)
    /\ UNCHANGED global

\* shutdown_otel: each provider the module keeps flushes and stops.  What a
\* queue holds belongs to the provider in OTel's globals.
ShutdownOtel ==
    /\ running' = [s \in Signals |-> running[s] \ {module[s]}]
    /\ exported' = [s \in Signals |->
         IF module[s] # 0 /\ module[s] = global[s] THEN exported[s] \cup queue[s]
                                                   ELSE exported[s]]
    /\ queue' = [s \in Signals |->
         IF module[s] # 0 /\ module[s] = global[s] THEN {} ELSE queue[s]]
    /\ module' = Each(0)
    /\ UNCHANGED global

\* The lifespan after its yield, which the server resumes once the last
\* request is over.
Stop ==
    /\ phase = "draining" /\ inflight = {}
    /\ phase' = "stopped"
    /\ stops' = stops + 1
    /\ ready' = FALSE
    /\ instrumented' = FALSE
    /\ ShutdownOtel
    /\ UNCHANGED <<starts, requests, excused>>

\* The lifespan is over, or has failed to start, and its host enters it again.
Again ==
    /\ phase \in {"stopped", "failed"} /\ starts < MaxStarts
    /\ phase' = "down"
    /\ UNCHANGED <<starts, stops, ready, instrumented, otel, requests, records>>

Next ==
    \/ Start \/ Sigterm \/ Stop \/ Again
    \/ \E r \in Requests : Accept(r) \/ Finish(r)
    \/ \E s \in Signals : Export(s)

Spec == Init /\ [][Next]_vars
-----------------------------------------------------------------------------
\* otel_setup.py: "Without this, the last N seconds of spans (...) and the last
\* metric export cycle are silently lost".  When the first lifespan to be shut
\* down is over, every record of every request served is with the backend,
\* unless it met a full queue.  The starts that failed before it cost no more
\* than the signals that were not registered by then.
StopLosesNothing ==
    phase = "stopped" /\ stops = 1 /\ ~Disabled =>
        \A s \in Signals : \/ served = exported[s] \cup excused[s]
                           \/ starts > 1 /\ global[s] = 0

\* otel_setup.py: "Flush in-flight telemetry and shut down all providers
\* cleanly".  Every shutdown is complete, not only the first: whichever half a
\* failed start has left behind, and whether or not the gateway records to the
\* providers of this lifespan, none is at work and nothing collected waits.
StopsAreComplete ==
    phase = "stopped" => \A s \in Signals : running[s] = {} /\ queue[s] = {}

\* otel_setup.py: the guard "prevents double-initialisation".  However often the
\* lifespan is entered in one process, and wherever it failed before, no
\* signal has two exporters at work.
OneExporterPerSignal == \A s \in Signals : Cardinality(running[s]) <= 1

\* health.py: "200 when startup is complete, 503 otherwise"; and the HTTP spans
\* are on exactly as long as the flag is.
ReadyWhileServing ==
    /\ ready <=> phase \in {"serving", "draining"}
    /\ ready <=> instrumented

\* health.py: "False as the first action during shutdown so the load balancer
\* can drain traffic before teardown proceeds".  A server that has been told
\* to stop and still has requests to finish says that it is not ready.
DrainSignalled == phase = "draining" /\ inflight # {} => ~ready
=============================================================================
