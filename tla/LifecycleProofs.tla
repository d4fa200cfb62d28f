--------------------------- MODULE LifecycleProofs ---------------------------
(***************************************************************************)
(* Proofs about the lifespan and its providers, for any requests, number   *)
(* of lifespans, queue length and failing exporters.                       *)
(***************************************************************************)
EXTENDS Lifecycle, FiniteSetTheorems, TLAPS

Phases == {"down", "serving", "draining", "stopped", "failed"}

TypeOK ==
    /\ phase \in Phases
    /\ starts \in Nat /\ stops \in Nat
    /\ module \in [Signals -> Nat] /\ global \in [Signals -> Nat]
    /\ running \in [Signals -> SUBSET Nat]
    /\ inflight \in SUBSET Requests /\ served \in SUBSET Requests
    /\ queue \in [Signals -> SUBSET Requests]
    /\ exported \in [Signals -> SUBSET Requests]
    /\ excused \in [Signals -> SUBSET Requests]

(***************************************************************************)
(* The three ways a lifespan begins.                                       *)
(***************************************************************************)

Begins(n, fault) ==
    /\ ~SetupSkipped /\ Setup(n, fault)
    /\ IF fault = "none" THEN Started
       ELSE phase' = "failed" /\ UNCHANGED <<ready, instrumented>>

Faults == Signals \cup {"none"}

LEMMA StartCases ==
    ASSUME Start
    PROVE  /\ phase = "down" /\ starts' = starts + 1
           /\ UNCHANGED <<stops, requests, records>>
           /\ \/ SetupSkipped /\ Started /\ UNCHANGED otel
              \/ \E fault \in Faults : Begins(starts', fault)
<1>1. CASE \E s \in SetupFaults : /\ ~SetupSkipped /\ Setup(starts', s)
                                  /\ phase' = "failed"
                                  /\ UNCHANGED <<ready, instrumented>>
  <2>1. PICK s \in SetupFaults : /\ ~SetupSkipped /\ Setup(starts', s)
                                 /\ phase' = "failed"
                                 /\ UNCHANGED <<ready, instrumented>>
    BY <1>1
  <2>2. s \in Faults /\ s # "none"
    BY SetupAssumption DEF Faults, Signals
  <2>3. QED
    BY <2>1, <2>2 DEF Start, Begins
<1>2. QED
  BY <1>1 DEF Start, Begins, Faults

LEMMA SetupType ==
    ASSUME TypeOK, NEW n \in Nat, NEW fault, Setup(n, fault)
    PROVE  /\ module' \in [Signals -> Nat] /\ global' \in [Signals -> Nat]
           /\ running' \in [Signals -> SUBSET Nat]
BY DEF TypeOK, Setup

LEMMA TypeInit == Init => TypeOK
<1>1. Each(0) \in [Signals -> Nat] /\ Each({}) \in [Signals -> SUBSET Nat]
      /\ Each({}) \in [Signals -> SUBSET Requests]
  BY DEF Each
<1>2. QED
  BY <1>1 DEF Init, TypeOK, Phases

LEMMA TypeNext == TypeOK /\ [Next]_vars => TypeOK'
<1> SUFFICES ASSUME TypeOK, [Next]_vars PROVE TypeOK'
  OBVIOUS
<1>1. CASE UNCHANGED vars
  BY <1>1 DEF vars, otel, requests, records, TypeOK
<1>2. CASE Start
  <2>1. /\ starts' \in Nat /\ phase' \in Phases
        /\ UNCHANGED <<stops, inflight, served, queue, exported, excused>>
    <3>1. phase' \in {"serving", "failed"}
      BY <1>2, StartCases DEF Begins, Started
    <3>2. starts' = starts + 1 /\ UNCHANGED <<stops, inflight, served, queue, exported, excused>>
      BY <1>2, StartCases DEF requests, records
    <3>3. QED
      BY <3>1, <3>2 DEF TypeOK, Phases
  <2>2. /\ module' \in [Signals -> Nat] /\ global' \in [Signals -> Nat]
        /\ running' \in [Signals -> SUBSET Nat]
    BY <1>2, <2>1, StartCases, SetupType DEF TypeOK, Begins, otel
  <2>3. QED
    BY <2>1, <2>2 DEF TypeOK
<1>3. CASE Sigterm \/ Again
  BY <1>3 DEF Sigterm, Again, TypeOK, Phases, otel, requests, records
<1>4. CASE Stop
  BY <1>4 DEF Stop, ShutdownOtel, TypeOK, Phases, Each, requests
<1>5. ASSUME NEW r \in Requests, Accept(r) PROVE TypeOK'
  BY <1>5 DEF Accept, TypeOK, otel, records
<1>6. ASSUME NEW r \in Requests, Finish(r) PROVE TypeOK'
  BY <1>6 DEF Finish, TypeOK, otel
<1>7. ASSUME NEW s \in Signals, Export(s) PROVE TypeOK'
  BY <1>7 DEF Export, TypeOK, otel, requests
<1>8. QED
  BY <1>1, <1>2, <1>3, <1>4, <1>5, <1>6, <1>7 DEF Next

(***************************************************************************)
(* Readiness follows the phase from step to step.                          *)
(***************************************************************************)

LEMMA ReadyNext == TypeOK /\ ReadyWhileServing /\ [Next]_vars => ReadyWhileServing'
<1> SUFFICES ASSUME TypeOK, ReadyWhileServing, [Next]_vars PROVE ReadyWhileServing'
  OBVIOUS
<1> USE DEF ReadyWhileServing
<1>1. CASE UNCHANGED vars
  BY <1>1 DEF vars
<1>2. CASE Start
  BY <1>2, StartCases DEF Begins, Started
<1>3. CASE Sigterm \/ Stop \/ Again
  BY <1>3 DEF Sigterm, Stop, Again
<1>4. CASE \/ \E r \in Requests : Accept(r) \/ Finish(r)
           \/ \E s \in Signals : Export(s)
  BY <1>4 DEF Accept, Finish, Export
<1>5. QED
  BY <1>1, <1>2, <1>3, <1>4 DEF Next

\* However often the lifespan is entered and wherever a start fails, the probe
\* says ready, and HTTP requests are traced, from the end of a startup to the
\* beginning of its shutdown and at no other time.
THEOREM ReadinessFollowsLifespan == Spec => []ReadyWhileServing
<1>1. Init => ReadyWhileServing
  BY DEF Init, ReadyWhileServing
<1>2. QED
  BY <1>1, TypeInit, TypeNext, ReadyNext, PTL DEF Spec

(***************************************************************************)
(* Exporters.  A provider at work is the one the module keeps, so that the *)
(* guard, which looks at the tracer provider alone, sees both: no meter    *)
(* provider is ever kept without one.                                      *)
(***************************************************************************)

OnlyKept ==
    /\ \A s \in Signals : running[s] \subseteq {module[s]} \ {0}
    /\ module["traces"] = 0 => module["metrics"] = 0

LEMMA SetupKeeps ==
    ASSUME TypeOK, OnlyKept, NEW n \in Nat \ {0}, NEW fault \in Faults,
           ~SetupSkipped, Setup(n, fault)
    PROVE  OnlyKept'
<1>1. \A s \in Signals : module[s] = 0 /\ running[s] = {}
  BY DEF SetupSkipped, OnlyKept, Signals
<1>2. Completed(fault) \subseteq Signals
  BY DEF Completed, Faults, Signals
<1>3. \A s \in Signals : /\ module'[s] \in {0, n}
                         /\ s \in Completed(fault) => module'[s] = n
                         /\ running'[s] = IF s \in Completed(fault) THEN {n} ELSE {}
  BY <1>1 DEF Setup
<1>4. module'["traces"] = n
  BY DEF Setup, Signals
<1>5. QED
  BY <1>3, <1>4 DEF OnlyKept, Signals

LEMMA OnlyKeptNext == TypeOK /\ OnlyKept /\ [Next]_vars => OnlyKept'
<1> SUFFICES ASSUME TypeOK, OnlyKept, [Next]_vars PROVE OnlyKept'
  OBVIOUS
<1>1. CASE Start
  <2>1. starts' \in Nat \ {0}
    BY <1>1 DEF Start, TypeOK
  <2>2. QED
    BY <1>1, <2>1, StartCases, SetupKeeps DEF Begins, otel, OnlyKept
<1>2. CASE Stop
  BY <1>2 DEF Stop, ShutdownOtel, OnlyKept, TypeOK, Each, Signals
<1>3. CASE UNCHANGED otel
  BY <1>3 DEF otel, OnlyKept
<1>4. QED
  BY <1>1, <1>2, <1>3 DEF Next, vars, Sigterm, Again, Accept, Finish, Export

LEMMA AtMostOne ==
    ASSUME TypeOK, OnlyKept
    PROVE  OneExporterPerSignal
<1> SUFFICES ASSUME NEW s \in Signals PROVE Cardinality(running[s]) <= 1
  BY DEF OneExporterPerSignal
<1>1. IsFiniteSet({module[s]}) /\ Cardinality({module[s]}) = 1
  BY FS_Singleton
<1>2. running[s] \subseteq {module[s]}
  BY DEF OnlyKept
<1>3. QED
  BY <1>1, <1>2, FS_Subset

\* However often the lifespan is entered in one process, and at whichever
\* exporter it failed before, no signal is exported twice.
THEOREM ExportedOnce == Spec => []OneExporterPerSignal
<1>1. Init => OnlyKept
  BY DEF Init, OnlyKept, Each, Signals
<1>2. TypeOK /\ OnlyKept => OneExporterPerSignal
  BY AtMostOne
<1>3. QED
  BY <1>1, <1>2, TypeInit, TypeNext, OnlyKeptNext, PTL DEF Spec

(***************************************************************************)
(* Every shutdown.  What waits in a queue belongs to the provider that     *)
(* both the module and OTel's globals hold, so that the module's shutdown  *)
(* flushes it.                                                             *)
(***************************************************************************)

Held ==
    /\ \A s \in Signals : queue[s] # {} => module[s] # 0 /\ module[s] = global[s]
    /\ StopsAreComplete

LEMMA HeldNext == TypeOK /\ OnlyKept /\ Held /\ [Next]_vars => Held'
<1> SUFFICES ASSUME TypeOK, OnlyKept, Held, [Next]_vars PROVE Held'
  OBVIOUS
<1> USE DEF Held, StopsAreComplete
<1>1. CASE UNCHANGED vars
  BY <1>1 DEF vars, otel, records
<1>2. CASE Start
  <2>1. UNCHANGED queue /\ phase' # "stopped"
    BY <1>2, StartCases DEF records, Begins, Started
  <2>2. CASE SetupSkipped
    <3>1. UNCHANGED otel
      BY <1>2, <2>2, StartCases DEF Begins
    <3>2. QED
      BY <2>1, <3>1 DEF otel
  <2>3. CASE ~SetupSkipped
    <3>1. \A s \in Signals : module[s] = 0
      BY <2>3 DEF SetupSkipped, OnlyKept, Signals
    <3>2. QED
      BY <2>1, <3>1
  <2>4. QED
    BY <2>2, <2>3
<1>3. CASE Sigterm \/ Again
  BY <1>3 DEF Sigterm, Again, otel, records
<1>4. CASE Stop
  <2>1. \A s \in Signals : running'[s] = {} /\ queue'[s] = {}
    BY <1>4 DEF Stop, ShutdownOtel, OnlyKept
  <2>2. QED
    BY <2>1
<1>5. ASSUME NEW r \in Requests, Accept(r) PROVE Held'
  BY <1>5 DEF Accept, otel, records
<1>6. ASSUME NEW r \in Requests, Finish(r) PROVE Held'
  <2>1. UNCHANGED <<phase, module, global, running>>
    BY <1>6 DEF Finish, otel
  <2>2. \A s \in Signals : queue'[s] = queue[s] \/ Collects(s)
    BY <1>6 DEF Finish
  <2>3. \A s \in Signals : Collects(s) => /\ module[s] # 0 /\ module[s] = global[s]
                                          /\ running[s] # {}
    BY DEF Collects, OnlyKept
  <2>4. QED
    BY <2>1, <2>2, <2>3
<1>7. ASSUME NEW s \in Signals, Export(s) PROVE Held'
  BY <1>7 DEF Export, otel, TypeOK
<1>8. QED
  BY <1>1, <1>2, <1>3, <1>4, <1>5, <1>6, <1>7 DEF Next

\* However often lifespans start, fail and stop in one process, after a
\* shutdown no exporter is at work and nothing collected waits.
THEOREM ShutdownsComplete == Spec => []StopsAreComplete
<1>1. Init => OnlyKept /\ Held
  BY DEF Init, OnlyKept, Held, StopsAreComplete, Each, Signals
<1>2. Held => StopsAreComplete
  BY DEF Held
<1>3. QED
  BY <1>1, <1>2, TypeInit, TypeNext, OnlyKeptNext, HeldNext, PTL DEF Spec

(***************************************************************************)
(* The records up to the first shutdown.  Until then a signal is either    *)
(* not registered or its provider is at work under the name OTel's globals *)
(* know it by, and every request served is in its queue, exported or       *)
(* excused.                                                                *)
(***************************************************************************)

Balanced(s) == served = queue[s] \cup exported[s] \cup excused[s]

AtWork(s) == global[s] # 0 /\ module[s] = global[s] /\ running[s] = {global[s]}

Unregistered(s) == global[s] = 0 /\ running[s] = {}

UntilFirstStop ==
    stops = 0 =>
      /\ phase # "stopped"
      /\ starts = 0 => \A s \in Signals : module[s] = 0
      /\ \A s \in Signals : AtWork(s) \/ Unregistered(s)
      /\ phase \in {"down", "failed"} => inflight = {} /\ \A s \in Signals : Balanced(s)
      /\ phase \in {"serving", "draining"} =>
           \A s \in Signals : (AtWork(s) /\ Balanced(s)) \/ (starts > 1 /\ Unregistered(s))

AtFirstStop ==
    stops = 1 /\ phase = "stopped" =>
      /\ inflight = {}
      /\ \A s \in Signals : /\ queue[s] = {}
                            /\ Balanced(s) \/ (starts > 1 /\ global[s] = 0)

FirstStop == UntilFirstStop /\ AtFirstStop

\* A setup before the first shutdown finds nothing registered.
LEMMA FirstSetup ==
    ASSUME TypeOK, OnlyKept, UntilFirstStop, stops = 0, NEW n \in Nat \ {0},
           NEW fault \in Faults, ~SetupSkipped, Setup(n, fault)
    PROVE  /\ \A s \in Completed(fault) : AtWork(s)'
           /\ \A s \in Signals \ Completed(fault) : Unregistered(s)'
<1>1. \A s \in Signals : module[s] = 0 /\ global[s] = 0 /\ running[s] = {}
  BY DEF SetupSkipped, OnlyKept, UntilFirstStop, AtWork, Unregistered, Signals
<1>2. Completed(fault) \subseteq Signals
  BY DEF Completed, Faults, Signals
<1>3. QED
  BY <1>1, <1>2 DEF Setup, AtWork, Unregistered

LEMMA FirstStart ==
    ASSUME ~Disabled, TypeOK, OnlyKept, FirstStop, Start
    PROVE  FirstStop'
<1>1. /\ phase = "down" /\ starts' = starts + 1 /\ phase' \in {"serving", "failed"}
      /\ UNCHANGED <<stops, inflight, served, queue, exported, excused>>
  BY StartCases DEF requests, records, Begins, Started
<1>2. starts \in Nat /\ starts' \in Nat \ {0}
  BY <1>1 DEF TypeOK
<1>3. AtFirstStop'
  BY <1>1 DEF AtFirstStop
<1>4. CASE stops # 0
  BY <1>1, <1>3, <1>4 DEF UntilFirstStop, FirstStop
<1>5. ASSUME stops = 0, SetupSkipped, Started, UNCHANGED otel PROVE UntilFirstStop'
  <2>1. starts # 0
    BY <1>5 DEF SetupSkipped, FirstStop, UntilFirstStop, Signals
  <2>2. /\ \A s \in Signals : Balanced(s)'
        /\ \A s \in Signals : AtWork(s)' \/ Unregistered(s)'
    BY <1>1, <1>5 DEF FirstStop, UntilFirstStop, otel, Balanced, AtWork, Unregistered
  <2>3. starts' > 1 /\ phase' = "serving"
    BY <1>1, <1>2, <1>5, <2>1 DEF Started
  <2>4. QED
    BY <2>2, <2>3 DEF UntilFirstStop
<1>6. ASSUME stops = 0, NEW fault \in Faults, Begins(starts', fault) PROVE UntilFirstStop'
  <2>1. /\ \A s \in Completed(fault) : AtWork(s)'
        /\ \A s \in Signals \ Completed(fault) : Unregistered(s)'
    BY <1>2, <1>6, FirstSetup DEF Begins, FirstStop
  <2>2. inflight' = {} /\ \A s \in Signals : Balanced(s)'
    BY <1>1, <1>6 DEF FirstStop, UntilFirstStop, Balanced
  <2>3. phase' = "serving" => Completed(fault) = Signals
    BY <1>6 DEF Begins, Completed
  <2>4. QED
    BY <1>1, <1>2, <2>1, <2>2, <2>3 DEF UntilFirstStop
<1>7. QED
  BY <1>3, <1>4, <1>5, <1>6, StartCases DEF FirstStop

LEMMA FirstShutdown ==
    ASSUME TypeOK, OnlyKept, Held, FirstStop, Stop
    PROVE  FirstStop'
<1>1. /\ phase = "draining" /\ inflight = {} /\ phase' = "stopped" /\ stops' = stops + 1
      /\ UNCHANGED <<starts, inflight, served, excused, global>>
  BY DEF Stop, ShutdownOtel, requests
<1>2. stops \in Nat
  BY DEF TypeOK
<1>3. UntilFirstStop'
  BY <1>1, <1>2 DEF UntilFirstStop
<1>4. ASSUME stops = 0, NEW s \in Signals
      PROVE  queue'[s] = {} /\ (Balanced(s)' \/ (starts' > 1 /\ global'[s] = 0))
  <2>1. (AtWork(s) /\ Balanced(s)) \/ (starts > 1 /\ Unregistered(s))
    BY <1>1, <1>4 DEF FirstStop, UntilFirstStop
  <2>2. queue'[s] = {}
    BY DEF Stop, ShutdownOtel, Held
  <2>3. CASE AtWork(s) /\ Balanced(s)
    <3>1. exported'[s] = exported[s] \cup queue[s]
      BY <2>3 DEF Stop, ShutdownOtel, AtWork
    <3>2. QED
      BY <1>1, <2>2, <2>3, <3>1 DEF Balanced
  <2>4. QED
    BY <1>1, <2>1, <2>2, <2>3 DEF Unregistered
<1>5. AtFirstStop'
  BY <1>1, <1>2, <1>4 DEF AtFirstStop
<1>6. QED
  BY <1>3, <1>5 DEF FirstStop

LEMMA FirstFinish ==
    ASSUME TypeOK, OnlyKept, FirstStop, NEW r \in Requests, Finish(r)
    PROVE  FirstStop'
<1>1. /\ r \in inflight /\ inflight' = inflight \ {r} /\ served' = served \cup {r}
      /\ UNCHANGED <<phase, starts, stops, module, global, running, exported>>
  BY DEF Finish, otel
<1>2. ASSUME NEW s \in Signals, AtWork(s), Balanced(s) PROVE Balanced(s)'
  <2>1. Collects(s)
    BY <1>2 DEF Collects, AtWork
  <2>2. queue'[s] \cup excused'[s] = queue[s] \cup excused[s] \cup {r}
    BY <2>1 DEF Finish
  <2>3. QED
    BY <1>1, <1>2, <2>2 DEF Balanced
<1>3. \A s \in Signals : /\ AtWork(s) => AtWork(s)'
                         /\ Unregistered(s) => Unregistered(s)'
  BY <1>1 DEF AtWork, Unregistered
<1>4. AtFirstStop'
  BY <1>1 DEF FirstStop, AtFirstStop
<1>5. UntilFirstStop'
  <2>1. CASE stops # 0
    BY <1>1, <2>1 DEF UntilFirstStop
  <2>2. CASE stops = 0
    <3>1. phase \in {"serving", "draining"}
      BY <1>1, <2>2 DEF FirstStop, UntilFirstStop, TypeOK, Phases
    <3>2. QED
      BY <1>1, <1>2, <1>3, <2>2, <3>1 DEF FirstStop, UntilFirstStop
  <2>3. QED
    BY <2>1, <2>2
<1>6. QED
  BY <1>4, <1>5 DEF FirstStop

LEMMA FirstNext ==
    ASSUME ~Disabled
    PROVE  TypeOK /\ OnlyKept /\ Held /\ FirstStop /\ [Next]_vars => FirstStop'
<1> SUFFICES ASSUME TypeOK, OnlyKept, Held, FirstStop, [Next]_vars PROVE FirstStop'
  OBVIOUS
<1>1. CASE UNCHANGED <<starts, stops, otel, served, records>> /\ inflight' = inflight
           /\ (phase' = phase \/ Sigterm \/ Again)
  <2>1. \A s \in Signals : /\ AtWork(s) <=> AtWork(s)'
                           /\ Unregistered(s) <=> Unregistered(s)'
                           /\ Balanced(s) <=> Balanced(s)'
    BY <1>1 DEF otel, records, AtWork, Unregistered, Balanced
  <2>2. UNCHANGED <<starts, stops, inflight, module, global, queue>>
    BY <1>1 DEF otel, records
  <2>3. QED
    BY <1>1, <2>1, <2>2 DEF FirstStop, UntilFirstStop, AtFirstStop, Sigterm, Again
<1>2. CASE UNCHANGED vars \/ Sigterm \/ Again
  BY <1>1, <1>2 DEF vars, Sigterm, Again, requests
<1>3. CASE Start
  BY <1>3, FirstStart
<1>4. CASE Stop
  BY <1>4, FirstShutdown
<1>5. ASSUME NEW r \in Requests, Accept(r) PROVE FirstStop'
  <2>1. /\ phase = "serving" /\ phase' = phase
        /\ UNCHANGED <<starts, stops, module, global, running, served, queue, exported, excused>>
    BY <1>5 DEF Accept, otel, records
  <2>2. QED
    BY <2>1 DEF FirstStop, UntilFirstStop, AtFirstStop, AtWork, Unregistered, Balanced
<1>6. ASSUME NEW r \in Requests, Finish(r) PROVE FirstStop'
  BY <1>6, FirstFinish
<1>7. ASSUME NEW s \in Signals, Export(s) PROVE FirstStop'
  <2>1. /\ queue[s] # {} /\ queue' = [queue EXCEPT ![s] = {}]
        /\ exported' = [exported EXCEPT ![s] = @ \cup queue[s]]
        /\ UNCHANGED <<phase, starts, stops, module, global, running, inflight, served, excused>>
    BY <1>7 DEF Export, otel, requests
  <2>2. \A t \in Signals : /\ queue'[t] \cup exported'[t] = queue[t] \cup exported[t]
                           /\ queue[t] = {} => queue'[t] = {}
    BY <2>1 DEF TypeOK
  <2>3. QED
    BY <2>1, <2>2 DEF FirstStop, UntilFirstStop, AtFirstStop, AtWork, Unregistered, Balanced
<1>8. QED
  BY <1>2, <1>3, <1>4, <1>5, <1>6, <1>7 DEF Next

\* With OTel enabled, when the first lifespan to be shut down is over, every
\* record of every request served is with the backend, unless a full queue had
\* dropped it, for every signal that the failed starts before it, if any, had
\* left registered.
THEOREM FirstStopLosesNothing == Spec => []StopLosesNothing
<1>1. CASE Disabled
  <2>1. StopLosesNothing
    BY <1>1 DEF StopLosesNothing
  <2>2. QED
    BY <2>1, PTL
<1>2. CASE ~Disabled
  <2>1. Init => OnlyKept /\ Held /\ FirstStop
    BY DEF Init, OnlyKept, Held, StopsAreComplete, FirstStop, UntilFirstStop, AtFirstStop,
           Balanced, Unregistered, Each, Signals
  <2>2. FirstStop => StopLosesNothing
    BY DEF FirstStop, AtFirstStop, StopLosesNothing, Balanced
  <2>3. TypeOK /\ OnlyKept /\ Held /\ FirstStop /\ [Next]_vars => FirstStop'
    BY <1>2, FirstNext
  <2>4. QED
    BY <2>1, <2>2, <2>3, TypeInit, TypeNext, OnlyKeptNext, HeldNext, PTL DEF Spec
<1>3. QED
  BY <1>1, <1>2
=============================================================================
