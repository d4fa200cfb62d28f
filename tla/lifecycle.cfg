SPECIFICATION Spec
CONSTANTS
    r1 = r1  r2 = r2  r3 = r3
    Requests <- ThreeRequests
    MaxStarts = 3
    QueueLimit = 1
    SetupFaults <- AnyExporter
    Disabled = FALSE
INVARIANTS
    StopLosesNothing
    StopsAreComplete
    OneExporterPerSignal
    ReadyWhileServing
CHECK_DEADLOCK FALSE
