SPECIFICATION Spec
CONSTANTS
    r1 = r1  r2 = r2  r3 = r3
    Requests <- ThreeRequests
    MaxStarts = 1
    QueueLimit = 1
    SetupFaults <- NoFaults
    Disabled = FALSE
INVARIANTS
    DrainSignalled
CHECK_DEADLOCK FALSE
