SPECIFICATION Spec
CONSTANTS
    alice = alice  bob = bob
    Callers <- TwoCallers
    RPM = 2
    Window = 3
    MaxTime = 7
INVARIANTS
    RateBound
PROPERTIES
    RetryAfterHonoured
    ImplementsSlidingWindow
