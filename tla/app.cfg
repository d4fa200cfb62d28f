SPECIFICATION FairSpec
CONSTANTS
    r1 = r1  r2 = r2
    None = None
    Requests <- TwoRequests
    Keys <- GoodBadAndOdd
    AppKey = "good"
    NonAscii <- Odd
    RPM = 1
    Window = 1
    MaxTime = 2
    Costs <- OneCost
INVARIANTS
    SlotsMatchRequests
    LedgerMatchesResponses
    GatewayGuarded
PROPERTIES
    Answered
CHECK_DEADLOCK FALSE
