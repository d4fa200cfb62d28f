SPECIFICATION Spec
CONSTANTS
    w1 = w1  w2 = w2
    short = short  long = long  broken = broken
    None = None
    Unserialisable = Unserialisable
    Malformed = Malformed
    Workers <- TwoWorkers
    Events <- ThreeEvents
    Length <- Lengths
    Encodable <- EncodableEvents
    Reportable <- ReportableEvents
    Buffer = 2
    MidCharacter <- SplitCharacter
INVARIANTS
    ReportReturns
