SPECIFICATION Spec
CONSTANTS
    c1 = c1  c2 = c2
    None = None
    Unserialisable = Unserialisable
    Malformed = Malformed
    OptInTokens <- LatestOnly
    Calls <- TwoCalls
    Policies <- MixedPolicies
    Registered <- ThreeAdapters
    Pricing <- Prices
    Arguments <- MixedArguments
    SDKResponses <- TextOrNot
    ErrorsRaised <- AllErrors
    SinkFaults <- AllFaults
    Cancellable = TRUE
SYMMETRY PairSymmetry
INVARIANTS
    RequestsExplained
    
    OnlyTransientRetried
