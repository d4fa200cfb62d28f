SPECIFICATION Spec
CONSTANTS
    c1 = c1  c2 = c2
    None = None
    Unserialisable = Unserialisable
    Malformed = Malformed
    OptInTokens <- NotSet
    Calls <- TwoCalls
    Policies <- ShippedPolicies
    Registered <- OpenAI
    Pricing <- Prices
    Arguments <- RoutedOnly
    SDKResponses <- OneAnswer
    ErrorsRaised <- TransientOnly
    SinkFaults <- AllFaults
    Cancellable = FALSE
INVARIANTS
    RequestsCountedOnce
