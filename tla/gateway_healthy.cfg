SPECIFICATION FairSpec
CONSTANTS
    c1 = c1  c2 = c2
    None = None
    Unserialisable = Unserialisable
    Malformed = Malformed
    OptInTokens <- Migrating
    Calls <- TwoCalls
    Policies <- ShippedPolicies
    Registered <- OpenAI
    Pricing <- Prices
    Arguments <- HealthyArguments
    SDKResponses <- MeteredOrNot
    ErrorsRaised <- SomeErrors
    SinkFaults <- NoFaults
    Cancellable = FALSE
INVARIANTS
    TypeOK
    RequestsCountedOnce
    RowsMatchOutcomes
    TenantBillsAddUp
    CountersAddUp
    RaisesLastError
    CategoryFollowsTaxonomy
    RetryBudget
    DashboardsKeepWorking
PROPERTIES
    KeepsContract
    CallsEnd
