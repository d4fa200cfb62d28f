SPECIFICATION Spec
CONSTANTS
    None = None
    SLIDING_WINDOW_SIZE = 2
    SUMMARIZATION_THRESHOLD = 4
    MAX_CONTEXT_TOKENS = 14
    Sizes <- ShortAndLong
    LabelTokens = 1
    SummaryTokens = 2
    MaxHistory = 8
INVARIANTS
    HistoryAccounted
    BoundedStrategiesServe
PROPERTIES
    ForgottenStaysForgotten
