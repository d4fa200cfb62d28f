------------------------------ MODULE Providers ------------------------------
(***************************************************************************)
(* The two optional methods of ProviderBase, is_retryable and              *)
(* categorize_error, for the built-in OpenAI and Anthropic adapters and    *)
(* for an adapter that keeps the defaults.  An exception is represented by *)
(* the name of its class; isinstance follows the class hierarchy of the    *)
(* two SDKs, which is the same for the classes the adapters name.          *)
(***************************************************************************)
EXTENDS Naturals

\* The exception classes of the SDKs that a completion call can end in.
SDKErrors == {"AuthenticationError", "PermissionDeniedError", "RateLimitError",
              "APITimeoutError", "APIConnectionError", "InternalServerError",
              "BadRequestError", "NotFoundError", "UnprocessableEntityError",
              "ConflictError"}

\* Exceptions raised on the way by the gateway or the adapter themselves:
\* a missing API key or a model without a price, a failing JSONL write, an
\* answer without the attributes the adapter reads.
LocalErrors == {"ValueError", "OSError", "TypeError", "AttributeError"}

Errors == SDKErrors \cup LocalErrors

Categories == {"auth_error", "rate_limit", "timeout", "transient_error",
               "invalid_request", "unknown"}

\* The only subclassing between the classes the adapters test for:
\* a timeout is a connection error.
IsInstance(e, class) ==
    \/ e = class
    \/ e = "APITimeoutError" /\ class = "APIConnectionError"

IsAnyOf(e, classes) == \E class \in classes : IsInstance(e, class)

\* mutant: whatever the SDK raises is retried.
RetryableAlways(provider) ==
    IF provider \in {"openai", "anthropic"} THEN SDKErrors ELSE {}

\* Both adapters retry the same exceptions: OpenAI names APITimeoutError,
\* Anthropic reaches it through its base class.
RetryableClasses(provider) ==
    CASE provider = "openai" ->
           {"RateLimitError", "APITimeoutError", "APIConnectionError",
            "InternalServerError"}
      [] provider = "anthropic" ->
           {"RateLimitError", "APIConnectionError", "InternalServerError"}
      [] OTHER -> {}

IsRetryable(provider, e) == IsAnyOf(e, RetryableClasses(provider))

InvalidRequestClasses(provider) ==
    IF provider = "openai"
    THEN {"BadRequestError", "NotFoundError", "UnprocessableEntityError"}
    ELSE {"BadRequestError", "NotFoundError"}

\* mutant: the base class is tested before the timeout that derives from it.
CategorizeConnectionFirst(provider, e) ==
    IF provider \notin {"openai", "anthropic"} THEN "unknown"
    ELSE IF IsAnyOf(e, {"AuthenticationError", "PermissionDeniedError"}) THEN "auth_error"
    ELSE IF IsInstance(e, "RateLimitError") THEN "rate_limit"
    ELSE IF IsAnyOf(e, {"APIConnectionError", "InternalServerError"}) THEN "transient_error"
    ELSE IF IsInstance(e, "APITimeoutError") THEN "timeout"
    ELSE IF IsAnyOf(e, InvalidRequestClasses(provider)) THEN "invalid_request"
    ELSE "unknown"

\* The chain of isinstance tests, in the order of the source: the timeout is
\* tested before the connection error it derives from.
CategorizeError(provider, e) ==
    IF provider \notin {"openai", "anthropic"} THEN "unknown"
    ELSE IF IsAnyOf(e, {"AuthenticationError", "PermissionDeniedError"}) THEN "auth_error"
    ELSE IF IsInstance(e, "RateLimitError") THEN "rate_limit"
    ELSE IF IsInstance(e, "APITimeoutError") THEN "timeout"
    ELSE IF IsAnyOf(e, {"APIConnectionError", "InternalServerError"}) THEN "transient_error"
    ELSE IF IsAnyOf(e, InvalidRequestClasses(provider)) THEN "invalid_request"
    ELSE "unknown"

-----------------------------------------------------------------------------
\* The taxonomy ProviderBase documents for every adapter, by what happened:
\* the HTTP status the SDK turns into each class, or the network failure.
HttpStatus == [AuthenticationError |-> 401, PermissionDeniedError |-> 403,
               RateLimitError |-> 429, InternalServerError |-> 500,
               BadRequestError |-> 400, NotFoundError |-> 404,
               UnprocessableEntityError |-> 422, ConflictError |-> 409]

Taxonomy(e) ==
    IF e = "APITimeoutError" THEN "timeout"
    ELSE IF e = "APIConnectionError" THEN "transient_error"
    ELSE IF e \notin DOMAIN HttpStatus THEN "unknown"
    ELSE IF HttpStatus[e] \in {401, 403} THEN "auth_error"
    ELSE IF HttpStatus[e] = 429 THEN "rate_limit"
    ELSE IF HttpStatus[e] >= 500 THEN "transient_error"
    ELSE IF HttpStatus[e] \in {400, 404, 422} THEN "invalid_request"
    ELSE "unknown"

\* What is worth retrying by the same taxonomy: the provider may answer later.
Transient(e) == Taxonomy(e) \in {"rate_limit", "timeout", "transient_error"}
=============================================================================
