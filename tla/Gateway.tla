------------------------------- MODULE Gateway -------------------------------
(***************************************************************************)
(* call_llm and the retry loop of _call_provider, for calls that run       *)
(* concurrently on the event loop of one process.                          *)
(*                                                                         *)
(* The coroutine gives up the loop at two places only: while the provider  *)
(* answers (pc "calling") and while a backoff sleeps (pc "backoff").  What *)
(* runs between two awaits is one action: cost estimation, both sinks, the *)
(* span and the return or the raise happen in a single step, unless the    *)
(* call is cancelled at one of the awaits.                                 *)
(***************************************************************************)
EXTENDS Naturals, Sequences, FiniteSets, Providers, Telemetry

CONSTANTS
    Calls,         \* the calls, named by their request_id
    Policies,      \* route -> [provider_name, retry_attempts, model_for_tier]
    Registered,    \* names in the provider registry
    Pricing,       \* model -> [input, output], price units per token
    Arguments,     \* what a caller passes: [route_name, model_tier, metadata, context]
    SDKResponses,  \* what an SDK hands over: [usage, text], see Readable
    ErrorsRaised,  \* exceptions an SDK may raise
    SinkFaults,    \* how the file system may fail an append: see Writes
    Cancellable    \* whether callers cancel (client disconnect, timeout)

ASSUME CallsAssumption == IsFiniteSet(Calls)
ASSUME PolicyAssumption ==
    \A route \in DOMAIN Policies : Policies[route].retry_attempts \in Nat
ASSUME PricingAssumption ==
    \A model \in DOMAIN Pricing : Pricing[model].input \in Nat /\ Pricing[model].output \in Nat
ASSUME ResponseAssumption ==
    \A sdk \in SDKResponses : sdk.usage # None =>
        sdk.usage.input_tokens \in Nat /\ sdk.usage.output_tokens \in Nat
ASSUME ErrorAssumption == ErrorsRaised \subseteq Errors
ASSUME FaultAssumption == SinkFaults \subseteq {"unopened", "torn"}
ASSUME CancelAssumption == Cancellable \in BOOLEAN

VARIABLES
    pc,        \* where each call is
    args,      \* the arguments of each call
    attempt,   \* the loop variable of _call_provider
    errors,    \* history: what the provider raised, in order
    waited,    \* history: seconds slept between attempts
    outcome,   \* what the caller got
    span,      \* the CLIENT span of the call
    metrics,   \* the instruments of telemetry.py, shared by all calls
    jsonl      \* the telemetry file

vars == <<pc, args, attempt, errors, waited, outcome, span, metrics, jsonl>>

Terminal == {"returned", "raised", "refused", "cancelled"}

\* What a caller may get, and what a span may hold.
Outcomes == [raised : Errors \cup {"CancelledError"}]
            \cup [tokens_in : Nat, tokens_out : Nat, estimated_cost_usd : Nat]
Spans == [ended : BOOLEAN, status : {"unset", "error"},
          category : Categories \cup {None}, cost : Nat \cup {None}]
ASSUME NoneAssumption == /\ None \notin Nat
                         /\ None \notin Calls
                         /\ None \notin Categories \cup {"ok", "error", "default"}
                         /\ None \notin Arguments
                         /\ None \notin Outcomes
                         /\ None \notin Spans
-----------------------------------------------------------------------------
(* What call_llm derives from its arguments.                               *)

\* get_route_policy, get_model_for_tier and get_provider raise ValueError.
Accepted(a) ==
    /\ a.route_name \in DOMAIN Policies
    /\ a.model_tier \in DOMAIN Policies[a.route_name].model_for_tier
    /\ Policies[a.route_name].provider_name \in Registered

Provider(a) == Policies[a.route_name].provider_name
RetryAttempts(a) == Policies[a.route_name].retry_attempts
Model(a) == Policies[a.route_name].model_for_tier[a.model_tier]

FromMetadata(metadata) ==
    [tenant_id |-> Get(metadata, "tenant_id"), caller_id |-> Get(metadata, "caller_id")]

\* The explicit context wins over the metadata.  caller_id stands for the
\* optional fields that are passed on as they are: caller_id, use_case and
\* the audit tags.
EffectiveContext(a) == IF a.context # None THEN a.context ELSE FromMetadata(a.metadata)

TenantId(a) ==
    LET tenant == EffectiveContext(a).tenant_id
    IN  IF tenant \in {None, ""} THEN "default" ELSE tenant

\* usage is None or counts tokens; text says whether the first block of the
\* content, if there is one, is text.  The Anthropic adapter reads attributes
\* of both; OpenAI's asks for the text as a whole and takes a missing usage
\* for no tokens.
Readable(provider, sdk) == provider = "anthropic" => sdk.usage # None /\ sdk.text

ProviderResponse(sdk) ==
    IF sdk.usage = None
    THEN [tokens_in |-> 0, tokens_out |-> 0]
    ELSE [tokens_in |-> sdk.usage.input_tokens, tokens_out |-> sdk.usage.output_tokens]

Responses == {ProviderResponse(sdk) : sdk \in SDKResponses}

\* Every exception that complete may end in.
Raisable == ErrorsRaised \cup {"AttributeError"}

\* estimate_cost raises ValueError for a model without a price.
Priced(a) == Model(a) \in DOMAIN Pricing
Cost(a, r) == r.tokens_in * Pricing[Model(a)].input + r.tokens_out * Pricing[Model(a)].output

Envelope(c, status, error_type, tokens_in, tokens_out, cost, cost_source) ==
    LET a == args[c]
    IN  [request_id |-> c, tenant_id |-> TenantId(a),
         caller_id |-> EffectiveContext(a).caller_id, route |-> a.route_name,
         model_selected |-> Model(a), model_tier |-> a.model_tier,
         routing_decision |-> Get(a.metadata, "routing_decision"),
         tokens_in |-> tokens_in, tokens_out |-> tokens_out,
         estimated_cost_usd |-> cost, cost_source |-> cost_source,
         status |-> status, error_type |-> error_type]

SuccessEnvelope(c, r) ==
    Envelope(c, "ok", None, r.tokens_in, r.tokens_out, Cost(args[c], r),
             "estimated_local_snapshot")

ErrorEnvelope(c, exc) ==
    Envelope(c, "error", CategorizeError(Provider(args[c]), exc), 0, 0, 0,
             "degraded_unknown")

Metadata(c) == args[c].metadata
-----------------------------------------------------------------------------
Init ==
    /\ pc = [c \in Calls |-> "idle"]
    /\ args = [c \in Calls |-> None]
    /\ attempt = [c \in Calls |-> 0]
    /\ errors = [c \in Calls |-> <<>>]
    /\ waited = [c \in Calls |-> 0]
    /\ outcome = [c \in Calls |-> None]
    /\ span = [c \in Calls |-> None]
    /\ metrics = NoMetrics
    /\ jsonl = EmptyFile

\* mutant: the refused caller gets neither a result nor an exception.
RefuseSilently(c, a) ==
    /\ pc[c] = "idle" /\ ~Accepted(a)
    /\ pc' = [pc EXCEPT ![c] = "refused"]
    /\ args' = [args EXCEPT ![c] = a]
    /\ UNCHANGED <<attempt, errors, waited, outcome, span, metrics, jsonl>>

\* The lookups before the span fail: ValueError, and nothing is recorded.
Refuse(c, a) ==
    /\ pc[c] = "idle" /\ ~Accepted(a)
    /\ pc' = [pc EXCEPT ![c] = "refused"]
    /\ args' = [args EXCEPT ![c] = a]
    /\ outcome' = [outcome EXCEPT ![c] = [raised |-> "ValueError"]]
    /\ UNCHANGED <<attempt, errors, waited, span, metrics, jsonl>>

\* Up to the first await on provider.complete.
Start(c, a) ==
    /\ pc[c] = "idle" /\ Accepted(a)
    /\ pc' = [pc EXCEPT ![c] = "calling"]
    /\ args' = [args EXCEPT ![c] = a]
    /\ span' = [span EXCEPT ![c] = [ended |-> FALSE, status |-> "unset",
                                    category |-> None, cost |-> None]]
    /\ UNCHANGED <<attempt, errors, waited, outcome, metrics, jsonl>>

\* Leaving the with block ends the span; spanCost is the cost attribute it
\* carries by then, or None.
EndSpan(c, status, category, spanCost) ==
    span' = [span EXCEPT ![c] = [ended |-> TRUE, status |-> status,
                                 category |-> category, cost |-> spanCost]]

\* mutant: the except block raises without emitting.
ErrorPathUnrecorded(c, exc, m, file, spanCost) ==
    LET env == ErrorEnvelope(c, exc)
    IN  /\ pc' = [pc EXCEPT ![c] = "raised"]
        /\ metrics' = m
        /\ jsonl' = file
        /\ EndSpan(c, "error", env.error_type, spanCost)
        /\ outcome' = [outcome EXCEPT ![c] = [raised |-> exc]]

\* The except block of call_llm: emit an error envelope, then re-raise.  A
\* failing append replaces the exception; metrics and file are those the
\* try block left.
ErrorPath(c, exc, m, file, spanCost) ==
    LET env == ErrorEnvelope(c, exc)
    IN  \E w \in Writes(Metadata(c), SinkFaults) :
          /\ pc' = [pc EXCEPT ![c] = "raised"]
          /\ metrics' = RecordMetrics(m, env, Metadata(c))
          /\ jsonl' = AppendEvent(file, Event(env, Metadata(c)), w)
          /\ EndSpan(c, "error", env.error_type, spanCost)
          /\ outcome' = [outcome EXCEPT ![c] =
               [raised |-> IF w = "complete" THEN exc ELSE AppendError(Metadata(c), w)]]

\* mutant: a success returns without being emitted.
SucceedUnrecorded(c, r) ==
    LET env == SuccessEnvelope(c, r)
    IN  /\ pc[c] = "calling" /\ Priced(args[c])
        /\ pc' = [pc EXCEPT ![c] = "returned"]
        /\ EndSpan(c, "unset", None, env.estimated_cost_usd)
        /\ outcome' = [outcome EXCEPT ![c] =
             [tokens_in |-> r.tokens_in, tokens_out |-> r.tokens_out,
              estimated_cost_usd |-> env.estimated_cost_usd]]
        /\ UNCHANGED <<args, attempt, errors, waited, metrics, jsonl>>

\* The provider answers, the model has a price and both sinks take the event.
Succeed(c, r) ==
    LET env == SuccessEnvelope(c, r)
    IN  /\ pc[c] = "calling" /\ Priced(args[c])
        /\ "complete" \in Writes(Metadata(c), SinkFaults)
        /\ pc' = [pc EXCEPT ![c] = "returned"]
        /\ metrics' = RecordMetrics(metrics, env, Metadata(c))
        /\ jsonl' = AppendEvent(jsonl, Event(env, Metadata(c)), "complete")
        /\ EndSpan(c, "unset", None, env.estimated_cost_usd)
        /\ outcome' = [outcome EXCEPT ![c] =
             [tokens_in |-> r.tokens_in, tokens_out |-> r.tokens_out,
              estimated_cost_usd |-> env.estimated_cost_usd]]
        /\ UNCHANGED <<args, attempt, errors, waited>>

\* mutant: the file is written before the instruments are updated.
SuccessNotCounted(c, r) ==
    LET env == SuccessEnvelope(c, r)
    IN  /\ pc[c] = "calling" /\ Priced(args[c])
        /\ \E w \in Writes(Metadata(c), SinkFaults) \ {"complete"} :
             ErrorPath(c, AppendError(Metadata(c), w), metrics,
                       AppendEvent(jsonl, Event(env, Metadata(c)), w),
                       env.estimated_cost_usd)
        /\ UNCHANGED <<args, attempt, errors, waited>>

\* mutant: the append raises after the whole row has reached the file.
SuccessWrittenYetFailed(c, r) ==
    LET env == SuccessEnvelope(c, r)
    IN  /\ pc[c] = "calling" /\ Priced(args[c])
        /\ \E w \in Writes(Metadata(c), SinkFaults) \ {"complete"} :
             ErrorPath(c, AppendError(Metadata(c), w),
                       RecordMetrics(metrics, env, Metadata(c)),
                       AppendEvent(jsonl, Event(env, Metadata(c)), "complete"),
                       env.estimated_cost_usd)
        /\ UNCHANGED <<args, attempt, errors, waited>>

\* The instruments have counted the success when the append raises inside
\* the try block: the call goes on through the except block.
SuccessNotWritten(c, r) ==
    LET env == SuccessEnvelope(c, r)
    IN  /\ pc[c] = "calling" /\ Priced(args[c])
        /\ \E w \in Writes(Metadata(c), SinkFaults) \ {"complete"} :
             ErrorPath(c, AppendError(Metadata(c), w),
                       RecordMetrics(metrics, env, Metadata(c)),
                       AppendEvent(jsonl, Event(env, Metadata(c)), w),
                       env.estimated_cost_usd)
        /\ UNCHANGED <<args, attempt, errors, waited>>

\* estimate_cost raises after the provider has answered.
CostUnknown(c, r) ==
    /\ pc[c] = "calling" /\ ~Priced(args[c])
    /\ ErrorPath(c, "ValueError", metrics, jsonl, None)
    /\ UNCHANGED <<args, attempt, errors, waited>>

\* mutant: <= where the code says <.
RetriesOneTooMany(c, e) ==
    /\ IsRetryable(Provider(args[c]), e)
    /\ attempt[c] <= RetryAttempts(args[c])

RetryAllowed(c, e) ==
    /\ IsRetryable(Provider(args[c]), e)
    /\ attempt[c] < RetryAttempts(args[c])

\* The provider raises and the loop goes to sleep.
Retry(c, e) ==
    /\ pc[c] = "calling" /\ RetryAllowed(c, e)
    /\ pc' = [pc EXCEPT ![c] = "backoff"]
    /\ errors' = [errors EXCEPT ![c] = Append(@, e)]
    /\ UNCHANGED <<args, attempt, waited, outcome, span, metrics, jsonl>>

\* mutant: the first exception is kept instead of the last.
GiveUpWithFirst(c, e) ==
    /\ pc[c] = "calling" /\ ~RetryAllowed(c, e)
    /\ errors' = [errors EXCEPT ![c] = Append(@, e)]
    /\ ErrorPath(c, Append(errors[c], e)[1], metrics, jsonl, None)
    /\ UNCHANGED <<args, attempt, waited>>

\* The provider raises and the loop breaks.
GiveUp(c, e) ==
    /\ pc[c] = "calling" /\ ~RetryAllowed(c, e)
    /\ errors' = [errors EXCEPT ![c] = Append(@, e)]
    /\ ErrorPath(c, e, metrics, jsonl, None)
    /\ UNCHANGED <<args, attempt, waited>>

\* 2 ** n, as a function: its proofs unfold it.
BackoffDelay[n \in Nat] == IF n = 0 THEN 1 ELSE 2 * BackoffDelay[n - 1]

\* mutant: from the second backoff on the sleeper is never woken.
BackoffForever(c) ==
    /\ pc[c] = "backoff"
    /\ IF attempt[c] > 0
       THEN UNCHANGED vars
       ELSE /\ pc' = [pc EXCEPT ![c] = "calling"]
            /\ attempt' = [attempt EXCEPT ![c] = @ + 1]
            /\ waited' = [waited EXCEPT ![c] = @ + BackoffDelay[attempt[c]]]
            /\ UNCHANGED <<args, errors, outcome, span, metrics, jsonl>>

\* asyncio.sleep(2 ** attempt) ends and the next attempt begins.
BackoffElapsed(c) ==
    /\ pc[c] = "backoff"
    /\ pc' = [pc EXCEPT ![c] = "calling"]
    /\ attempt' = [attempt EXCEPT ![c] = @ + 1]
    /\ waited' = [waited EXCEPT ![c] = @ + BackoffDelay[attempt[c]]]
    /\ UNCHANGED <<args, errors, outcome, span, metrics, jsonl>>

\* CancelledError is raised at an await.  It is no Exception: neither except
\* block runs, only the span is closed, with a status that depends on the
\* version of the OTel API (whether it records a BaseException).
Cancel(c) ==
    /\ Cancellable /\ pc[c] \in {"calling", "backoff"}
    /\ pc' = [pc EXCEPT ![c] = "cancelled"]
    /\ outcome' = [outcome EXCEPT ![c] = [raised |-> "CancelledError"]]
    /\ \E status \in {"unset", "error"} : EndSpan(c, status, None, None)
    /\ UNCHANGED <<args, attempt, errors, waited, metrics, jsonl>>

\* complete returns, or raises what the SDK raised, or fails on the answer.
Returns(c) ==
    {ProviderResponse(sdk) : sdk \in {s \in SDKResponses : Readable(Provider(args[c]), s)}}

Raises(c) ==
    {e \in Raisable : e \in ErrorsRaised \/
                      \E sdk \in SDKResponses : ~Readable(Provider(args[c]), sdk)}

ProviderAnswers(c) ==
    /\ pc[c] = "calling"
    /\ \/ \E r \in Returns(c) : Succeed(c, r) \/ SuccessNotWritten(c, r) \/ CostUnknown(c, r)
       \/ \E e \in Raises(c) : Retry(c, e) \/ GiveUp(c, e)

Call(c) ==
    \/ \E a \in Arguments : Refuse(c, a) \/ Start(c, a)
    \/ ProviderAnswers(c)
    \/ BackoffElapsed(c)
    \/ Cancel(c)

\* Every call is over: the only state in which the gateway may stop.
AllDone == (\A c \in Calls : pc[c] \in Terminal) /\ UNCHANGED vars

Next == (\E c \in Calls : Call(c)) \/ AllDone

\* The SDK clients bound every request with a timeout, and the event loop
\* wakes a sleeper: an await ends.  Nothing forces a caller to call.
Fairness == \A c \in Calls : WF_vars(ProviderAnswers(c)) /\ WF_vars(BackoffElapsed(c))

Spec == Init /\ [][Next]_vars
FairSpec == Spec /\ Fairness
=============================================================================
