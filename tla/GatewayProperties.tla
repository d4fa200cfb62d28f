-------------------------- MODULE GatewayProperties --------------------------
(***************************************************************************)
(* What call_llm is for, stated over the state of module Gateway: the two  *)
(* sinks, the span and the caller tell the same story of every call.       *)
(***************************************************************************)
EXTENDS Gateway, Functions

Recorded(c) == pc[c] \in {"returned", "raised"}

\* A result is a GatewayResult, anything else an exception or nothing yet.
Result(c) == pc[c] = "returned"

Rows == {i \in DOMAIN jsonl.lines : jsonl.lines[i] # Malformed}
Row(i) == jsonl.lines[i]
RowsOf(c) == {i \in Rows : Row(i).request_id = c}

Requests(s) == At(metrics.requests, s)

SeriesOf(c, status) ==
    [route |-> args[c].route_name, model_tier |-> MetricTier(args[c].metadata),
     status |-> status]

FinalSeries(c) == SeriesOf(c, IF Result(c) THEN "success" ELSE "error")

\* Every variable has the shape its comment in Gateway gives it: a call that
\* has begun has arguments, one that was accepted has a span.
TypeOK ==
    /\ pc \in [Calls -> {"idle", "calling", "backoff"} \cup Terminal]
    /\ args \in [Calls -> Arguments \cup {None}]
    /\ attempt \in [Calls -> Nat]
    /\ errors \in [Calls -> Seq(Raisable)]
    /\ outcome \in [Calls -> Outcomes \cup {None}]
    /\ span \in [Calls -> Spans \cup {None}]
    /\ \A s \in DOMAIN metrics.requests : metrics.requests[s] \in Nat
    /\ jsonl.torn \in BOOLEAN
    /\ \A c \in Calls : /\ (pc[c] = "idle") <=> (args[c] = None)
                        /\ (pc[c] \in {"idle", "refused"}) <=> (span[c] = None)
                        /\ (pc[c] \in Terminal) <=> (outcome[c] # None)
-----------------------------------------------------------------------------
(* The request counter.                                                    *)

\* telemetry.py: "Increment by 1 for every call regardless of success or
\* failure".  A series counts the calls that ended with its route, label and
\* status, each once.
RequestsCountedOnce ==
    \A s \in DOMAIN metrics.requests \cup {FinalSeries(c) : c \in {d \in Calls : Recorded(d)}} :
        Requests(s) = Cardinality({c \in Calls : Recorded(c) /\ FinalSeries(c) = s})

\* Nothing makes an append fail: a sound file system, and metadata that
\* json.dump has an encoding for.
HealthySinks ==
    /\ SinkFaults = {}
    /\ \A a \in Arguments : Serialisable(a.metadata)

\* What a series counts in the code, file system faults included: a raised
\* call once as an error, a returned call once as a success, and once more as
\* a success a raised call whose success was counted before its append
\* failed, recognisable by the cost its span carries.
CountedIn(c, s) ==
    \/ Result(c) /\ s = SeriesOf(c, "success")
    \/ pc[c] = "raised" /\ s = SeriesOf(c, "error")
    \/ pc[c] = "raised" /\ span[c].cost # None /\ s = SeriesOf(c, "success")

\* Whatever the file system does, failures are counted exactly, and the
\* surplus of successes is exactly the calls that failed after their answer.
RequestsExplained ==
    \A s \in DOMAIN metrics.requests \cup
             UNION {{SeriesOf(c, "success"), SeriesOf(c, "error")} :
                        c \in {d \in Calls : Recorded(d)}} :
        Requests(s) = Cardinality({c \in Calls : CountedIn(c, s)})
-----------------------------------------------------------------------------
(* The JSONL rows and the span.                                            *)

\* A row, the span of its call and what its caller got agree.
Agrees(row, c) ==
    /\ span[c].ended
    /\ IF Result(c)
       THEN /\ row.status = "success"
            /\ "error_type" \notin DOMAIN row
            /\ row.estimated_cost_usd = outcome[c].estimated_cost_usd
            /\ row.tokens_in = outcome[c].tokens_in
            /\ row.tokens_out = outcome[c].tokens_out
            /\ span[c].cost = row.estimated_cost_usd
       ELSE /\ pc[c] = "raised"
            /\ row.status = "error"
            /\ row.error_type = span[c].category
            /\ row.estimated_cost_usd = 0

\* One row per call that returned or raised, none for the others, telling
\* what the caller and the trace were told.
RowsMatchOutcomes ==
    \A c \in Calls : /\ Cardinality(RowsOf(c)) = IF Recorded(c) THEN 1 ELSE 0
                     /\ \A i \in RowsOf(c) : Agrees(Row(i), c)

\* With failing appends rows may be missing, but those that can be read are
\* true and single: no call leaves both a success row and an error row.
ReadableRowsTrue ==
    \A c \in Calls : /\ Cardinality(RowsOf(c)) <= 1
                     /\ \A i \in RowsOf(c) : Agrees(Row(i), c)
-----------------------------------------------------------------------------
(* Money.                                                                  *)

\* The tenant a caller means: that of its context when it passes one, else
\* the one in its metadata, else the default tenant.
MeantTenant(a) ==
    LET named == IF a.context # None THEN a.context.tenant_id
                 ELSE IF "tenant_id" \in DOMAIN a.metadata
                      THEN a.metadata["tenant_id"] ELSE None
    IN  IF named \in {None, ""} THEN "default" ELSE named

Tenants == {MeantTenant(a) : a \in Arguments} \cup {Row(i).tenant_id : i \in Rows}

ResultCost == [c \in {d \in Calls : Result(d)} |-> outcome[c].estimated_cost_usd]
RowCost == [i \in Rows |-> Row(i).estimated_cost_usd]

\* The rows of a tenant bill exactly what its calls were told they cost.
TenantBillsAddUp ==
    \A tenant \in Tenants :
        SumFunctionOnSet(RowCost, {i \in Rows : Row(i).tenant_id = tenant})
        = SumFunctionOnSet(ResultCost,
                           {c \in Calls : Result(c) /\ MeantTenant(args[c]) = tenant})

\* The cost counter, over all its series, and the token histogram hold what
\* the callers' results add up to: a retried or failed call adds nothing.
CountersAddUp ==
    /\ SumFunction(metrics.cost) = SumFunction(ResultCost)
    /\ SumFunction(metrics.tokens) = 2 * Cardinality({c \in Calls : Result(c)})
-----------------------------------------------------------------------------
(* Dashboards.                                                             *)

OldName == "gen_ai_system"
NewName == "gen_ai_provider_name"

\* What a query that groups by an attribute adds up.
Seen(instrument, name) ==
    SumFunction(Restrict(instrument, {s \in DOMAIN instrument : name \in DOMAIN s}))

Names == CASE OptInMode = "stable"  -> {OldName}
           [] OptInMode = Latest    -> {NewName}
           [] OptInMode = LatestDup -> {OldName, NewName}

\* semconv.py: "Use during a migration window so dashboards built on either
\* name keep working".  A query by a name that the mode emits finds the
\* duration of every recorded call and both token counts of every returned
\* one, each once, with attributes resolved once or twice over; a query by the
\* other name finds nothing.  (The cost counter has the old name throughout.)
DashboardsKeepWorking ==
    \A name \in {OldName, NewName} :
        LET visible(n) == IF name \in Names THEN n ELSE 0 IN
        /\ Seen(metrics.duration, name) = visible(Cardinality({c \in Calls : Recorded(c)}))
        /\ Seen(metrics.tokens, name) = visible(2 * Cardinality({c \in Calls : Result(c)}))
-----------------------------------------------------------------------------
(* Retries.                                                                *)

LastError(c) == errors[c][Len(errors[c])]

\* The bounded budget: the provider is asked at most once more often than
\* retry_attempts allows.
RetryBudget ==
    \A c \in Calls : span[c] # None => Len(errors[c]) <= RetryAttempts(args[c]) + 1

\* Only failures that may pass are tried again: a request that the provider
\* refused for good, or an unknown failure, is sent once.
OnlyTransientRetried ==
    \A c \in Calls : \A i \in 1..Len(errors[c]) :
        (i < Len(errors[c]) \/ pc[c] \in {"backoff", "calling", "returned"})
            => Transient(errors[c][i])

\* The gateway gives up on a transient failure only when its attempts are
\* spent and its whole backoff, 1 + 2 + 4 ... seconds, has been waited for,
\* and raises what the provider raised last, not what it raised first or an
\* exception of its own.
RaisesLastError ==
    \A c \in Calls : pc[c] = "raised" /\ Priced(args[c]) =>
        /\ errors[c] # <<>>
        /\ outcome[c].raised = LastError(c)
        /\ Transient(LastError(c)) =>
             /\ Len(errors[c]) = RetryAttempts(args[c]) + 1
             /\ waited[c] = BackoffDelay[RetryAttempts(args[c])] - 1

\* The category a failure is reported under follows the taxonomy that
\* ProviderBase documents.
CategoryFollowsTaxonomy ==
    \A c \in Calls : pc[c] = "raised" /\ outcome[c].raised \in SDKErrors =>
        span[c].category = Taxonomy(outcome[c].raised)

\* An accepted call ends: its caller is not left waiting.
CallsEnd == \A c \in Calls : (pc[c] = "calling") ~> (pc[c] \in Terminal)
-----------------------------------------------------------------------------
(* The contract.                                                           *)

AbstractState(c) ==
    CASE pc[c] = "idle" -> "waiting"
      [] pc[c] \in {"calling", "backoff", "cancelled"} -> "open"
      [] pc[c] = "returned" -> "success"
      [] pc[c] = "raised" -> "error"
      [] pc[c] = "refused" -> "refused"

EntryOf(row) == [request_id |-> row.request_id, status |-> row.status,
                 cost |-> row.estimated_cost_usd]

AnswerCosts ==
    {Cost(a, r) : a \in {b \in Arguments : Accepted(b) /\ Priced(b)}, r \in Responses}

Contract == INSTANCE GatewayContract WITH
    Costs  <- AnswerCosts,
    state  <- [c \in Calls |-> AbstractState(c)],
    ledger <- [i \in DOMAIN jsonl.lines |-> EntryOf(jsonl.lines[i])]

\* The gateway keeps its contract: outcome and ledger entry come together.
KeepsContract == Contract!Spec
=============================================================================
