------------------------------ MODULE Telemetry ------------------------------
(***************************************************************************)
(* What one call of emit does to its two sinks: the four OTel instruments, *)
(* updated first and in memory, and the JSONL file, appended second and    *)
(* able to fail.  The sinks are values here; the modules that own them     *)
(* compose these operators in their actions.                               *)
(***************************************************************************)
EXTENDS Naturals, Sequences, Semconv

CONSTANTS
    None,             \* Python's None: a field that is absent from a row
    Unserialisable,   \* a value json.dump has no encoding for (a datetime, a set)
    Malformed         \* a line of the JSONL file that no reader can decode

\* A caller's metadata dict is a function from keys to values.
Get(dict, key) == IF key \in DOMAIN dict THEN dict[key] ELSE None

-----------------------------------------------------------------------------
(* OTel instruments: a function from attribute sets (series) to numbers.   *)

At(instrument, series) ==
    IF series \in DOMAIN instrument THEN instrument[series] ELSE 0

Add(instrument, series, n) ==
    [s \in DOMAIN instrument \cup {series} |->
        IF s = series THEN At(instrument, s) + n ELSE instrument[s]]

NoSeries == [s \in {} |-> 0]

NoMetrics == [duration |-> NoSeries, tokens |-> NoSeries,
              cost |-> NoSeries, requests |-> NoSeries]

\* The model_tier dimension comes from the metadata, not from the call.
MetricTier(metadata) ==
    IF "routing_decision" \in DOMAIN metadata
    THEN metadata["routing_decision"] ELSE "unknown"

Status(env) == IF env.status = "ok" THEN "success" ELSE "error"

RequestSeries(env, metadata) ==
    [route |-> env.route, model_tier |-> MetricTier(metadata), status |-> Status(env)]

\* Every provider is called "openai".
BaseAttrs(env) ==
    ResolveAttrs([gen_ai_system |-> "openai", model |-> env.model_selected,
                  route |-> env.route])

\* error.type is set on failures only.
DurationSeries(env) ==
    IF Status(env) = "error" /\ env.error_type # None
    THEN Over([error_type |-> env.error_type], BaseAttrs(env)) ELSE BaseAttrs(env)

TokenSeries(env, usage) == ResolveAttrs(Over(usage, BaseAttrs(env)))
InputSeries(env)  == TokenSeries(env, [type |-> "input", input_tokens |-> env.tokens_in])
OutputSeries(env) == TokenSeries(env, [type |-> "output", output_tokens |-> env.tokens_out])

\* The cost counter's attributes do not go through resolve_attrs.
CostSeries(env, metadata) ==
    [gen_ai_system |-> "openai", model |-> env.model_selected, route |-> env.route,
     model_tier |-> MetricTier(metadata)]

\* mutant: the token histogram is recorded for failed calls too.
TokensOfEveryCall(tokens, env) ==
    Add(Add(tokens, InputSeries(env), 1), OutputSeries(env), 1)

\* Two recordings per successful call, none for a failed one.
RecordTokens(tokens, env) ==
    IF env.status = "ok"
    THEN Add(Add(tokens, InputSeries(env), 1), OutputSeries(env), 1)
    ELSE tokens

\* mutant: the request counter moves for successful calls only.
RecordSuccessesOnly(m, env, metadata) ==
    [duration |-> Add(m.duration, DurationSeries(env), 1),
     tokens   |-> RecordTokens(m.tokens, env),
     cost     |-> Add(m.cost, CostSeries(env, metadata), env.estimated_cost_usd),
     requests |-> IF env.status = "ok"
                  THEN Add(m.requests, RequestSeries(env, metadata), 1)
                  ELSE m.requests]

\* _record_otel_metrics.
RecordMetrics(m, env, metadata) ==
    [duration |-> Add(m.duration, DurationSeries(env), 1),
     tokens   |-> RecordTokens(m.tokens, env),
     cost     |-> Add(m.cost, CostSeries(env, metadata), env.estimated_cost_usd),
     requests |-> Add(m.requests, RequestSeries(env, metadata), 1)]

-----------------------------------------------------------------------------
(* The JSONL row of an envelope.                                           *)

\* to_dict drops the fields that are None.
ToDict(env) == [key \in {k \in DOMAIN env : env[k] # None} |-> env[key]]

\* mutant: the metadata of the caller overwrites attribution too.
ProtectedNothing == {}

\* Keys of the metadata that may not overwrite those of the envelope.
ProtectedFields == {"tenant_id", "caller_id", "use_case", "audit_tags"}

\* The envelope with the legacy status word, metadata merged on top.
Event(env, metadata) ==
    LET base   == [ToDict(env) EXCEPT !["status"] = Status(env)]
        merged == DOMAIN metadata \ ProtectedFields
    IN  [key \in DOMAIN base \cup merged |->
            IF key \in merged THEN metadata[key] ELSE base[key]]

\* The fields of an envelope are strings and numbers; what json.dump may have
\* no encoding for is a value merged from the metadata.
Serialisable(metadata) ==
    \A key \in DOMAIN metadata \ ProtectedFields : metadata[key] # Unserialisable

-----------------------------------------------------------------------------
(* The JSONL file: complete lines, and whether a fragment without its      *)
(* newline sits at the end of it.                                          *)

EmptyFile == [lines |-> <<>>, torn |-> FALSE]

\* How the append of an event may end: written and closed; failed before the
\* first byte (mkdir, open, flock); failed after some of them (json.dump on
\* an unserialisable value, or a full disk when the buffer is flushed).
Writes(metadata, faults) ==
    IF Serialisable(metadata) THEN {"complete"} \cup faults
                              ELSE {"torn"} \cup (faults \cap {"unopened"})

\* _write_jsonl_event.  A row written after a fragment continues its line:
\* nobody reads either.
AppendEvent(file, event, w) ==
    CASE w = "complete" ->
           [lines |-> Append(file.lines, IF file.torn THEN Malformed ELSE event),
            torn  |-> FALSE]
      [] w = "torn"     -> [lines |-> file.lines, torn |-> TRUE]
      [] w = "unopened" -> file

\* The exception a failed append raises.
AppendError(metadata, w) ==
    IF w = "torn" /\ ~Serialisable(metadata) THEN "TypeError" ELSE "OSError"
=============================================================================
