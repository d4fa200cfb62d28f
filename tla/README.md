# llmscope: a verification project

llmscope is a gateway library for calls to language models, with a FastAPI
reference application around it.  This directory holds TLA+ models of its
behaviour, TLC configurations that check them on small instances, and TLAPS
proofs of what matters most for every value of the constants.  Paths below are
those of the repository.

## 1. The system

One process runs one event loop.  A request passes two middlewares, reaches a
route handler, and, on two of the three routes, the gateway; the gateway asks a
provider through an adapter, retries, and reports every call to two sinks: OTel
instruments in memory, and a JSONL file that every worker process appends to.
A report reads that file offline.

| Component | Source | State | Operations |
|---|---|---|---|
| Gateway client | `gateway/client.py` | the running calls: position in the retry loop, the open span | `call_llm`, `_call_provider` |
| Provider adapters | `gateway/provider.py` | registry, lazily built SDK clients | `complete`, `is_retryable`, `categorize_error`, `get_provider` |
| Route policies, cost model | `gateway/policies.py`, `gateway/cost_model.py` | constant tables | lookups, `estimate_cost` |
| Request context, envelope | `context.py`, `envelope.py` | none | `from_metadata`, `to_dict` |
| Telemetry emission | `gateway/telemetry.py` | four OTel instruments | `emit`, `_record_otel_metrics` |
| Telemetry file | `gateway/telemetry.py`, `reporting/make_report.py` | the JSONL file and its `flock` | `_write_jsonl_event`, `load_jsonl_telemetry` |
| Rate limiter | `app/middleware/rate_limit.py` | `_windows`: a deque per caller | `dispatch` |
| HTTP application | `app/main.py`, `app/middleware/auth.py`, `app/routes/*` | `request.state` of each request | two middlewares, the handlers |
| Process lifecycle | `app/main.py`, `gateway/otel_setup.py`, `app/routes/health.py` | the two module providers, OTel's globals, `_ready` | `lifespan`, `setup_otel`, `shutdown_otel` |
| Semantic conventions | `gateway/semconv.py`, `semconv.py` | none | `resolve_attrs` |
| Context management, token counting | `app/services/context_manager.py`, `token_counter.py` | none; the client holds the history | `prepare_context`, `count_tokens` |
| Complexity routing | `app/services/routing.py` | none | `determine_complexity` |
| Reporting | `reporting/make_report.py` | none | load, normalise, aggregate, compare, recommend |
| Evaluation runners | `evals/*` | one result file per runner; a fresh rate limiter per process | `run_*_eval`: load, post, judge, write, exit |

How they interact.  Handlers `await call_llm`; `call_llm` calls the adapter and
then `emit` without an await in between; `emit` updates the instruments, then
appends to the file, and may raise on the second.  Calls share nothing but the
two sinks.  Workers share the file and its lock, not their instruments or
deques.  The lifespan owns the providers that the instruments of the gateway
record to through OTel's globals.  The eval runners post to the application in
their own process, with the gateway mocked, and leave result files that the
report reads.

What is hard here, and to what it leads:

* calls interleave at two awaits (the provider, the backoff), and may be
  cancelled at either: an `except Exception` does not see it;
* the second sink fails after the first has been updated, inside the very `try`
  block whose `except` emits again;
* a row is not written atomically: the encoder streams into a buffer, the
  buffer is flushed by size, and the process may be killed or the disk be full
  at any unit; the reader takes no lock;
* the deques are pruned only when their caller comes back;
* OTel's globals are set once a process, the module's providers at every
  lifespan, and a failing exporter leaves half of them built;
* an attribute set may be renamed twice on its way to an instrument, under an
  environment variable that other instrumentations share;
* a runner ends in many places, before, while or after it overwrites the file
  of the run before, and its verdicts depend on a limiter with a clock.

What makes each component correct:

* **Gateway client**: a call ends once; result, row, span and counters agree;
  it asks the provider within its budget, and again only for failures that may
  pass; the caller sees the provider's last error.
* **Telemetry**: each call counts once; a tenant's rows add up to what its
  calls cost; rows of workers do not interleave, damage stays bounded, reports
  miss nothing.
* **Rate limiter**: never more than the limit in any window; no caller is shut
  out by its own rejected attempts.
* **Application**: only authenticated requests within the limit cost a slot or
  a call; each request has one response, matching the gateway's outcome.
* **Context management**: no message lost or doubled; bounded strategies serve
  conversations of any length.
* **Reporting**: figures by route add up to the overall ones; advice follows from
  the rows; damage costs rows and not the report.
* **Semantic conventions**: dashboards on either name see every call once while
  the names change.
* **Eval runners**: green means that every answer conforms; the report says
  what the last complete runs found; the same run gives the same verdicts.
* **Lifecycle**: what has been collected is exported at a stop, and nothing is
  left at work; no signal is exported twice; readiness follows the lifespan.

`PROJECT.json` lists every hazard at its line with the properties that cover it.
A hazard that the code does run into has a note instead: the models contain it,
section 5 reports it, and no property can exclude it.

## 2. Modules

| Module | What it models |
|---|---|
| `Providers` | exception classes of the two SDKs with their hierarchy; `is_retryable` and `categorize_error` of both adapters and the base class; the documented taxonomy |
| `Semconv` | the opt-in variable and `resolve_attrs` |
| `Telemetry` | what one `emit` does to the two sinks, as operators on values |
| `Gateway` | `call_llm` and the retry loop for concurrent calls |
| `GatewayContract` | abstract: a call that is accepted closes once, together with its one ledger entry |
| `GatewayProperties` | properties of `Gateway` and the refinement mapping to `GatewayContract` |
| `GatewayProofs` | theorems about `Gateway`: counts, retries, rows, bills, dashboards, categories, and the refinement |
| `RateLimiter` | `dispatch` on pruned deques |
| `SlidingWindow` | abstract: the limiter that decides on its whole history |
| `RateLimiterProofs` | theorems about `RateLimiter`, the refinement included |
| `TelemetryLog` | the append step by step in several workers, and the lock-free reader |
| `Listing` | a finite set of numbers in its order: how a list is filtered and a file split into lines |
| `Sums` | induction over numbers and finite sets; lemmas about sums, sizes and listings, for all proofs that count |
| `TelemetryLogProofs` | theorems about the lock, the file, its readers and the refinement |
| `AtomicLog` | abstract: an append is one step with three outcomes |
| `App` | requests through middlewares, routes, `RateLimiter` and `GatewayContract` |
| `AppProofs` | theorems about `App` |
| `Lifecycle` | the lifespan, the OTel providers, readiness, draining |
| `LifecycleProofs` | theorems about `Lifecycle` |
| `ContextWindow` | a conversation and the prompts of the three context strategies |
| `ContextWindowProofs` | theorems about the prompts |
| `Report` | `make_report.py` from lines to figures, rankings and advice |
| `Routing` | `determine_complexity` and the bodies the routes answer with |
| `Evals` | the eval runners, run again and again over a changing application, and the report that reads their files |
| `OfflineProofs` | theorems about the offline tools: the runners' verdicts, repetition and summaries; the figures and advice of the report |
| `MC*` | small instances for TLC |

The layers meet at abstractions that are themselves checked.  `Gateway` takes
`emit` for one step because `TelemetryLog` implements `AtomicLog`, which uses the
same `AppendEvent`.  `Telemetry` builds its attribute sets with `Semconv`,
and `Evals` its answers with `Routing`.  `App` instantiates `RateLimiter` itself, and
`GatewayContract` in the place of `Gateway`, which implements it.

### Gateway and Telemetry

`pc[c]` is where the coroutine of call `c` is: `idle`, `calling` (awaiting
`provider.complete`), `backoff` (awaiting `asyncio.sleep`), or one of four ends.
Between two awaits nothing else runs on the loop, so each action runs from one
await to the next: `Start` is the lookups, the span and the first attempt;
`Retry`, `BackoffElapsed` and `GiveUp` are the loop; `Succeed` is cost, envelope,
both sinks and the return; `SuccessNotWritten` is the same with the append
raising, which runs on through the `except` block (`ErrorPath`); `CostUnknown` is
`estimate_cost` raising after the answer; `Cancel` is a `CancelledError` at either
await.  A failing append has two shapes, taken from what `json.dump` into a text
file may leave: nothing (`unopened`), or a fragment without a newline (`torn`),
to whose line the next row is glued.

An instrument is a function from attribute sets to numbers, so the labels are
part of the state: which series a call moves is a matter of `RequestSeries`,
`CostSeries`, `TokenSeries`, and of `ResolveAttrs`, which they go through once,
twice (tokens) or not at all (cost), as in the code.  What an SDK hands over is
a usage, which may be missing, and whether its first block is text: `Readable`
and `ProviderResponse` are the two adapters' `complete`, which take a missing
usage for no tokens (OpenAI) or fail on it (Anthropic).  The client an adapter
builds lazily matters only for the `ValueError` of a missing key.  Rows are records built by `ToDict` and the metadata
merge with its protected keys.  Prompts, texts, latencies and timestamps are
left out: no branch and no property depends on them.  `caller_id` stands for all
attribution fields that are copied as they are.

### RateLimiter

The deque of a caller, the monotonic clock in ticks, and one action per
decision: `Admit(c, k)` and `Reject(c, k)`, where `k` is the number of entries
the `while` loop pops.  `admitted` and `dropped` are history variables; no
action reads them.

### TelemetryLog

A row is a sequence of units that ends in its newline.  `Open`, `Lock`, `Flush`
(the buffer overflows), `Close`, `AppendFails` (an exception leaves the `with`
block: what is buffered goes out as far as it goes), `Kill` at any point and
`Restart` are the writers; `StartReport`, `Read` and `EndOfFile` the reader.
`Load` decodes lines as text iteration, `strip` and `json.loads` do: an
unterminated but complete object at the end of the file does decode.

### App

`layer[r]` counts the middlewares that have let the request pass; `Layer` reads
the registration order backwards, as Starlette does.  `Skip`, `Authenticated`,
`Unauthorized`, `KeyNotComparable`, `WithinLimit` and `TooManyRequests` are the
middlewares, the rest the routes.  What a schema or a token budget says of a
body is an input.

### Lifecycle

One process, which may enter its lifespan several times (as the tests do; a new
process starts from `Init`, because nothing outlives the old one).  A provider
has the number of the lifespan that made it.  `Setup` keeps the tracer provider
before its exporter is built, as the code does, so that a failing exporter
leaves it half-built and the guard of the next `setup_otel` skips it.  `stops` is
a history variable: it tells the first shutdown from those after it.

### ContextWindow

The server keeps no conversation: `history` is the client's, sent with every
turn.  A message is its place and its length; a prompt is a sequence of lines
that name the messages they carry, so that loss and duplication show.  `Answer`,
`TooLarge` and `Fail` are the three ways the handler ends (200, 400, 500); the
client keeps a message only with its answer.  The tokenizer is external: counts
are additive over the lines of a prompt.

### Report

`LogLine` and `Snapshot` build the two logs line by line; `Main` is `main`, and
`Output` what it writes.  Lists of rows are filtered with `Keep`, and
what is counted or summed is so over sets of places in a list (`Errors`,
`Unknown`, `Valid`); `Nth` is one element of `sorted(values)`.
A parsed value has its JSON type, and a string what `float()`, `strip()` or
`lower()` would make of it.  Numbers are exact: percentiles are scaled by 100,
averages and rates are fractions, where the code has floats (NaN and infinity,
which `float()` accepts, are left out: no row the gateway writes has them).  `FirstLargest` and
`Ranked` are `max` over a dict and a stable `sorted`, because the report relies
on both naming the same routes.

### Evals

The three runners differ in what they assert and mock, so their loop is written
once and the assertions three times.  A run is a process: `Start` loads the
dataset and resets the limiter; `Unauthorized`, `Limited`, `Refused`, `Broken`
and `Judge` are what becomes of a case, `NotPosted` the exceptions before the
request; `OpenResults` empties the file that `Exit` fills; `Kill` may come
anywhere, so that a file can be left torn.  `Versions` of the application are
external: what a change may do to a body (drop a field, set a value, grow) or to
a route (raise).  The limiter's clock is the choice of how many requests have
left the window.  `MakeReport` is the last step.

## 3. Runs

| Run | Instance | Shows |
|---|---|---|
| `gateway_healthy` | 2 calls, 2 routes with 2 and 1 retries, 4 kinds of arguments (two that name two tenants or the legacy one, one refused), an answer with and one without usage, 3 errors, the migration mode of the attribute names | counters, rows, spans, bills and results agree; dashboards on the old and the new name see each call once; the last error is raised; attempts and waiting stay within the policy; `GatewayContract` is implemented; calls end |
| `gateway_faults` | 2 calls over three adapters, every exception class, both append faults, metadata that cannot be encoded, an answer that cannot be read, a model without a price, cancellation | the request counter is off by exactly the calls that fail after their answer; every readable row is true and single; only failures that may pass are retried |
| `rate_limiter` | limit 2, window 3, clock to 7, two callers | the bound in every window, `Retry-After`, refinement of `SlidingWindow` |
| `telemetry_log` | 2 workers, 3 events (short, longer than the buffer, not encodable), a reader | no interleaving, bounded damage, complete reports, refinement of `AtomicLog`, appends end |
| `lifecycle` | 3 lifespans, 3 requests, a queue of 1 span, either exporter may fail | the first shutdown loses nothing of a registered signal, every shutdown leaves no exporter at work and nothing waiting, one exporter per signal, readiness |
| `app` | 2 requests, 3 keys, limit 1, clock to 2 | slots, ledger and responses match; the gateway is reached only by those let in; every request is answered |
| `context_window` | window 2, threshold 4, histories of up to 8 messages, short and long ones, any mix of strategies | nothing lost or doubled around the split; bounded strategies keep serving; the next turn of a strategy does not quote what one has dropped |
| `report` | up to 4 lines in both logs, of 10 kinds, over two routes | sums over routes, percentiles, figures that do not change when any two rows change places, rankings and advice that agree |
| `evals` | 3 runners, datasets of up to 3 lines taken from `evals/datasets` and damaged ones (a case without `expected`, a line that is not JSON, an empty file), 6 versions of the application, 3 keys, limit 2, 2 runs, 1 kill | exit code 0 exactly when every answer conforms; true summaries after crashes and kills; repeatable verdicts within the limit |
| `gateway_double_count` | violation | a call counted twice |
| `lifecycle_drain` | violation | the flag says ready while requests drain |
| `telemetry_log_split_character` | violation | a load that raises because of one row |

Why the bounds are enough.  Calls interact only through the two sinks, whose
values do not depend on who wrote before except for a trailing fragment: two
calls show every order, with a fragment before or after a row.  One and two retries cover a first, a middle and a last attempt.  Two
workers suffice for a mutual exclusion between any two; the three events are the
three ways a row meets the buffer and the encoder.  The clock of the limiter
runs twice over the window and one tick more.  With two requests and one slot,
one is admitted, one is rejected, and the slot expires.  A window of two and a threshold of four leave histories below, at, between and
beyond both; the limit has room for a window of long messages and not for eight
in full.  Four rows give percentiles with whole and broken indices, ties between
two routes, a majority and a tie of unknown errors, and a route that is in one
log only.  A queue of one span is
full with the second request; three lifespans show a restart after a failure
and after a stop.  Two eval runs are one after the other, of one runner or of
two; three cases are one more than the limit, and the six versions break each
assertion of each runner.

Deadlock is checked except in `app`, `lifecycle`, `report` and `evals`, which
may stop: all requests answered and the clock at its bound, the last lifespan
over, the report made.  `Gateway`
has a disjunct `AllDone` for its only legitimate stop.

### Fairness

* `Gateway`: weak fairness of the provider's answer and of the end of a backoff.
  Both SDK clients bound a request by a timeout, and the loop wakes a sleeper.
  A caller need not call and need not cancel.
* `TelemetryLog`: strong fairness of `Lock`, because the kernel queues the
  waiters of a `flock`, and weak fairness of leaving the `with` block.  No
  fairness for kills, restarts or reports.
* `App`: weak fairness of every request's next step; the end of a call is that
  of the gateway's own liveness.
* `Lifecycle` states none: that a draining server ends its requests and resumes
  the lifespan is uvicorn's doing, and nobody need send SIGTERM.
* `Evals` states none: its runners are commands, which nobody need give.

## 4. Proofs

All theorems hold for every value of the constants under the assumptions the
modules name: finite sets of calls and requests, natural numbers where the code
has counts, `None` outside the sets it is compared with (calls, keys, categories,
numbers), and faults and exceptions among those the model knows.  A hypothesis
beyond these is part of the theorem's statement.

`GatewayProofs`:

* `TypeCorrect`.  `TypeOK` is inductive; `ResponseType` and `AnswerType` say that
  what the adapters make of any SDK answer counts tokens or is a known
  exception, and `ErrorPathType` types the `except` block
  once for the three ways into it.
* `RequestsAlwaysExplained`.  The invariant `CountsDue` says for **every** series,
  not only those that exist, that the counter equals the number of calls due in
  it.  This strengthening is what makes it inductive: a step may create a
  series, and then its earlier value, zero, has to be known.  `MetricsMove` and
  `ErrorPathCounts` reduce each step to adding one call to one or two of the sets
  that are counted.
* `CountedOnce`.  With sinks that work, no raised call carries a cost
  (`NoSurplus`, a second invariant), so the surplus is empty and what remains of
  `CountsDue` is exactly one count per call.  `gateway_double_count` shows that
  the hypothesis is needed.
* `BudgetKept`, `TransientRetried`.  `RetryInv` relates the loop variable to the
  length of the error history, `attempt` or `attempt + 1` depending on where the
  call is, and says that all errors but a final one are transient.
  `RetryableIsTransient` carries the adapters' class tests.

`RateLimiterProofs`:

* `TypeCorrect`, then `WindowInv`: the deque is the history without its first
  `dropped` entries, those are expired, and the history is in order.  The order
  is needed because pruning looks at the head only.
* `RateNeverExceeded` and `DequeNeverOverfull` (proved only) follow.  In `AdmitKeeps` the new
  entry is compared with the one `RPM` before it, which must be among the
  dropped ones, since the deque had room.
* `DequeIsSlidingWindow`: each decision on the deque is that of `SlidingWindow`
  on the whole history, because what pruning leaves is as many entries as are
  recent in the history (`PrunedIsRecent`).
* `KnockingGetsIn` (`RetryAfterHonoured`): a rejected attempt leaves nothing in
  the deque, so what is in it is in the history of admissions (`WindowInv`); once
  the promised time has passed all of it has expired, and all of it is popped
  (`AllPruned`).

The rows of `Gateway`.  These theorems suppose `PlainMetadata`: no metadata names
a field by which a row is judged.  This is needed, because the merge protects
attribution only (section 5).

* `ReadableRowsAreTrue`, for any faults.  A step adds at most one readable line,
  and none but the row of the call that moves; `ReadableInv` says that a call
  has a readable row only once it has ended, and that the row agrees with it.
* `ContractKept`, with `HealthySinks`: initial states map to initial states, and
  every step to one of `GatewayContract` or to a stutter (`OpenStep`, `CloseStep`,
  `ContractStep`).  The invariants supply that no fragment trails (`Sound`), so
  that the row is added as it is, and that a call under way is accepted, so that
  its cost is among those of the contract.
* `RowsTell`, with `HealthySinks` too: exactly one true row for each recorded call.
  `RowsInv` names the line of each call.  `RowsReadable` says that an event is not
  the mark `Malformed`, which the model's values cannot show by themselves.
* `BillsTrue`, under the same: what the rows of a tenant bill is a sum over lines, what
  its calls were told a sum over calls.  `BillsInv` has both equal for every
  tenant; the step that ends a call adds one line and one call to the sums of
  the same tenant (`BillGrows`, `ResultsForGrow`, `RowTenant`).

What `Gateway` counts and says of failures:

* `CountersTrue`, `DashboardsTrue`, with `HealthySinks`.  `BooksInv` holds sums over
  all series of an instrument: cost equals the sum over the results, tokens twice
  their number, and for each provider attribute what a dashboard on it would
  add up is nothing or all, by the mode (`Visible`).  A recording moves one series,
  new or not, by one amount (`InstrumentAdd`, `SumAdd`), and `ResolvedNames` says what
  names one or two passes through `resolve_attrs` leave in every mode.
* `CategoriesFollow`.  `BuiltInAdapters`: the accepted calls go through `openai` or
  `anthropic`, as the route table has it; the base class names no category.
  `Documented`: no 422 reaches the Anthropic adapter, the one exception for which
  its chain of tests differs from the taxonomy (section 5).  `CategoryIsTaxonomy`
  is the comparison of both chains for every other exception; `FailuresNamed`
  carries it from the `except` block to the span.
* `LastErrorRaised`, with `HealthySinks` and `BuiltInAdapters`.  `WaitInv` says that a
  call has waited `2^attempt - 1` seconds wherever it is, and that one which was
  raised a passing failure has made all its attempts.  `BackoffDelay` is a
  recursive function, so its equation is available for any number of attempts.

`Sums` is what these and the proofs below rest on when they count.  The provers
cannot instantiate an induction theorem whose parameter is a predicate, so
`NatSetInduction` and `FiniteSetInduction` state induction over **sets** of numbers or
of sets, from well-foundedness; a sum over a finite set is then shown to exist, not
to depend on the order (`SumTake`), and to grow by what is added (`SumInsert`,
`SumGrow`).  `Listing` defines the order of a set by counting what lies below, so
that filtering a list needs no recursion, and `ListedAt`, `ListedAppend`,
`ListedInterval` say what stands where.

`TelemetryLogProofs`, from the assumptions of `TelemetryLog` alone:

* `RowsInOnePiece`.  `LogInv` has two parts.  `Exclusive`: a worker is writing
  exactly if it holds the lock.  `AtEnd`: what the holder has flushed so far ends
  the file, so that its next unit follows its last one.  The second is not
  inductive without the first, and neither says anything of a fragment that a
  failed or killed writer leaves: that one is complete in itself and the next row
  begins after it.
* `FragmentsCostLittle`.  `FileInv` adds to `LogInv` who is at work on which event
  (`Book`), that the file consists of beginnings of rows, each event's at one place
  (`Placed`), and that a row whose append returned is in it whole (`Complete`).  A
  returned row that cannot be decoded must then begin inside a line, after the
  fragment of another event, and two rows do not follow one fragment: an
  injection from lost rows to fragments.
* `ReportsComplete`.  `Reported` says that a row that had returned when the report
  began, and that begins a line, is among the report's rows; the file only grows
  at its end, so a line that is complete when it is read stays what it is.
* `AppendsAreAtomic`, the refinement of `AtomicLog`.  The abstract file is made of
  what is settled: the file without the part the lock holder has written.  A flush
  leaves it alone; `Close`, `AppendFails` and `Kill` settle a whole row or a fragment
  at once, and what the lines then are is what `AppendEvent` makes of them, glued to
  a trailing fragment or not.

`ContextWindowProofs`, from the assumptions of `ContextWindow`: the window is not
empty and not above the threshold, as 5 and 10 in the code.  `PromptShape` says of
each strategy and any history that its prompt is a summary line or none, then the
last `Kept` messages of the history and the current one.  `TurnInv` says that the
last turn was such a prompt over a beginning of what the client holds.

* `NoMessageLost`: the numbers of the quoted lines are consecutive, and the one
  summary line stands for the rest.
* `BoundedAlwaysServe`: a prompt of at most a window costs at most what the longest
  message would (`SumBounded`); that there is a longest follows from the limit.
* `NothingRemembered`: the first message quoted is the first that is kept, and a
  longer history starts no earlier; at the threshold this needs that the window
  is not above it.

`LifecycleProofs`:

* `ExportedOnce` needs `OnlyKept`: a provider at work is the one that the module
  keeps.  The guard of `setup_otel` looks at the tracer provider only; the
  invariant shows why that is enough for both signals.
* `ShutdownsComplete` adds `Held`: what waits in a queue belongs to the provider
  that the module and OTel's globals both hold, so that shutting down the module's
  provider flushes it.  A later lifespan, whose providers the globals do not
  know, has nothing waiting, and `OnlyKept` says that no other is at work.
* `FirstStopLosesNothing` needs `FirstStop`: until the first shutdown a signal is
  either not registered, which takes a failed start, or its provider is at work
  under the name the globals know it by, and what was served is what is queued,
  exported or was refused by the full queue.
* `ReadinessFollowsLifespan` is inductive as it stands, given the types.

`AppProofs`: `OnlyGuestsCall`, `OneSlotPerGuest`, `LedgerTrue`.  The middle one
counts: each admission of the limiter's history is one more member of a finite
set of requests that have passed both middlewares.  For the ledger, an entry is
added in the step that ends its call and no call ends twice; the invariant
`Guard` carries that a called request had nothing left to be refused for.  No
response is `None`, which is why `None` must not be a number.

`OfflineProofs`, of the runners:

* `GreenMeansGreen`.  `RunInv` says that the count of failures is zero
  exactly while every answer so far conforms; `PostedKeeps` is one turn of the loop,
  and `ClassifyJudges`, `AnswerJudges`, `ConversationJudges` that the assertions of
  each runner amount to the specification's demand, for any version of the
  application.  The hypothesis `ComparableDatasets` says that no case states a
  value for a field of the answer which its runner does not compare (such a case
  would pass with any value), which all three datasets of the repository satisfy.
* `SummariesFollow`, under the same.  `Tally` counts the answers that do not conform
  while a run goes on, `FilesInv` says of each file that it is torn by a kill or by the
  run under way, absent, or what its last complete run found.  `Markers` says that an
  absent and a torn file are not taken for a payload, which the model's values
  cannot show by themselves.
* `RunsRepeat`, without any hypothesis.  `LoopInv` says that each verdict is a function
  of the key, the case and the version (`VerdictOn`) as long as the dataset is not
  longer than the limit: then the limiter never has the last word, because it counts
  at most one slot per verdict.

`OfflineProofs`, of the report, from `ReportAssumption`: what `json.loads` makes of a
line is one of four kinds, numbers are integers, and every route that occurs is in
the finite list `Sorted`.  The logs are of any length and of any such lines.  The
hypothesis `Unset` says that `Absent`, which stands for Python's `None`, is not itself
a table, which the model's values cannot show by themselves.  The
invariant `ReportInv` says only that what is shown is `Output` of the logs; the work is
in what that computes.

* Each figure of a list of rows is a function of a **set of places** in it
  (`Figures`): a group has the figures of its places in the whole list
  (`FiguresKept`, `TableOf`), because `Keep` takes places one to one (`KeepAt`).
* `RoutesAddUp`.  The places of the routes are disjoint and together all places,
  so sums and counts by key are the sums and counts of the whole (`SumByKey`,
  `CountByKey`); the deltas are differences of two such sums (`SumMinus`), over the
  routes of both logs: a route of one log only has the figures of no places.
* `PercentilesOnTheLine`.  `Place` numbers the values from 0 without gaps
  (`PlacesInOrder`) and `Nth` finds the one with that number (`NthIs`).  The index of
  a percentile lies between two neighbouring places (`Neighbours`), and only these have a
  weight (`Weights`).  That the median does not exceed the 95th needs the case that both
  lie between the same neighbours.
* `SameFigures` and `OrderNeverMatters`.  A one-to-one correspondence of two lists
  of rows, whatever it is, carries sets of places over, with their sizes (`SameSize`), sums
  (`SumAlong`) and order statistics (`NthAlong`).  The routes named in the headline may
  differ, but both are maxima (`Leader`).
* `AdviceHolds`.  `max` over a dict and the first of the stable `sorted` are the place
  with nobody ahead (`LargestIs`); the loop over the sorted routes finds
  a maximum and starts from nothing (`MovementIs`); the list of advice names a
  route under one heading only on its condition (`Advised`).

Model-checked only, and why.  Liveness (`CallsEnd`, `AppendsEnd`, `Answered`) is
out of the prover's reach.  Every invariant of the
passing runs is also a theorem.

## 5. Where code and documentation disagree

With a run that shows it:

1. A success whose row cannot be appended counts as a success and as an error
   (`gateway_double_count`), though `telemetry.py:364` says one per call.
2. A row that a full disk cuts inside a character of several bytes is followed
   by the next row; the strict UTF-8 reader raises and the whole load is lost
   (`telemetry_log_split_character`), though `make_report.py:198` counts a row
   that cannot be parsed as malformed.
3. `set_ready(False)` runs after the yield, when the last request is over, not
   when draining begins (`lifecycle_drain`).

Met while modelling, part of the models, without a run of their own:

* `AnthropicProvider.categorize_error` has no case for 422 (`provider.py:372`),
  which `provider.py:161` counts as `invalid_request`
  (`InvalidRequestClasses`);
* an answer without usage is a success of no tokens and no cost with OpenAI and
  an `AttributeError` of category `unknown` with Anthropic, though the provider
  may have been paid (`Readable`, `ProviderResponse`; `provider.py:247`, `:334`);
* `complete` "must make exactly one API call" (`provider.py:123`), but the SDK
  clients keep their default retries (`provider.py:228`);
* the cost counter carries `gen_ai.system` in every mode, since it does not go
  through `resolve_attrs` (`CostSeries`; `telemetry.py:356`), though
  `semconv.py:33-41` has the latest mode emit the new name only;
* every provider is called `openai` in metrics and spans (`BaseAttrs`;
  `telemetry.py:305`);
* a case without `expected` ends a runner with a `KeyError`, though the design of
  003 calls it optional (`NotPosted`; `003-eval-harness/design.md:93`); the report
  then reads the file of an earlier run as the current one (`SummariesTrue`);
* a route that raises ends the runner, because the test client raises it again:
  the failing case is not named (`Broken`);
* the datasets state `min_answer_length`, which no runner checks
  (`AnswerAssertions`);
* an empty dataset passes (`Exit`), and one longer than `RATE_LIMIT_RPM` is judged
  by the clock (`Reproducible` speaks of the others);
* the README's commands for the runners do not set `APP_API_KEY` to the key the
  runners send: all cases are 401, or the first request raises
  (`Unauthorized`, `NotPosted`);
* a torn eval file makes `make_report` raise, where a missing one is "unavailable"
  (`MakeReport` of `Evals`; `make_report.py:236`);
* a metadata key other than the four attribution fields replaces what was
  measured, status and cost included (`Event`; `telemetry.py:463`), though
  `telemetry.py:410` calls the envelope the source of truth;
* metadata that `json.dump` cannot encode leaves a fragment and the next row is
  glued to it (`Writes`; `telemetry.py:400` promises one object per line);
* the tier label is `metadata["routing_decision"]`, so calls of
  `/conversation-turn` count as `unknown` (`MetricTier`; `telemetry.py:351`);
* a status that is a JSON array makes the report raise instead of skipping the
  row (`Raised` in `Report`; `make_report.py:173`);
* a conversation under `summarized` can be refused below the threshold where a
  longer one would be served (`BoundedStrategiesServe` states both sides);
* labels of a windowed prompt start at 0 again and are not the `turn_index` of
  the telemetry (`FormatMessages`; `context_manager.py:97`);
* with no valid row in the after log the report never names a largest cost
  movement, however much it moved (`Recommendations`; `make_report.py:549`);
* a cancelled call ends its span and records neither row nor count
  (`Cancel`; `client.py:244`);
* the token histogram carries the token count as an attribute, so every count is
  a series (`TokenSeries`; `telemetry.py:335`), though `:290` calls all attributes
  low-cardinality;
* an answer whose model has no price is thrown away after it was paid for, and
  recorded as a failure of no cost (`CostUnknown`; `client.py:181`);
* a failing append in the `except` block replaces the provider's exception
  (`ErrorPath`; `client.py:276`);
* after `shutdown_otel`, a second lifespan in the same process builds providers
  nobody records to (`Setup`; this is why `StopLosesNothing` speaks of
  the first lifespan that is shut down only);
* a start whose exporter cannot be built leaves a tracer provider that the next
  `setup_otel` takes for complete: that lifespan serves, and what was not
  registered is silently lost (`SetupSkipped`; `otel_setup.py:204`, `:220`);
* all clients share the one key and so the one window (`App`);
* a key that is not ASCII makes `compare_digest` raise, and is answered with 500
  (`KeyNotComparable`; `auth.py:33`).

## 6. Not modelled

The SDKs: their retries, which nothing here configures, and what their clients
need to be built, but for the key.  `register_provider` at run time (nothing in
the repository calls it while serving).  The fallback of `emit` without an
envelope (`call_llm` never takes it).  `use_case` and the audit tags, which are
copied as `caller_id` is.  Rendering of reports, OTel resource attributes and
the choice of exporter.  Request schemas beyond their verdict.  Helpers for
assertions that no runner calls.  Texts, prompts, latencies and timestamps.
`selected_model`, which `call_llm` adds to the metadata.  Exceptions that leave the
state as another one does or that the environment would have to be broken for:
`encode` on text that spells a special token (a 500), a telemetry file that does
not exist, an instrumentation that fails after the flag is set.  The checks that
a turn index and a token count are integers and not negative: the routes
compute no others.  The health probes' own requests, which both middlewares
exempt.  The summary a runner prints.

## 7. Plan

In this order; all but the last are done.

1. `Providers`, `Telemetry`, `Gateway`, `GatewayContract`: the core.
2. `RateLimiter` with `SlidingWindow`.
3. `TelemetryLog` with `AtomicLog`.
4. `Lifecycle`; `App`, which composes limiter and contract.
5. `ContextWindow`: the strategies around the split, the threshold, the limit.
6. `Report`: from lines to figures and advice.
7. Proofs of types, request counts, retries, and of the limiter with its
   refinement and `RetryAfterHonoured`.
8. `Semconv`, composed into the instruments.
9. `Routing` and `Evals`.
10. The adapters' `complete`, with and without usage.
11. Proofs: the rows of `Gateway` and its refinement of `GatewayContract`;
    `NoInterleaving`; `App`; `Lifecycle`; `GreenMeansConforming`.
12. Proofs by counting: `Sums` and `Listing`; counters, dashboards and bills of
    `Gateway`, its categories and backoff; `TelemetryLog` with its refinement of
    `AtomicLog`; `ContextWindow`; repetition and summaries of `Evals`.
13. `Report` restated with `Listing` and sums instead of recursion; its four
    invariants proved.
14. Left, and possible: the SDK's own retries and the number of time series need
    models of the two SDKs.
