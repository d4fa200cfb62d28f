------------------------------- MODULE Report -------------------------------
(***************************************************************************)
(* reporting/make_report.py from the lines of two telemetry logs to the    *)
(* numbers and recommendations of the report: normalisation, aggregation   *)
(* by route, percentiles, comparison, ranking and advice.  Arithmetic is   *)
(* exact: percentiles are scaled by 100, a rate or an average is a         *)
(* fraction <<numerator, denominator>>.  What json.loads makes of a line   *)
(* is given by a kind and, for an object, by typed values; the markdown is *)
(* left out.                                                               *)
(***************************************************************************)
EXTENDS Integers, Sequences, FiniteSets, Functions, Listing

CONSTANTS
    Lines,     \* the lines a log may hold
    Coverage,  \* the sets of eval summaries that may be missing
    MaxLines,  \* bound of the instance on the lines of both logs
    Sorted,    \* the routes in alphabetical order
    Absent, Malformed, Raised

\* A parsed value: its JSON type, for strings what float() or a comparison
\* with "true" and "false" would make of them, and whether spaces surround it.
StringTypes == {"text", "numeral", "truth"}
Value(type, value) == [type |-> type, value |-> value, padded |-> FALSE]
Padded(type, value) == [type |-> type, value |-> value, padded |-> TRUE]

\* Numbers are numbers, and every route has its place in the order.
Decodable(raw) ==
    /\ \A field \in {"latency_ms", "estimated_cost_usd"} \cap DOMAIN raw :
         raw[field].type \in {"number", "numeral"} => raw[field].value \in Int
    /\ "route" \in DOMAIN raw /\ raw.route.type \in StringTypes =>
         raw.route.value \in Range(Sorted) \cup {""}

ASSUME ReportAssumption ==
    /\ MaxLines \in Nat
    /\ Sorted \in Seq(Range(Sorted)) /\ Absent \notin Range(Sorted)
    /\ \A line \in Lines :
         /\ line.kind \in {"blank", "not_json", "not_object", "object"}
         /\ line.kind = "object" => Decodable(line.row)

VARIABLES
    before,  \* the lines of the before log, or Absent: no --before-log
    after,   \* the lines of the after log
    markdown \* what main has made of them, or Absent

logs == <<before, after>>
-----------------------------------------------------------------------------
\* bool is an int in Python, hence the guard in front of it.
CoerceFloat(v) == IF v.type \in {"number", "numeral"} THEN v.value ELSE Absent

CoerceBool(v) == IF v.type \in {"bool", "truth"} THEN v.value ELSE Absent

RequiredNormalized == {"route", "latency_ms", "estimated_cost_usd", "status", "schema_valid"}

\* route is stripped, status is not; a status that cannot be hashed makes the
\* membership test raise.
NormalizeRow(raw) ==
    LET latency == CoerceFloat(raw.latency_ms)
        cost == CoerceFloat(raw.estimated_cost_usd)
        valid == CoerceBool(raw.schema_valid)
        error == IF "error_type" \in DOMAIN raw THEN raw.error_type ELSE Value("null", Absent)
    IN
    IF \/ ~(RequiredNormalized \subseteq DOMAIN raw)
       \/ raw.route.type \notin StringTypes \/ raw.route.value = ""
       \/ latency = Absent \/ latency < 0
       \/ cost = Absent \/ cost < 0
       \/ valid = Absent
    THEN Malformed
    ELSE IF raw.status.type \in {"array", "object"}
    THEN Raised
    ELSE IF \/ raw.status.type \notin StringTypes \/ raw.status.padded
            \/ raw.status.value \notin {"success", "error"}
    THEN Malformed
    ELSE [route |-> raw.route.value, latency_ms |-> latency,
          estimated_cost_usd |-> cost, status |-> raw.status.value,
          schema_valid |-> valid,
          error_type |-> IF error.type = "null" THEN Absent ELSE error]

\* What one turn of the loop over the file makes of a line.
Decoded(line) ==
    CASE line.kind \in {"not_json", "not_object"} -> Malformed
      [] line.kind = "object" -> NormalizeRow(line.row)

\* load_jsonl_telemetry, or that it raises.  Blank lines are skipped.
LoadTelemetry(lines) ==
    LET decoded == [i \in {j \in DOMAIN lines : lines[j].kind # "blank"} |-> Decoded(lines[i])]
        Left(what) == {i \in DOMAIN decoded : decoded[i] = what}
    IN  [rows |-> Keep(decoded, DOMAIN decoded \ (Left(Malformed) \cup Left(Raised))),
         malformed |-> Cardinality(Left(Malformed)),
         raised |-> Left(Raised) # {}]
-----------------------------------------------------------------------------
Total(rows, field) == SumFunctionOnSet([i \in DOMAIN rows |-> rows[i][field]], DOMAIN rows)

Errors(rows) == {i \in DOMAIN rows : rows[i].status = "error"}
Unknown(rows) == {i \in Errors(rows) : rows[i].error_type = Value("text", "unknown")}
Valid(rows) == {i \in DOMAIN rows : rows[i].schema_valid}

\* sorted(values)[n - 1]: less than n values are below it, and no less than n
\* are not above it.
Nth(values, n) ==
    CHOOSE v \in Range(values) :
        /\ Cardinality({i \in DOMAIN values : values[i] < v}) < n
        /\ n <= Cardinality({i \in DOMAIN values : values[i] <= v})

\* mutant: the rank is taken of n values, not of the n - 1 steps between them.
PercentileOfCount(values, p) ==
    LET index == (p * Len(values)) \div 100
    IN  IF values = <<>> THEN 0
        ELSE 100 * Nth(values, IF index >= Len(values) THEN Len(values) ELSE index + 1)

\* mutant: the values are not sorted.
PercentileUnsorted(values, p) ==
    LET index == p * (Len(values) - 1)
        lower == values[index \div 100 + 1]
        upper == values[(index + 99) \div 100 + 1]
    IN  IF values = <<>> THEN 0
        ELSE 100 * lower + (upper - lower) * (index % 100)

\* percentile, times 100: interpolated between the neighbours of the index
\* p / 100 * (n - 1), whose fraction is the remainder.
Percentile(values, p) ==
    LET index == p * (Len(values) - 1)
        lower == Nth(values, index \div 100 + 1)
        upper == Nth(values, (index + 99) \div 100 + 1)
    IN  IF values = <<>> THEN 0
        ELSE 100 * lower + (upper - lower) * (index % 100)

Fraction(n, of) == IF of = 0 THEN <<0, 1>> ELSE <<n, of>>

AggregateMetrics(rows) ==
    LET n == Len(rows)
        latencies == [i \in DOMAIN rows |-> rows[i].latency_ms]
        cost == Total(rows, "estimated_cost_usd")
        errors == Cardinality(Errors(rows))
    IN  [request_count |-> n,
         latency_p50_ms |-> Percentile(latencies, 50),
         latency_p95_ms |-> Percentile(latencies, 95),
         estimated_total_cost_usd |-> cost,
         estimated_average_cost_usd |-> Fraction(cost, n),
         error_rate |-> Fraction(errors, n),
         schema_valid_rate |-> Fraction(Cardinality(Valid(rows)), n),
         error_count |-> errors,
         unknown_error_count |-> Cardinality(Unknown(rows))]

\* The routes in the order in which they first occur: the order of the dict.
RouteOrder(rows) ==
    Keep([i \in DOMAIN rows |-> rows[i].route],
         {i \in DOMAIN rows : \A j \in 1..(i - 1) : rows[j].route # rows[i].route})

\* mutant: the errors of a route are left out of its group.
GroupOfSuccesses(rows, route) ==
    Keep(rows, {i \in DOMAIN rows \ Errors(rows) : rows[i].route = route})

GroupByRoute(rows, route) == Keep(rows, {i \in DOMAIN rows : rows[i].route = route})

RouteAggregates(rows) ==
    [route \in Range(RouteOrder(rows)) |-> AggregateMetrics(GroupByRoute(rows, route))]

\* before_by_route.get(route, aggregate_metrics([]))
OrEmpty(by_route, route) ==
    IF route \in DOMAIN by_route THEN by_route[route] ELSE AggregateMetrics(<<>>)

Minus(f, g) == <<f[1] * g[2] - g[1] * f[2], f[2] * g[2]>>

CompareAggregates(b, a) ==
    [request_count_delta |-> a.request_count - b.request_count,
     latency_p50_ms_delta |-> a.latency_p50_ms - b.latency_p50_ms,
     latency_p95_ms_delta |-> a.latency_p95_ms - b.latency_p95_ms,
     estimated_total_cost_usd_delta |->
         a.estimated_total_cost_usd - b.estimated_total_cost_usd,
     estimated_average_cost_usd_delta |->
         Minus(a.estimated_average_cost_usd, b.estimated_average_cost_usd),
     error_rate_delta |-> Minus(a.error_rate, b.error_rate)]

\* The sort key of an item of the dict.
KeyOf(by_route, field) == [route \in DOMAIN by_route |-> by_route[route][field]]

\* max() over the items of a dict: the first of those with the largest key.
FirstLargest(routes, key) ==
    routes[CHOOSE i \in DOMAIN routes :
             /\ \A j \in DOMAIN routes : key[routes[j]] <= key[routes[i]]
             /\ \A j \in 1..(i - 1) : key[routes[j]] < key[routes[i]]]

\* sorted(reverse=True) keeps the order of items with equal keys.
Ranked(routes, key) ==
    LET Ahead(j, i) == \/ key[routes[j]] > key[routes[i]]
                       \/ key[routes[j]] = key[routes[i]] /\ j < i
        place(i) == Cardinality({j \in DOMAIN routes : Ahead(j, i)}) + 1
    IN  [n \in DOMAIN routes |-> routes[CHOOSE i \in DOMAIN routes : place(i) = n]]

\* mutant: only the routes of the after log are compared.
OnlyAfterRoutes(b, a) == DOMAIN a

\* set(before_by_route.keys()) | set(after_by_route.keys())
AllRoutes(b, a) == DOMAIN b \cup DOMAIN a

DeltaTable(b, a) ==
    [route \in AllRoutes(b, a) |-> CompareAggregates(OrEmpty(b, route), OrEmpty(a, route))]

Abs(n) == IF n < 0 THEN -n ELSE n

\* The loop over the sorted routes keeps the first that moved most, if any did.
LargestMovement(b, a) ==
    LET table == DeltaTable(b, a)
        moved == [route \in DOMAIN table |-> Abs(table[route].estimated_total_cost_usd_delta)]
        routes == Keep(Sorted, {n \in DOMAIN Sorted : Sorted[n] \in DOMAIN table})
        largest == FirstLargest(routes, moved)
    IN  IF routes = <<>> \/ moved[largest] = 0 THEN Absent ELSE largest

Advise(condition, advice, route) ==
    IF condition THEN <<[advice |-> advice, route |-> route]>> ELSE <<>>

\* mutant: unknown errors are compared with the rows, not with the errors.
UnknownAmongRows(rows) == 2 * Cardinality(Unknown(rows)) > Len(rows)

\* More than half of the errors are unknown.
UnknownDominates(rows) ==
    Errors(rows) # {} /\ 2 * Cardinality(Unknown(rows)) > Cardinality(Errors(rows))

\* mutant: the last route seen, not the one with most errors.
LatestRoute(order, by_route) == order[Len(order)]

HighestErrorRoute(order, by_route) ==
    FirstLargest(order, KeyOf(by_route, "error_count"))

HighestCostRoute(order, by_route) ==
    FirstLargest(order, KeyOf(by_route, "estimated_total_cost_usd"))

\* b is Absent without a before log.
Recommendations(rows, a, malformed, missing, b) ==
    LET order == RouteOrder(rows)
        costly == HighestCostRoute(order, a)
        failing == HighestErrorRoute(order, a)
        movement == LargestMovement(b, a)
        advice ==
            Advise(order # <<>>, "prioritize", costly)
            \o Advise(order # <<>> /\ a[failing].error_count > 0, "investigate", failing)
            \o Advise(malformed > 0, "fix telemetry", Absent)
            \o Advise(UnknownDominates(rows), "tighten taxonomy", Absent)
            \o Advise(missing # {}, "coverage", Absent)
            \o Advise(b # Absent /\ order # <<>> /\ movement # Absent, "review", movement)
    IN  IF advice = <<>> THEN Advise(TRUE, "no signal", Absent) ELSE advice

Render(b, a, missing) ==
    LET by_route == RouteAggregates(a.rows)
        before_by_route == IF b = Absent THEN Absent ELSE RouteAggregates(b.rows)
        order == RouteOrder(a.rows)
    IN  [raised |-> FALSE,
         headline |-> IF order = <<>> THEN Absent
                      ELSE [cost |-> HighestCostRoute(order, by_route),
                            error |-> HighestErrorRoute(order, by_route)],
         routes |-> by_route,
         overall |-> AggregateMetrics(a.rows),
         delta |-> IF b = Absent THEN Absent ELSE DeltaTable(before_by_route, by_route),
         overall_delta |-> IF b = Absent THEN Absent
                           ELSE CompareAggregates(AggregateMetrics(b.rows),
                                                  AggregateMetrics(a.rows)),
         by_cost |-> Ranked(order, KeyOf(by_route, "estimated_total_cost_usd")),
         by_error |-> Ranked(order, KeyOf(by_route, "error_count")),
         recommendations |->
            Recommendations(a.rows, by_route,
                            (IF b = Absent THEN 0 ELSE b.malformed) + a.malformed,
                            missing, before_by_route)]
-----------------------------------------------------------------------------
ReportInit == before = Absent /\ after = <<>> /\ markdown = Absent

LinesOf(log) == IF log = Absent THEN 0 ELSE Len(log)

\* The telemetry file grows by a line, whoever wrote it.
LogLine(line) ==
    /\ markdown = Absent /\ LinesOf(before) + Len(after) < MaxLines
    /\ after' = Append(after, line)
    /\ UNCHANGED <<before, markdown>>

\* What has been logged is kept as the before log, a new one begins.
Snapshot ==
    /\ markdown = Absent /\ before = Absent
    /\ before' = after
    /\ after' = <<>>
    /\ UNCHANGED markdown

\* Both logs are loaded, aggregated and rendered; what a load raises, nothing catches.
Output(missing) ==
    LET b == IF before = Absent THEN Absent ELSE LoadTelemetry(before)
        a == LoadTelemetry(after)
    IN  IF a.raised \/ (b # Absent /\ b.raised) THEN [raised |-> TRUE]
        ELSE Render(b, a, missing)

Main(missing) ==
    /\ markdown = Absent
    /\ markdown' = Output(missing)
    /\ UNCHANGED logs

ReportNext ==
    \/ \E line \in Lines : LogLine(line)
    \/ Snapshot
    \/ \E missing \in Coverage : Main(missing)

ReportSpec == ReportInit /\ [][ReportNext]_<<logs, markdown>>
-----------------------------------------------------------------------------
Made == markdown # Absent /\ ~markdown.raised
Loaded == LoadTelemetry(after).rows

TotalOver(table, field) ==
    SumFunctionOnSet([route \in DOMAIN table |-> table[route][field]], DOMAIN table)

\* aggregate_metrics runs on every group and again on all rows: whatever is
\* counted, the routes of the table account for the overall figure, and the
\* deltas of the routes, those that have gone or are new included, for the
\* overall delta.
RoutesPartition == Made =>
    /\ \A field \in {"request_count", "estimated_total_cost_usd", "error_count",
                     "unknown_error_count"} :
         TotalOver(markdown.routes, field) = markdown.overall[field]
    /\ before # Absent =>
         \A field \in {"request_count_delta", "estimated_total_cost_usd_delta"} :
             TotalOver(markdown.delta, field) = markdown.overall_delta[field]

\* The place of i, from 0, among the places in order of their values.
Place(values, i) ==
    Cardinality({j \in DOMAIN values : \/ values[j] < values[i]
                                       \/ values[j] = values[i] /\ j < i})

\* How much the value of rank k counts for percentile p of n values.
Weight(k, n, p) ==
    LET off == Abs(p * (n - 1) - 100 * k) IN IF off < 100 THEN 100 - off ELSE 0

\* make_report.py, percentile: "linearly interpolate between the lower and
\* upper neighbors".  At one value, at a whole index and at the last one as
\* elsewhere, a percentile is the point on the line through the ranked values:
\* each counts by how near its rank is to p / 100 * (n - 1).  It stays between
\* the extremes, and the median does not exceed the 95th.
PercentilesInterpolate == Made =>
    LET rows == Loaded IN
    \A route \in DOMAIN markdown.routes :
        LET mine == {i \in DOMAIN rows : rows[i].route = route}
            latency == [i \in mine |-> rows[i].latency_ms]
            Line(p) == SumFunctionOnSet(
                [i \in mine |-> Weight(Place(latency, i), Cardinality(mine), p) * latency[i]],
                mine)
            metrics == markdown.routes[route]
        IN  /\ metrics.latency_p50_ms = Line(50)
            /\ metrics.latency_p95_ms = Line(95)
            /\ metrics.latency_p50_ms <= metrics.latency_p95_ms
            /\ \E i \in mine : 100 * latency[i] <= metrics.latency_p50_ms
            /\ \E i \in mine : metrics.latency_p95_ms <= 100 * latency[i]

Swapped(rows, i, j) == [rows EXCEPT ![i] = rows[j], ![j] = rows[i]]

\* Workers append in any order: rows that change places change no figure,
\* overall, by route or against the before log.  Another of two equal routes
\* may be named, none with another cost or number of errors.
OrderIrrelevant == Made =>
    LET rows == Loaded IN
    \A i, j \in DOMAIN rows : i < j =>
        LET again == Swapped(rows, i, j)
            order == RouteOrder(again)
            by_route == RouteAggregates(again)
            Same(route, other, field) == by_route[route][field] = markdown.routes[other][field]
        IN  /\ AggregateMetrics(again) = markdown.overall
            /\ by_route = markdown.routes
            /\ before # Absent =>
                 DeltaTable(RouteAggregates(LoadTelemetry(before).rows), by_route)
                   = markdown.delta
            /\ Same(HighestCostRoute(order, by_route), markdown.headline.cost,
                    "estimated_total_cost_usd")
            /\ Same(HighestErrorRoute(order, by_route), markdown.headline.error, "error_count")

Given(advice) == {markdown.recommendations[i].route :
    i \in {j \in DOMAIN markdown.recommendations : markdown.recommendations[j].advice = advice}}

\* "Build rule-based recommendations grounded in current artifacts": each
\* advice is given if and only if the rows are as it says, whatever else is
\* in the logs.  The summary, the rankings and the advice find their routes by
\* three computations, ties included: they name the same ones.
AdviceGrounded == Made =>
    LET rows == Loaded
        errors(route) == Cardinality({i \in Errors(rows) : rows[i].route = route})
        moved(route) == Abs(markdown.delta[route].estimated_total_cost_usd_delta)
    IN  /\ (Given("investigate") # {}) <=> (Errors(rows) # {})
        /\ \A route \in Given("investigate"), other \in DOMAIN markdown.routes :
             errors(other) <= errors(route)
        /\ (Given("tighten taxonomy") # {})
             <=> (Cardinality(Unknown(rows)) > Cardinality(Errors(rows) \ Unknown(rows)))
        /\ before # Absent /\ rows # <<>> =>
             /\ \A route \in Given("review"), other \in DOMAIN markdown.delta :
                  moved(other) <= moved(route)
             /\ (Given("review") = {}) <=> (\A route \in DOMAIN markdown.delta : moved(route) = 0)
        /\ rows # <<>> =>
             /\ markdown.headline.cost = markdown.by_cost[1]
             /\ markdown.headline.error = markdown.by_error[1]
             /\ Given("prioritize") = {markdown.headline.cost}
             /\ Given("investigate") \subseteq {markdown.headline.error}
=============================================================================
