---------------------------- MODULE GatewayProofs ----------------------------
(***************************************************************************)
(* Proofs about call_llm, for any set of concurrent calls, any policies,   *)
(* pricing, arguments, provider errors, sink faults and cancellations:     *)
(*   1. types, counts and retries;                                         *)
(*   2. rows and outcomes, and the contract of GatewayContract;            *)
(*   3. what a failed call says and how long it waited;                    *)
(*   4. what the instruments add up to;                                    *)
(*   5. what the rows of a tenant add up to.                               *)
(***************************************************************************)
EXTENDS GatewayProperties, Sums, SequenceTheorems, FiniteSetTheorems, TLAPS

(***************************************************************************)
(* What the helpers return.                                                *)
(***************************************************************************)

\* categorize_error answers with a word of the taxonomy whatever it is given.
LEMMA CategoryType == \A p, e : CategorizeError(p, e) \in Categories
BY DEF CategorizeError, Categories

\* Recording n on a series moves that series by n and no other.
LEMMA AtAdd ==
    ASSUME NEW f, NEW k, NEW n, NEW s
    PROVE  At(Add(f, k, n), s) = IF s = k THEN At(f, k) + n ELSE At(f, s)
BY DEF At, Add

LEMMA AddType ==
    ASSUME NEW f, NEW k, NEW n \in Nat, \A s \in DOMAIN f : f[s] \in Nat
    PROVE  \A s \in DOMAIN Add(f, k, n) : Add(f, k, n)[s] \in Nat
BY DEF At, Add

LEMMA RecordMetricsType ==
    ASSUME NEW m, NEW env, NEW md, \A s \in DOMAIN m.requests : m.requests[s] \in Nat
    PROVE  \A s \in DOMAIN RecordMetrics(m, env, md).requests :
               RecordMetrics(m, env, md).requests[s] \in Nat
BY AddType DEF RecordMetrics

\* An adapter's answer counts tokens, metered or not.
LEMMA ResponseType ==
    ASSUME NEW r \in Responses
    PROVE  r.tokens_in \in Nat /\ r.tokens_out \in Nat
BY ResponseAssumption DEF Responses, ProviderResponse

\* Whatever the adapter, its answers and exceptions are among the known ones.
LEMMA AnswerType ==
    ASSUME NEW c
    PROVE  Returns(c) \subseteq Responses /\ Raises(c) \subseteq Raisable
BY DEF Returns, Responses, Raises

LEMMA RaisableType == Raisable \subseteq Errors
BY ErrorAssumption DEF Raisable, Errors, LocalErrors

LEMMA CostType ==
    ASSUME NEW a, Priced(a), NEW r \in Responses
    PROVE  Cost(a, r) \in Nat
BY PricingAssumption, ResponseType DEF Cost, Priced

LEMMA AppendErrorType ==
    ASSUME NEW md, NEW w
    PROVE  AppendError(md, w) \in Errors
BY DEF AppendError, Errors, LocalErrors

LEMMA AppendEventType ==
    ASSUME NEW file, NEW event, NEW md, NEW w \in Writes(md, SinkFaults),
           file.torn \in BOOLEAN
    PROVE  AppendEvent(file, event, w).torn \in BOOLEAN
<1>1. w \in {"complete", "torn", "unopened"}
  BY FaultAssumption DEF Writes
<1>2. QED
  BY <1>1 DEF AppendEvent

(***************************************************************************)
(* Types.  The except block is reached in three ways; what it leaves is    *)
(* typed once for all of them.                                             *)
(***************************************************************************)

LEMMA ErrorPathType ==
    ASSUME TypeOK, NEW c \in Calls, pc[c] = "calling",
           NEW exc \in Errors, NEW m, NEW file, NEW spanCost \in Nat \cup {None},
           \A s \in DOMAIN m.requests : m.requests[s] \in Nat,
           file.torn \in BOOLEAN,
           ErrorPath(c, exc, m, file, spanCost),
           errors' \in [Calls -> Seq(Raisable)],
           UNCHANGED <<args, attempt>>
    PROVE  TypeOK'
<1> DEFINE env == ErrorEnvelope(c, exc)
<1>1. PICK w \in Writes(Metadata(c), SinkFaults) :
        /\ pc' = [pc EXCEPT ![c] = "raised"]
        /\ metrics' = RecordMetrics(m, env, Metadata(c))
        /\ jsonl' = AppendEvent(file, Event(env, Metadata(c)), w)
        /\ EndSpan(c, "error", env.error_type, spanCost)
        /\ outcome' = [outcome EXCEPT ![c] =
             [raised |-> IF w = "complete" THEN exc ELSE AppendError(Metadata(c), w)]]
  BY DEF ErrorPath
<1>2. env.error_type \in Categories
  BY CategoryType DEF ErrorEnvelope, Envelope
<1> HIDE DEF env
<1>3. \A s \in DOMAIN metrics'.requests : metrics'.requests[s] \in Nat
  BY <1>1, RecordMetricsType
<1>4. jsonl'.torn \in BOOLEAN
  BY <1>1, AppendEventType
<1>5. [ended |-> TRUE, status |-> "error", category |-> env.error_type,
       cost |-> spanCost] \in Spans
  BY <1>2 DEF Spans
<1>6. [raised |-> IF w = "complete" THEN exc ELSE AppendError(Metadata(c), w)] \in Outcomes
  BY AppendErrorType DEF Outcomes
<1>7. /\ pc' \in [Calls -> {"idle", "calling", "backoff"} \cup Terminal]
      /\ span' \in [Calls -> Spans \cup {None}]
      /\ outcome' \in [Calls -> Outcomes \cup {None}]
      /\ pc'[c] = "raised" /\ span'[c] # None /\ outcome'[c] # None
      /\ \A d \in Calls \ {c} : pc'[d] = pc[d] /\ span'[d] = span[d] /\ outcome'[d] = outcome[d]
  BY <1>1, <1>5, <1>6, NoneAssumption DEF TypeOK, EndSpan, Terminal
<1>8. QED
  BY <1>3, <1>4, <1>7 DEF TypeOK, Terminal

LEMMA TypeInit == Init => TypeOK
BY NoneAssumption DEF Init, TypeOK, NoMetrics, NoSeries, EmptyFile, Terminal

LEMMA TypeNext == TypeOK /\ [Next]_vars => TypeOK'
<1> SUFFICES ASSUME TypeOK, [Next]_vars PROVE TypeOK'
  OBVIOUS
<1>1. ASSUME UNCHANGED vars PROVE TypeOK'
  BY <1>1 DEF vars, TypeOK
<1>2. ASSUME NEW c \in Calls, NEW a \in Arguments, Refuse(c, a) PROVE TypeOK'
  <2>1. [raised |-> "ValueError"] \in Outcomes
    BY DEF Outcomes, Errors, LocalErrors
  <2>2. QED
    BY <1>2, <2>1, NoneAssumption DEF Refuse, TypeOK, Terminal
<1>3. ASSUME NEW c \in Calls, NEW a \in Arguments, Start(c, a) PROVE TypeOK'
  <2>1. [ended |-> FALSE, status |-> "unset", category |-> None, cost |-> None] \in Spans
    BY DEF Spans
  <2>2. QED
    BY <1>3, <2>1, NoneAssumption DEF Start, TypeOK, Terminal
<1>4. ASSUME NEW c \in Calls, NEW r \in Responses, Succeed(c, r) PROVE TypeOK'
  <2> DEFINE env == SuccessEnvelope(c, r)
  <2>1. env.estimated_cost_usd \in Nat
    BY <1>4, CostType DEF Succeed, SuccessEnvelope, Envelope
  <2>2. [tokens_in |-> r.tokens_in, tokens_out |-> r.tokens_out,
         estimated_cost_usd |-> env.estimated_cost_usd] \in Outcomes
    BY <2>1, ResponseType DEF Outcomes
  <2>3. [ended |-> TRUE, status |-> "unset", category |-> None,
         cost |-> env.estimated_cost_usd] \in Spans
    BY <2>1 DEF Spans
  <2>4. \A s \in DOMAIN metrics'.requests : metrics'.requests[s] \in Nat
    BY <1>4, RecordMetricsType DEF Succeed, TypeOK
  <2>5. jsonl'.torn \in BOOLEAN
    BY <1>4 DEF Succeed, AppendEvent
  <2>6. QED
    BY <1>4, <2>2, <2>3, <2>4, <2>5, NoneAssumption
    DEF Succeed, EndSpan, TypeOK, Terminal
<1>5. ASSUME NEW c \in Calls, NEW r \in Responses, SuccessNotWritten(c, r) PROVE TypeOK'
  <2> DEFINE env == SuccessEnvelope(c, r)
  <2>1. PICK w \in Writes(Metadata(c), SinkFaults) \ {"complete"} :
          ErrorPath(c, AppendError(Metadata(c), w), RecordMetrics(metrics, env, Metadata(c)),
                    AppendEvent(jsonl, Event(env, Metadata(c)), w), env.estimated_cost_usd)
    BY <1>5 DEF SuccessNotWritten
  <2>2. env.estimated_cost_usd \in Nat
    BY <1>5, CostType DEF SuccessNotWritten, SuccessEnvelope, Envelope
  <2> HIDE DEF env
  <2>3. AppendEvent(jsonl, Event(env, Metadata(c)), w).torn \in BOOLEAN
    BY AppendEventType DEF TypeOK
  <2>4. \A s \in DOMAIN RecordMetrics(metrics, env, Metadata(c)).requests :
           RecordMetrics(metrics, env, Metadata(c)).requests[s] \in Nat
    BY RecordMetricsType DEF TypeOK
  <2>5. pc[c] = "calling" /\ UNCHANGED <<args, attempt, errors>>
    BY <1>5 DEF SuccessNotWritten
  <2>6. errors' \in [Calls -> Seq(Raisable)]
    BY <2>5 DEF TypeOK
  <2>7. AppendError(Metadata(c), w) \in Errors
    BY AppendErrorType
  <2>8. QED
    BY <2>1, <2>2, <2>3, <2>4, <2>5, <2>6, <2>7, ErrorPathType
<1>6. ASSUME NEW c \in Calls, NEW r \in Responses, CostUnknown(c, r) PROVE TypeOK'
  <2>1. /\ pc[c] = "calling" /\ UNCHANGED <<args, attempt, errors>>
        /\ ErrorPath(c, "ValueError", metrics, jsonl, None)
    BY <1>6 DEF CostUnknown
  <2>2. "ValueError" \in Errors
    BY DEF Errors, LocalErrors
  <2>3. /\ errors' \in [Calls -> Seq(Raisable)] /\ jsonl.torn \in BOOLEAN
        /\ \A s \in DOMAIN metrics.requests : metrics.requests[s] \in Nat
    BY <2>1 DEF TypeOK
  <2>4. QED
    BY <2>1, <2>2, <2>3, ErrorPathType
<1>7. ASSUME NEW c \in Calls, NEW e \in Raisable, Retry(c, e) PROVE TypeOK'
  <2>1. errors' \in [Calls -> Seq(Raisable)]
    BY <1>7 DEF Retry, TypeOK
  <2>2. QED
    BY <1>7, <2>1 DEF Retry, TypeOK, Terminal
<1>8. ASSUME NEW c \in Calls, NEW e \in Raisable, GiveUp(c, e) PROVE TypeOK'
  <2>1. /\ pc[c] = "calling" /\ UNCHANGED <<args, attempt>>
        /\ ErrorPath(c, e, metrics, jsonl, None)
    BY <1>8 DEF GiveUp
  <2>2. e \in Errors
    BY RaisableType
  <2>3. errors' \in [Calls -> Seq(Raisable)]
    BY <1>8 DEF GiveUp, TypeOK
  <2>4. /\ jsonl.torn \in BOOLEAN
        /\ \A s \in DOMAIN metrics.requests : metrics.requests[s] \in Nat
    BY DEF TypeOK
  <2>5. QED
    BY <2>1, <2>2, <2>3, <2>4, ErrorPathType
<1>9. ASSUME NEW c \in Calls, BackoffElapsed(c) PROVE TypeOK'
  BY <1>9 DEF BackoffElapsed, TypeOK, Terminal
<1>10. ASSUME NEW c \in Calls, Cancel(c) PROVE TypeOK'
  <2>1. PICK status \in {"unset", "error"} : EndSpan(c, status, None, None)
    BY <1>10 DEF Cancel
  <2>2. [ended |-> TRUE, status |-> status, category |-> None, cost |-> None] \in Spans
    BY DEF Spans
  <2>3. [raised |-> "CancelledError"] \in Outcomes
    BY DEF Outcomes
  <2>4. QED
    BY <1>10, <2>1, <2>2, <2>3, NoneAssumption DEF Cancel, EndSpan, TypeOK, Terminal
<1>11. QED
  BY <1>1, <1>2, <1>3, <1>4, <1>5, <1>6, <1>7, <1>8, <1>9, <1>10, AnswerType
  DEF Next, AllDone, Call, ProviderAnswers

\* Every reachable state is well formed: an accepted call has a span and
\* arguments, and a caller has an outcome exactly when its call is over.
THEOREM TypeCorrect == Spec => []TypeOK
BY TypeInit, TypeNext, PTL DEF Spec

(***************************************************************************)
(* The request counter.  Two calls may move the same series, and one call  *)
(* may move two: the invariant counts, for every series, the calls that    *)
(* are due in it.                                                          *)
(***************************************************************************)

Due(s) == {c \in Calls : CountedIn(c, s)}

CountsDue == \A s : Requests(s) = Cardinality(Due(s))

LEMMA DueFinite == \A s : IsFiniteSet(Due(s))
BY CallsAssumption, FS_Subset DEF Due

\* One call moves on and becomes due in the series S; the others keep still.
LEMMA DueStep ==
    ASSUME NEW c \in Calls, NEW S,
           \A d \in Calls \ {c} : /\ pc'[d] = pc[d]
                                  /\ span'[d] = span[d]
                                  /\ args'[d] = args[d],
           pc[c] \notin {"returned", "raised"},
           \A s : CountedIn(c, s)' <=> s \in S
    PROVE  \A s : Cardinality(Due(s)') = Cardinality(Due(s)) + IF s \in S THEN 1 ELSE 0
<1> SUFFICES ASSUME NEW s
             PROVE  Cardinality(Due(s)') = Cardinality(Due(s)) + IF s \in S THEN 1 ELSE 0
  OBVIOUS
<1>1. \A d \in Calls \ {c} : CountedIn(d, s)' <=> CountedIn(d, s)
  BY DEF CountedIn, Result, SeriesOf
<1>2. c \notin Due(s)
  BY DEF Due, CountedIn, Result
<1>3. Due(s)' = Due(s) \cup (IF s \in S THEN {c} ELSE {})
  BY <1>1, <1>2 DEF Due
<1>4. IsFiniteSet(Due(s)) /\ Cardinality(Due(s)) \in Nat
  BY DueFinite, FS_CardinalityType
<1>5. CASE s \in S
  <2>1. Cardinality(Due(s) \cup {c}) = Cardinality(Due(s)) + 1
    BY <1>2, <1>4, FS_AddElement
  <2>2. QED
    BY <1>3, <1>5, <2>1
<1>6. CASE s \notin S
  BY <1>3, <1>4, <1>6
<1>7. QED
  BY <1>5, <1>6

\* A step that finishes no call and leaves the instruments alone.
LEMMA QuietStep ==
    ASSUME CountsDue, NEW c \in Calls, UNCHANGED metrics,
           \A d \in Calls \ {c} : /\ pc'[d] = pc[d]
                                  /\ span'[d] = span[d]
                                  /\ args'[d] = args[d],
           pc[c] \notin {"returned", "raised"},
           pc'[c] \notin {"returned", "raised"}
    PROVE  CountsDue'
<1> DEFINE S == {}
<1>1. \A s : CountedIn(c, s)' <=> s \in S
  BY DEF CountedIn, Result
<1>2. \A s : s \notin S
  OBVIOUS
<1> HIDE DEF S
<1>3. \A s : Cardinality(Due(s)') = Cardinality(Due(s)) + IF s \in S THEN 1 ELSE 0
  BY <1>1, DueStep
<1>4. \A s : Cardinality(Due(s)) \in Nat
  BY DueFinite, FS_CardinalityType
<1>5. QED
  BY <1>2, <1>3, <1>4 DEF CountsDue, Requests

LEMMA SuccessSeries ==
    ASSUME NEW c, NEW r
    PROVE  RequestSeries(SuccessEnvelope(c, r), Metadata(c)) = SeriesOf(c, "success")
BY DEF RequestSeries, SuccessEnvelope, Envelope, Metadata, SeriesOf, Status

LEMMA ErrorSeries ==
    ASSUME NEW c, NEW exc
    PROVE  RequestSeries(ErrorEnvelope(c, exc), Metadata(c)) = SeriesOf(c, "error")
BY DEF RequestSeries, ErrorEnvelope, Envelope, Metadata, SeriesOf, Status

LEMMA MetricsMove ==
    ASSUME NEW m, NEW env, NEW md, NEW s
    PROVE  At(RecordMetrics(m, env, md).requests, s)
           = IF s = RequestSeries(env, md) THEN At(m.requests, s) + 1 ELSE At(m.requests, s)
BY AtAdd DEF RecordMetrics

\* The except block adds one to the error series; a cost on the span says
\* that the success series had been moved before.
LEMMA ErrorPathCounts ==
    ASSUME TypeOK, CountsDue, NEW c \in Calls, pc[c] = "calling",
           NEW exc, NEW m, NEW file, NEW spanCost,
           ErrorPath(c, exc, m, file, spanCost), UNCHANGED args,
           \A s : At(m.requests, s) = Requests(s) +
               IF spanCost # None /\ s = SeriesOf(c, "success") THEN 1 ELSE 0
    PROVE  CountsDue'
<1> DEFINE S == {SeriesOf(c, "error")} \cup
                (IF spanCost # None THEN {SeriesOf(c, "success")} ELSE {})
<1>1. /\ pc' = [pc EXCEPT ![c] = "raised"]
      /\ metrics' = RecordMetrics(m, ErrorEnvelope(c, exc), Metadata(c))
      /\ EndSpan(c, "error", ErrorEnvelope(c, exc).error_type, spanCost)
  BY DEF ErrorPath
<1>2. pc'[c] = "raised" /\ span'[c].cost = spanCost /\ args' = args
  BY <1>1 DEF TypeOK, EndSpan
<1>3. \A s : CountedIn(c, s)' <=> s \in S
  BY <1>2 DEF CountedIn, Result, SeriesOf
<1>4. \A d \in Calls \ {c} : pc'[d] = pc[d] /\ span'[d] = span[d] /\ args'[d] = args[d]
  BY <1>1 DEF TypeOK, EndSpan
<1>5. \A s : Cardinality(Due(s)') = Cardinality(Due(s)) + IF s \in S THEN 1 ELSE 0
  <2> HIDE DEF S
  <2>1. QED
    BY <1>3, <1>4, DueStep
<1>6. SeriesOf(c, "success") # SeriesOf(c, "error")
  BY DEF SeriesOf
<1>7. \A s : Requests(s)' = IF s = SeriesOf(c, "error")
                            THEN At(m.requests, s) + 1 ELSE At(m.requests, s)
  BY <1>1, MetricsMove, ErrorSeries DEF Requests
<1>8. \A s : Cardinality(Due(s)) \in Nat /\ Requests(s) = Cardinality(Due(s))
  BY DueFinite, FS_CardinalityType DEF CountsDue
<1>9. ASSUME NEW s PROVE Requests(s)' = Cardinality(Due(s)')
  <2>1. Requests(s)' = Requests(s) + IF s \in S THEN 1 ELSE 0
    BY <1>6, <1>7, <1>8
  <2>2. QED
    BY <1>5, <1>8, <2>1
<1>10. QED
  BY <1>9 DEF CountsDue

LEMMA CountsInit == Init => CountsDue
<1> SUFFICES ASSUME Init, NEW s PROVE Requests(s) = Cardinality(Due(s))
  BY DEF CountsDue
<1>1. Due(s) = {}
  BY DEF Init, Due, CountedIn, Result
<1>2. Requests(s) = 0
  BY DEF Init, Requests, At, NoMetrics, NoSeries
<1>3. QED
  BY <1>1, <1>2, FS_EmptySet

LEMMA CountsNext == TypeOK /\ CountsDue /\ [Next]_vars => CountsDue'
<1> SUFFICES ASSUME TypeOK, CountsDue, [Next]_vars PROVE CountsDue'
  OBVIOUS
<1>1. ASSUME UNCHANGED vars PROVE CountsDue'
  BY <1>1 DEF vars, CountsDue, Requests, Due, CountedIn, Result, SeriesOf
<1>2. ASSUME NEW c \in Calls, NEW a \in Arguments, Refuse(c, a) PROVE CountsDue'
  BY <1>2, QuietStep DEF Refuse, TypeOK
<1>3. ASSUME NEW c \in Calls, NEW a \in Arguments, Start(c, a) PROVE CountsDue'
  BY <1>3, QuietStep DEF Start, TypeOK
<1>4. ASSUME NEW c \in Calls, NEW r \in Responses, Succeed(c, r) PROVE CountsDue'
  <2>1. /\ pc[c] = "calling" /\ pc' = [pc EXCEPT ![c] = "returned"] /\ args' = args
        /\ metrics' = RecordMetrics(metrics, SuccessEnvelope(c, r), Metadata(c))
        /\ \A d \in Calls \ {c} : span'[d] = span[d]
    BY <1>4 DEF Succeed, EndSpan, TypeOK
  <2>2. \A s : CountedIn(c, s)' <=> s \in {SeriesOf(c, "success")}
    BY <2>1 DEF CountedIn, Result, SeriesOf, TypeOK
  <2>3. \A s : Cardinality(Due(s)') = Cardinality(Due(s)) +
                   IF s \in {SeriesOf(c, "success")} THEN 1 ELSE 0
    <3> DEFINE S == {SeriesOf(c, "success")}
    <3>1. \A d \in Calls \ {c} : pc'[d] = pc[d] /\ span'[d] = span[d] /\ args'[d] = args[d]
      BY <2>1 DEF TypeOK
    <3>2. \A s : CountedIn(c, s)' <=> s \in S
      BY <2>2
    <3>3. pc[c] \notin {"returned", "raised"}
      BY <2>1
    <3> HIDE DEF S
    <3>4. \A s : Cardinality(Due(s)') = Cardinality(Due(s)) + IF s \in S THEN 1 ELSE 0
      BY <3>1, <3>2, <3>3, DueStep
    <3>5. QED
      BY <3>4 DEF S
  <2>4. \A s : Requests(s)' = IF s = SeriesOf(c, "success")
                              THEN Requests(s) + 1 ELSE Requests(s)
    BY <2>1, MetricsMove, SuccessSeries DEF Requests
  <2>5. \A s : Cardinality(Due(s)) \in Nat
    BY DueFinite, FS_CardinalityType
  <2>6. QED
    BY <2>3, <2>4, <2>5 DEF CountsDue
<1>5. ASSUME NEW c \in Calls, NEW r \in Responses, SuccessNotWritten(c, r) PROVE CountsDue'
  <2> DEFINE env == SuccessEnvelope(c, r)
             m == RecordMetrics(metrics, env, Metadata(c))
  <2>1. PICK w : ErrorPath(c, AppendError(Metadata(c), w), m,
                           AppendEvent(jsonl, Event(env, Metadata(c)), w),
                           env.estimated_cost_usd)
    BY <1>5 DEF SuccessNotWritten
  <2>2. pc[c] = "calling" /\ UNCHANGED args /\ Priced(args[c])
    BY <1>5 DEF SuccessNotWritten
  <2>3. env.estimated_cost_usd # None
    BY <2>2, CostType, NoneAssumption DEF SuccessEnvelope, Envelope
  <2>4. \A s : Requests(s) \in Nat
    BY DueFinite, FS_CardinalityType DEF CountsDue
  <2>5. \A s : At(m.requests, s) = Requests(s) +
            IF env.estimated_cost_usd # None /\ s = SeriesOf(c, "success") THEN 1 ELSE 0
    BY <2>3, <2>4, MetricsMove, SuccessSeries DEF Requests
  <2> HIDE DEF env, m
  <2>6. QED
    BY <2>1, <2>2, <2>5, ErrorPathCounts
<1>6. ASSUME NEW c \in Calls, NEW exc, pc[c] = "calling", UNCHANGED args,
             ErrorPath(c, exc, metrics, jsonl, None)
      PROVE  CountsDue'
  <2>1. \A s : Requests(s) \in Nat
    BY DueFinite, FS_CardinalityType DEF CountsDue
  <2>2. \A s : At(metrics.requests, s) = Requests(s) +
                   IF None # None /\ s = SeriesOf(c, "success") THEN 1 ELSE 0
    BY <2>1 DEF Requests
  <2>3. QED
    BY <1>6, <2>2, ErrorPathCounts
<1>7. ASSUME NEW c \in Calls, NEW r \in Responses, CostUnknown(c, r) PROVE CountsDue'
  BY <1>6, <1>7 DEF CostUnknown
<1>8. ASSUME NEW c \in Calls, NEW e \in Raisable, GiveUp(c, e) PROVE CountsDue'
  BY <1>6, <1>8 DEF GiveUp
<1>9. ASSUME NEW c \in Calls, NEW e \in Raisable, Retry(c, e) PROVE CountsDue'
  BY <1>9, QuietStep DEF Retry, TypeOK
<1>10. ASSUME NEW c \in Calls, BackoffElapsed(c) PROVE CountsDue'
  BY <1>10, QuietStep DEF BackoffElapsed, TypeOK
<1>11. ASSUME NEW c \in Calls, Cancel(c) PROVE CountsDue'
  BY <1>11, QuietStep DEF Cancel, EndSpan, TypeOK
<1>12. QED
  BY <1>1, <1>2, <1>3, <1>4, <1>5, <1>7, <1>8, <1>9, <1>10, <1>11, AnswerType
  DEF Next, AllDone, Call, ProviderAnswers

\* Whatever the file system, the providers and the callers do, the request
\* counter moves once per returned or raised call, plus once, as a success,
\* for each call whose answer was counted before its append failed.
THEOREM RequestsAlwaysExplained == Spec => []RequestsExplained
<1>1. TypeOK /\ CountsDue => RequestsExplained
  BY DEF RequestsExplained, CountsDue, Due
<1>2. QED
  BY <1>1, TypeInit, TypeNext, CountsInit, CountsNext, PTL DEF Spec

(***************************************************************************)
(* Sound sinks: no call is counted twice.                                  *)
(***************************************************************************)

NoSurplus == \A c \in Calls : pc[c] = "raised" => span[c].cost = None

LEMMA NoSurplusNext ==
    ASSUME HealthySinks
    PROVE  TypeOK /\ NoSurplus /\ [Next]_vars => NoSurplus'
<1> SUFFICES ASSUME TypeOK, NoSurplus, [Next]_vars PROVE NoSurplus'
  OBVIOUS
<1>1. ASSUME UNCHANGED vars PROVE NoSurplus'
  BY <1>1 DEF vars, NoSurplus
<1>2. ASSUME NEW c \in Calls, NEW exc, NEW m, NEW file, pc[c] = "calling",
             ErrorPath(c, exc, m, file, None)
      PROVE  NoSurplus'
  <2>1. pc' = [pc EXCEPT ![c] = "raised"] /\ span'[c].cost = None
    BY <1>2 DEF ErrorPath, EndSpan, TypeOK
  <2>2. \A d \in Calls \ {c} : span'[d] = span[d]
    BY <1>2 DEF ErrorPath, EndSpan, TypeOK
  <2>3. QED
    BY <2>1, <2>2 DEF NoSurplus, TypeOK
<1>3. ASSUME NEW c \in Calls, NEW r \in Responses, SuccessNotWritten(c, r) PROVE FALSE
  <2>1. args[c] \in Arguments
    BY <1>3 DEF SuccessNotWritten, TypeOK
  <2>2. Writes(Metadata(c), SinkFaults) = {"complete"}
    BY <2>1 DEF HealthySinks, Writes, Metadata
  <2>3. QED
    BY <1>3, <2>2 DEF SuccessNotWritten
<1>4. ASSUME NEW c \in Calls, NEW a \in Arguments, Refuse(c, a) \/ Start(c, a)
      PROVE  NoSurplus'
  BY <1>4 DEF Refuse, Start, NoSurplus, TypeOK
<1>5. ASSUME NEW c \in Calls, NEW r \in Responses, Succeed(c, r) PROVE NoSurplus'
  BY <1>5 DEF Succeed, EndSpan, NoSurplus, TypeOK
<1>6. ASSUME NEW c \in Calls, NEW e \in Raisable, Retry(c, e) PROVE NoSurplus'
  BY <1>6 DEF Retry, NoSurplus, TypeOK
<1>7. ASSUME NEW c \in Calls, BackoffElapsed(c) PROVE NoSurplus'
  BY <1>7 DEF BackoffElapsed, NoSurplus, TypeOK
<1>8. ASSUME NEW c \in Calls, Cancel(c) PROVE NoSurplus'
  BY <1>8 DEF Cancel, EndSpan, NoSurplus, TypeOK
<1>9. QED
  BY <1>1, <1>2, <1>3, <1>4, <1>5, <1>6, <1>7, <1>8, AnswerType
  DEF Next, AllDone, Call, ProviderAnswers, CostUnknown, GiveUp

LEMMA OnceFromDue == TypeOK /\ CountsDue /\ NoSurplus => RequestsCountedOnce
<1> SUFFICES ASSUME TypeOK, CountsDue, NoSurplus, NEW s
             PROVE  Requests(s) = Cardinality({c \in Calls : Recorded(c) /\ FinalSeries(c) = s})
  BY DEF RequestsCountedOnce
<1>1. \A c \in Calls : CountedIn(c, s) <=> (Recorded(c) /\ FinalSeries(c) = s)
  BY DEF NoSurplus, CountedIn, Recorded, FinalSeries, Result
<1>2. Due(s) = {c \in Calls : Recorded(c) /\ FinalSeries(c) = s}
  BY <1>1 DEF Due
<1>3. QED
  BY <1>2 DEF CountsDue

\* While no append fails, the request counter holds, for every route, label
\* and status, exactly the number of calls that ended so.
THEOREM CountedOnce == HealthySinks => (Spec => []RequestsCountedOnce)
<1> SUFFICES ASSUME HealthySinks PROVE Spec => []RequestsCountedOnce
  OBVIOUS
<1>1. Init => NoSurplus
  BY DEF Init, NoSurplus
<1>2. QED
  BY <1>1, OnceFromDue, NoSurplusNext, TypeInit, TypeNext, CountsInit, CountsNext, PTL
  DEF Spec

(***************************************************************************)
(* Retries.  The loop variable and the errors seen so far advance          *)
(* together: that is what bounds the number of requests.                   *)
(***************************************************************************)

LEMMA RetryableIsTransient ==
    ASSUME NEW p, NEW e \in Errors, IsRetryable(p, e)
    PROVE  Transient(e)
<1>1. e \in {"RateLimitError", "APITimeoutError", "APIConnectionError", "InternalServerError"}
  BY DEF IsRetryable, IsAnyOf, IsInstance, RetryableClasses
<1>2. QED
  BY <1>1 DEF Transient, Taxonomy, HttpStatus

AllTransient(c) == \A i \in 1..Len(errors[c]) : Transient(errors[c][i])

RetryOK(c) ==
    /\ span[c] # None => Accepted(args[c])
    /\ pc[c] \in {"idle", "refused"} => errors[c] = <<>> /\ attempt[c] = 0
    /\ pc[c] = "calling" => /\ Len(errors[c]) = attempt[c]
                            /\ attempt[c] <= RetryAttempts(args[c])
                            /\ AllTransient(c)
    /\ pc[c] = "backoff" => /\ Len(errors[c]) = attempt[c] + 1
                            /\ attempt[c] < RetryAttempts(args[c])
                            /\ AllTransient(c)
    /\ pc[c] = "returned" => AllTransient(c)
    /\ \A i \in 1..Len(errors[c]) : i < Len(errors[c]) => Transient(errors[c][i])
    /\ span[c] # None => Len(errors[c]) <= RetryAttempts(args[c]) + 1

RetryInv == \A c \in Calls : RetryOK(c)

\* The calls that do not move keep their share of the invariant.
LEMMA RetryOthers ==
    ASSUME RetryInv, NEW c \in Calls,
           \A d \in Calls \ {c} : /\ pc'[d] = pc[d] /\ span'[d] = span[d]
                                  /\ args'[d] = args[d] /\ errors'[d] = errors[d]
                                  /\ attempt'[d] = attempt[d],
           RetryOK(c)'
    PROVE  RetryInv'
<1>1. \A d \in Calls \ {c} : RetryOK(d)'
  BY DEF RetryInv, RetryOK, AllTransient
<1>2. QED
  BY <1>1 DEF RetryInv

\* The accepted call's budget is a number.
LEMMA BudgetType ==
    ASSUME NEW a, Accepted(a)
    PROVE  RetryAttempts(a) \in Nat
BY PolicyAssumption DEF Accepted, RetryAttempts

\* The loop is left with one more error at most, through the except block or
\* with an answer.
LEMMA RetryEnds ==
    ASSUME TypeOK, RetryInv, NEW c \in Calls, pc[c] = "calling",
           pc' = [pc EXCEPT ![c] = "raised"] \/
             (pc' = [pc EXCEPT ![c] = "returned"] /\ errors' = errors),
           errors' = errors \/ \E e \in Raisable : errors' = [errors EXCEPT ![c] = Append(@, e)],
           UNCHANGED <<args, attempt>>,
           \A d \in Calls \ {c} : span'[d] = span[d]
    PROVE  RetryInv'
<1>1. /\ Len(errors[c]) = attempt[c] /\ attempt[c] <= RetryAttempts(args[c])
      /\ AllTransient(c) /\ Accepted(args[c]) /\ span[c] # None
      /\ errors[c] \in Seq(Raisable)
  BY DEF RetryInv, RetryOK, TypeOK
<1>2. RetryAttempts(args[c]) \in Nat /\ attempt[c] \in Nat
  BY <1>1, BudgetType DEF TypeOK
<1>3. RetryOK(c)'
  <2>1. CASE errors' = errors
    BY <1>1, <1>2, <2>1 DEF RetryOK, AllTransient, TypeOK, RetryAttempts, Accepted
  <2>2. ASSUME NEW e \in Raisable, errors' = [errors EXCEPT ![c] = Append(@, e)],
               pc' = [pc EXCEPT ![c] = "raised"]
        PROVE  RetryOK(c)'
    <3>1. errors'[c] = Append(errors[c], e) /\ Len(errors'[c]) = Len(errors[c]) + 1
      BY <1>1, <2>2 DEF TypeOK
    <3>2. \A i \in 1..Len(errors'[c]) : i < Len(errors'[c]) => Transient(errors'[c][i])
      BY <1>1, <3>1 DEF AllTransient
    <3>3. QED
      BY <1>1, <1>2, <2>2, <3>1, <3>2 DEF RetryOK, TypeOK, RetryAttempts, Accepted
  <2>3. QED
    BY <2>1, <2>2
<1>4. \A d \in Calls \ {c} : /\ pc'[d] = pc[d] /\ args'[d] = args[d]
                             /\ errors'[d] = errors[d] /\ attempt'[d] = attempt[d]
  BY DEF TypeOK
<1>5. QED
  BY <1>3, <1>4, RetryOthers

LEMMA RetryNext == TypeOK /\ RetryInv /\ [Next]_vars => RetryInv'
<1> SUFFICES ASSUME TypeOK, RetryInv, [Next]_vars PROVE RetryInv'
  OBVIOUS
<1>1. ASSUME UNCHANGED vars PROVE RetryInv'
  BY <1>1 DEF vars, RetryInv, RetryOK, AllTransient
<1>2. ASSUME NEW c \in Calls, NEW a \in Arguments, Refuse(c, a) PROVE RetryInv'
  <2>1. RetryOK(c)'
    BY <1>2 DEF Refuse, RetryInv, RetryOK, TypeOK
  <2>2. QED
    BY <1>2, <2>1, RetryOthers DEF Refuse, TypeOK
<1>3. ASSUME NEW c \in Calls, NEW a \in Arguments, Start(c, a) PROVE RetryInv'
  <2>1. /\ pc'[c] = "calling" /\ args'[c] = a /\ Accepted(a)
        /\ errors'[c] = <<>> /\ attempt'[c] = 0
    BY <1>3 DEF Start, RetryInv, RetryOK, TypeOK
  <2>2. RetryAttempts(a) \in Nat
    BY <2>1, BudgetType
  <2>3. RetryOK(c)'
    BY <2>1, <2>2 DEF RetryOK, AllTransient, Accepted, RetryAttempts
  <2>4. QED
    BY <1>3, <2>3, RetryOthers DEF Start, TypeOK
<1>4. ASSUME NEW c \in Calls, NEW r \in Responses,
             Succeed(c, r) \/ SuccessNotWritten(c, r) \/ CostUnknown(c, r)
      PROVE  RetryInv'
  BY <1>4, RetryEnds DEF Succeed, SuccessNotWritten, CostUnknown, ErrorPath, EndSpan, TypeOK
<1>5. ASSUME NEW c \in Calls, NEW e \in Raisable, Retry(c, e) PROVE RetryInv'
  <2>1. /\ Len(errors[c]) = attempt[c] /\ AllTransient(c)
        /\ errors[c] \in Seq(Raisable) /\ Accepted(args[c])
        /\ attempt[c] \in Nat
    BY <1>5 DEF Retry, RetryInv, RetryOK, TypeOK
  <2>2. RetryAttempts(args[c]) \in Nat
    BY <2>1, BudgetType
  <2>3. errors'[c] = Append(errors[c], e) /\ Len(errors'[c]) = attempt[c] + 1
    BY <1>5, <2>1 DEF Retry, TypeOK
  <2>4. Transient(e) /\ attempt[c] < RetryAttempts(args[c])
    BY <1>5, RaisableType, RetryableIsTransient DEF Retry, RetryAllowed
  <2>5. AllTransient(c)'
    BY <2>1, <2>3, <2>4 DEF AllTransient
  <2>6. RetryOK(c)'
    BY <1>5, <2>1, <2>2, <2>3, <2>4, <2>5
    DEF Retry, RetryOK, AllTransient, TypeOK, RetryAttempts, Accepted
  <2>7. QED
    BY <1>5, <2>6, RetryOthers DEF Retry, TypeOK
<1>6. ASSUME NEW c \in Calls, NEW e \in Raisable, GiveUp(c, e) PROVE RetryInv'
  BY <1>6, RetryEnds DEF GiveUp, ErrorPath, EndSpan, TypeOK
<1>7. ASSUME NEW c \in Calls, BackoffElapsed(c) PROVE RetryInv'
  <2>1. /\ Len(errors[c]) = attempt[c] + 1 /\ attempt[c] \in Nat
        /\ attempt[c] < RetryAttempts(args[c]) /\ AllTransient(c)
        /\ Accepted(args[c])
    BY <1>7 DEF BackoffElapsed, RetryInv, RetryOK, TypeOK
  <2>2. RetryAttempts(args[c]) \in Nat
    BY <2>1, BudgetType
  <2>3. /\ pc'[c] = "calling" /\ attempt'[c] = attempt[c] + 1
        /\ UNCHANGED <<errors, args, span>>
    BY <1>7 DEF BackoffElapsed, TypeOK
  <2>4. RetryOK(c)'
    BY <2>1, <2>2, <2>3 DEF RetryOK, AllTransient, RetryAttempts, Accepted
  <2>5. QED
    BY <1>7, <2>4, RetryOthers DEF BackoffElapsed, TypeOK
<1>8. ASSUME NEW c \in Calls, Cancel(c) PROVE RetryInv'
  <2>1. /\ Len(errors[c]) <= RetryAttempts(args[c]) + 1 /\ Accepted(args[c])
        /\ \A i \in 1..Len(errors[c]) : i < Len(errors[c]) => Transient(errors[c][i])
    BY <1>8 DEF Cancel, RetryInv, RetryOK, TypeOK
  <2>2. pc'[c] = "cancelled" /\ UNCHANGED <<errors, args, attempt>>
    BY <1>8 DEF Cancel, TypeOK
  <2>3. RetryOK(c)'
    BY <2>1, <2>2 DEF RetryOK, RetryAttempts, Accepted
  <2>4. QED
    BY <1>8, <2>3, RetryOthers DEF Cancel, EndSpan, TypeOK
<1>9. QED
  BY <1>1, <1>2, <1>3, <1>4, <1>5, <1>6, <1>7, <1>8, AnswerType
  DEF Next, AllDone, Call, ProviderAnswers

LEMMA RetryInit == Init => RetryInv
BY DEF Init, RetryInv, RetryOK, AllTransient

\* The provider is asked at most retry_attempts + 1 times for one call.
THEOREM BudgetKept == Spec => []RetryBudget
<1>1. RetryInv => RetryBudget
  BY DEF RetryInv, RetryOK, RetryBudget
<1>2. QED
  BY <1>1, TypeInit, TypeNext, RetryInit, RetryNext, PTL DEF Spec

\* For every adapter, built in or with the defaults, only a failure that the
\* taxonomy calls passing is followed by another attempt.
THEOREM TransientRetried == Spec => []OnlyTransientRetried
<1>1. RetryInv => OnlyTransientRetried
  BY DEF RetryInv, RetryOK, OnlyTransientRetried, AllTransient
<1>2. QED
  BY <1>1, TypeInit, TypeNext, RetryInit, RetryNext, PTL DEF Spec

(***************************************************************************)
(* Rows and outcomes: every row that can be read says what its caller and  *)
(* its span were told; and while no append fails the file is the ledger    *)
(* that GatewayContract promises.                                          *)
(*                                                                         *)
(* The merge of the metadata protects attribution only.  What is proved    *)
(* here is therefore proved of callers whose metadata do not name the      *)
(* fields a row is judged by.                                              *)
(***************************************************************************)

Judged == {"request_id", "status", "estimated_cost_usd", "tokens_in", "tokens_out",
           "error_type"}

PlainMetadata == \A a \in Arguments : DOMAIN a.metadata \cap Judged = {}

-----------------------------------------------------------------------------
(* The row of an envelope.                                                 *)

LEMMA EventFields ==
    ASSUME NEW env, NEW md, "status" \in DOMAIN env, env.status # None,
           DOMAIN md \cap Judged = {}
    PROVE  /\ Event(env, md)["status"] = Status(env)
           /\ \A key \in Judged :
                key \in DOMAIN Event(env, md) <=> key \in DOMAIN env /\ env[key] # None
           /\ \A key \in Judged \ {"status"} :
                key \in DOMAIN env /\ env[key] # None => Event(env, md)[key] = env[key]
<1> DEFINE base == [ToDict(env) EXCEPT !["status"] = Status(env)]
           merged == DOMAIN md \ ProtectedFields
<1>1. /\ DOMAIN base = {k \in DOMAIN env : env[k] # None}
      /\ base["status"] = Status(env)
      /\ \A k \in DOMAIN base \ {"status"} : base[k] = env[k]
  BY DEF ToDict
<1>2. \A key \in Judged : key \notin merged
  OBVIOUS
<1>3. Event(env, md) = [key \in DOMAIN base \cup merged |->
                          IF key \in merged THEN md[key] ELSE base[key]]
  BY DEF Event
<1>4. "status" \in Judged
  BY DEF Judged
<1> HIDE DEF base, merged
<1>5. \A key \in Judged : /\ key \in DOMAIN Event(env, md) <=> key \in DOMAIN base
                          /\ key \in DOMAIN base => Event(env, md)[key] = base[key]
  BY <1>2, <1>3
<1>6. "status" \in DOMAIN base
  BY <1>1
<1>7. QED
  BY <1>1, <1>4, <1>5, <1>6

SuccessRow(c, r) == Event(SuccessEnvelope(c, r), Metadata(c))
ErrorRow(c, exc) == Event(ErrorEnvelope(c, exc), Metadata(c))

LEMMA SuccessRowFields ==
    ASSUME PlainMetadata, NEW c \in Calls, args[c] \in Arguments, Priced(args[c]),
           NEW r \in Responses
    PROVE  /\ SuccessRow(c, r).request_id = c
           /\ SuccessRow(c, r).status = "success"
           /\ SuccessRow(c, r).estimated_cost_usd = Cost(args[c], r)
           /\ SuccessRow(c, r).tokens_in = r.tokens_in
           /\ SuccessRow(c, r).tokens_out = r.tokens_out
           /\ "error_type" \notin DOMAIN SuccessRow(c, r)
<1> DEFINE env == SuccessEnvelope(c, r)
<1>1. /\ env.request_id = c /\ env.status = "ok" /\ env.error_type = None
      /\ env.estimated_cost_usd = Cost(args[c], r)
      /\ env.tokens_in = r.tokens_in /\ env.tokens_out = r.tokens_out
      /\ Judged \subseteq DOMAIN env
  BY DEF SuccessEnvelope, Envelope, Judged
<1>2. DOMAIN Metadata(c) \cap Judged = {}
  BY DEF PlainMetadata, Metadata
<1>3. Status(env) = "success"
  BY <1>1 DEF Status
<1>4. Cost(args[c], r) # None /\ r.tokens_in # None /\ r.tokens_out # None
  BY CostType, ResponseType, NoneAssumption
<1>5. c # None /\ "ok" # None
  BY NoneAssumption
<1> HIDE DEF env
<1>6. "status" \in DOMAIN env /\ env.status # None
  BY <1>1, <1>5 DEF Judged
<1>7. /\ Event(env, Metadata(c))["status"] = Status(env)
      /\ \A key \in Judged :
           key \in DOMAIN Event(env, Metadata(c)) <=> key \in DOMAIN env /\ env[key] # None
      /\ \A key \in Judged \ {"status"} :
           key \in DOMAIN env /\ env[key] # None => Event(env, Metadata(c))[key] = env[key]
  BY <1>2, <1>6, EventFields
<1>8. QED
  BY <1>1, <1>3, <1>4, <1>5, <1>7 DEF SuccessRow, env, Judged

LEMMA ErrorRowFields ==
    ASSUME PlainMetadata, NEW c \in Calls, args[c] \in Arguments, NEW exc
    PROVE  /\ ErrorRow(c, exc).request_id = c
           /\ ErrorRow(c, exc).status = "error"
           /\ ErrorRow(c, exc).estimated_cost_usd = 0
           /\ ErrorRow(c, exc).error_type = ErrorEnvelope(c, exc).error_type
<1> DEFINE env == ErrorEnvelope(c, exc)
<1>1. /\ env.request_id = c /\ env.status = "error" /\ env.estimated_cost_usd = 0
      /\ env.error_type = CategorizeError(Provider(args[c]), exc)
      /\ Judged \subseteq DOMAIN env
  BY DEF ErrorEnvelope, Envelope, Judged
<1>2. DOMAIN Metadata(c) \cap Judged = {}
  BY DEF PlainMetadata, Metadata
<1>3. c # None /\ "error" # None /\ 0 # None /\ env.error_type # None /\ "error" # "ok"
  BY <1>1, CategoryType, NoneAssumption
<1>4. Status(env) = "error"
  BY <1>1, <1>3 DEF Status
<1> HIDE DEF env
<1>5. "status" \in DOMAIN env /\ env.status # None
  BY <1>1, <1>3 DEF Judged
<1>6. /\ Event(env, Metadata(c))["status"] = Status(env)
      /\ \A key \in Judged \ {"status"} :
           key \in DOMAIN env /\ env[key] # None => Event(env, Metadata(c))[key] = env[key]
  BY <1>2, <1>5, EventFields
<1>7. QED
  BY <1>1, <1>3, <1>4, <1>6 DEF ErrorRow, env, Judged

-----------------------------------------------------------------------------
(* The two steps that record a call.                                       *)

LEMMA AppendLine ==
    ASSUME NEW lines, lines \in Seq(Range(lines)), NEW row
    PROVE  LET more == Append(lines, row) IN
           /\ more \in Seq(Range(more))
           /\ DOMAIN lines = 1..Len(lines) /\ DOMAIN more = 1..(Len(lines) + 1)
           /\ Len(lines) \in Nat
           /\ \A i \in 1..Len(lines) : more[i] = lines[i]
           /\ more[Len(lines) + 1] = row
<1> DEFINE T == Range(lines) \cup {row}
           more == Append(lines, row)
<1>1. lines \in Seq(T) /\ row \in T
  OBVIOUS
<1> HIDE DEF T
<1>2. /\ more \in Seq(T) /\ Len(more) = Len(lines) + 1 /\ Len(lines) \in Nat
      /\ DOMAIN lines = 1..Len(lines) /\ DOMAIN more = 1..Len(more)
      /\ \A i \in 1..Len(lines) : more[i] = lines[i]
      /\ more[Len(lines) + 1] = row
  BY <1>1, AppendProperties
<1> HIDE DEF more
<1>3. more \in [1..Len(more) -> Range(more)] /\ Len(more) \in Nat
  BY <1>2 DEF Range
<1>4. more \in Seq(Range(more))
  BY <1>3
<1>5. QED
  BY <1>2, <1>4 DEF more

\* What a recorded call has told its caller and its span is what its row says,
\* whether or not the row can be written.
Tells(row, c) ==
    /\ pc[c] = "calling" /\ pc' \in {[pc EXCEPT ![c] = s] : s \in {"returned", "raised"}}
    /\ row.request_id = c
    /\ UNCHANGED args
    /\ \A d \in Calls \ {c} : span'[d] = span[d] /\ outcome'[d] = outcome[d]

LEMMA SucceedTells ==
    ASSUME TypeOK, PlainMetadata,
           NEW c \in Calls, NEW r \in Responses, Succeed(c, r),
           NEW row, row = SuccessRow(c, r)
    PROVE  /\ Tells(row, c)
           /\ jsonl' = AppendEvent(jsonl, row, "complete")
           /\ pc' = [pc EXCEPT ![c] = "returned"]
           /\ row.status = "success"
           /\ row.estimated_cost_usd = Cost(args[c], r)
           /\ Agrees(row, c)'
<1>1. /\ pc[c] = "calling" /\ Priced(args[c]) /\ UNCHANGED args
      /\ pc' = [pc EXCEPT ![c] = "returned"]
      /\ jsonl' = AppendEvent(jsonl, row, "complete")
      /\ EndSpan(c, "unset", None, SuccessEnvelope(c, r).estimated_cost_usd)
      /\ outcome' = [outcome EXCEPT ![c] =
           [tokens_in |-> r.tokens_in, tokens_out |-> r.tokens_out,
            estimated_cost_usd |-> SuccessEnvelope(c, r).estimated_cost_usd]]
  BY DEF Succeed, SuccessRow
<1>2. args[c] \in Arguments
  BY <1>1 DEF TypeOK
<1>3. /\ row.request_id = c
      /\ row.status = "success"
      /\ row.estimated_cost_usd = Cost(args[c], r)
      /\ row.tokens_in = r.tokens_in
      /\ row.tokens_out = r.tokens_out
      /\ "error_type" \notin DOMAIN row
  BY <1>1, <1>2, SuccessRowFields
<1>4. SuccessEnvelope(c, r).estimated_cost_usd = Cost(args[c], r)
  BY DEF SuccessEnvelope, Envelope
<1>5. \A d \in Calls \ {c} : span'[d] = span[d] /\ outcome'[d] = outcome[d]
  BY <1>1 DEF EndSpan, TypeOK
<1>6. /\ pc'[c] = "returned"
      /\ span'[c] = [ended |-> TRUE, status |-> "unset", category |-> None,
                     cost |-> Cost(args[c], r)]
      /\ outcome'[c] = [tokens_in |-> r.tokens_in, tokens_out |-> r.tokens_out,
                        estimated_cost_usd |-> Cost(args[c], r)]
  BY <1>1, <1>4 DEF EndSpan, TypeOK
<1>7. Agrees(row, c)'
  BY <1>3, <1>6 DEF Agrees, Result
<1>8. QED
  BY <1>1, <1>3, <1>5, <1>7 DEF Tells

LEMMA ErrorPathTells ==
    ASSUME TypeOK, PlainMetadata,
           NEW c \in Calls, pc[c] = "calling", NEW exc, NEW m, NEW file, NEW spanCost,
           ErrorPath(c, exc, m, file, spanCost), UNCHANGED args,
           NEW row, row = ErrorRow(c, exc)
    PROVE  /\ Tells(row, c)
           /\ \E w \in Writes(Metadata(c), SinkFaults) : jsonl' = AppendEvent(file, row, w)
           /\ pc' = [pc EXCEPT ![c] = "raised"]
           /\ row.status = "error"
           /\ row.estimated_cost_usd = 0
           /\ Agrees(row, c)'
<1>1. /\ pc' = [pc EXCEPT ![c] = "raised"]
      /\ \E w \in Writes(Metadata(c), SinkFaults) : jsonl' = AppendEvent(file, row, w)
      /\ EndSpan(c, "error", ErrorEnvelope(c, exc).error_type, spanCost)
      /\ \A d \in Calls \ {c} : outcome'[d] = outcome[d]
  BY DEF ErrorPath, ErrorRow, TypeOK
<1>2. args[c] \in Arguments
  BY DEF TypeOK
<1>3. /\ row.request_id = c
      /\ row.status = "error"
      /\ row.estimated_cost_usd = 0
      /\ row.error_type = ErrorEnvelope(c, exc).error_type
  BY <1>2, ErrorRowFields
<1>4. /\ pc'[c] = "raised" /\ span'[c].ended
      /\ span'[c].category = ErrorEnvelope(c, exc).error_type
      /\ \A d \in Calls \ {c} : span'[d] = span[d]
  BY <1>1 DEF EndSpan, TypeOK
<1>5. Agrees(row, c)'
  BY <1>3, <1>4 DEF Agrees, Result
<1>6. QED
  BY <1>1, <1>3, <1>4, <1>5 DEF Tells

-----------------------------------------------------------------------------
(* With failing appends: what can be read is true and single.              *)

\* An append adds one line or none: the row, or what is left of it.
LEMMA AppendLines ==
    ASSUME NEW file, NEW event, NEW md, NEW w \in Writes(md, SinkFaults)
    PROVE  LET lines == AppendEvent(file, event, w).lines IN
           \/ lines = file.lines
           \/ \E line \in {event, Malformed} : lines = Append(file.lines, line)
<1>1. w \in {"complete", "torn", "unopened"}
  BY FaultAssumption DEF Writes
<1>2. QED
  BY <1>1 DEF AppendEvent

ReadableInv ==
    /\ jsonl.lines \in Seq(Range(jsonl.lines))
    /\ \A c \in Calls : /\ ~Recorded(c) => RowsOf(c) = {}
                        /\ \A i, j \in RowsOf(c) : i = j
                        /\ \A i \in RowsOf(c) : Agrees(Row(i), c)

LEMMA ReadableTold ==
    ASSUME TypeOK, ReadableInv, NEW c \in Calls, NEW row, Tells(row, c), Agrees(row, c)',
           \/ jsonl'.lines = jsonl.lines
           \/ \E line \in {row, Malformed} : jsonl'.lines = Append(jsonl.lines, line)
    PROVE  ReadableInv'
<1>1. /\ RowsOf(c) = {} /\ row.request_id = c
      /\ \A d \in Calls \ {c} : /\ pc'[d] = pc[d] /\ span'[d] = span[d]
                                 /\ outcome'[d] = outcome[d]
  BY DEF Tells, ReadableInv, Recorded, TypeOK
<1>2. Recorded(c)'
  BY DEF Tells, Recorded, TypeOK
<1>3. ASSUME NEW d \in Calls \ {c}, NEW line, Agrees(line, d) PROVE Agrees(line, d)'
  BY <1>1, <1>3 DEF Agrees, Result
<1>4. \A d \in Calls \ {c} : Recorded(d)' <=> Recorded(d)
  BY <1>1 DEF Recorded
<1>5. CASE jsonl'.lines = jsonl.lines
  <2>1. \A d \in Calls : RowsOf(d)' = RowsOf(d)
    BY <1>5 DEF RowsOf, Rows, Row
  <2>2. \A i : Row(i)' = Row(i)
    BY <1>5 DEF Row
  <2>3. ASSUME NEW d \in Calls \ {c}, NEW i \in RowsOf(d)' PROVE Agrees(Row(i), d)'
    <3>1. PICK line : line = Row(i)
      OBVIOUS
    <3>2. Agrees(line, d)'
      BY <1>3, <2>1, <2>3, <3>1 DEF ReadableInv
    <3>3. QED
      BY <2>2, <3>1, <3>2
  <2>4. QED
    BY <1>1, <1>2, <1>4, <1>5, <2>1, <2>3 DEF ReadableInv
<1>6. ASSUME NEW last \in {row, Malformed}, jsonl'.lines = Append(jsonl.lines, last)
      PROVE  ReadableInv'
  <2>1. PICK n : n = Len(jsonl.lines)
    OBVIOUS
  <2>2. /\ jsonl'.lines \in Seq(Range(jsonl'.lines))
        /\ DOMAIN jsonl.lines = 1..n /\ DOMAIN jsonl'.lines = 1..(n + 1) /\ n \in Nat
        /\ \A i \in 1..n : jsonl'.lines[i] = jsonl.lines[i]
        /\ jsonl'.lines[n + 1] = last
    BY <1>6, <2>1, AppendLine DEF ReadableInv
  <2>3. /\ \A i \in 1..(n + 1) : i \in 1..n \/ i = n + 1
        /\ n + 1 \notin 1..n /\ n + 1 \in 1..(n + 1) /\ 1..n \subseteq 1..(n + 1)
    BY <2>2
  <2>4. \A d \in Calls \ {c} : RowsOf(d)' = RowsOf(d)
    BY <1>1, <1>6, <2>2, <2>3 DEF RowsOf, Rows, Row
  <2>5. RowsOf(c)' \subseteq {n + 1} /\ (RowsOf(c)' # {} => last = row)
    BY <1>1, <1>6, <2>2, <2>3 DEF RowsOf, Rows, Row
  <2>6. ASSUME NEW i \in RowsOf(c)' PROVE Agrees(Row(i), c)'
    <3>1. Row(i)' = row
      BY <2>2, <2>5, <2>6 DEF Row
    <3>2. QED
      BY <3>1
  <2>7. ASSUME NEW d \in Calls \ {c}, NEW i \in RowsOf(d)' PROVE Agrees(Row(i), d)'
    <3>1. PICK line : line = Row(i)
      OBVIOUS
    <3>2. i \in RowsOf(d) /\ i \in 1..n
      BY <2>2, <2>4, <2>7 DEF RowsOf, Rows
    <3>3. Row(i)' = line
      BY <2>2, <3>1, <3>2 DEF Row
    <3>4. Agrees(line, d)'
      BY <1>3, <3>1, <3>2 DEF ReadableInv
    <3>5. QED
      BY <3>3, <3>4
  <2>8. QED
    BY <1>2, <1>4, <2>2, <2>4, <2>5, <2>6, <2>7 DEF ReadableInv
<1>7. QED
  BY <1>5, <1>6

LEMMA ReadableQuiet ==
    ASSUME ReadableInv, UNCHANGED jsonl,
           \A c \in Calls : /\ Recorded(c)' <=> Recorded(c)
                            /\ Recorded(c) => /\ pc'[c] = pc[c] /\ span'[c] = span[c]
                                              /\ outcome'[c] = outcome[c]
    PROVE  ReadableInv'
<1>1. /\ \A c \in Calls : RowsOf(c)' = RowsOf(c)
      /\ \A i : Row(i)' = Row(i)
  BY DEF RowsOf, Rows, Row
<1>2. ASSUME NEW c \in Calls, NEW i \in RowsOf(c) PROVE Agrees(Row(i), c)'
  <2>1. PICK line : line = Row(i)
    OBVIOUS
  <2>2. Recorded(c) /\ Agrees(line, c)
    BY <1>2, <2>1 DEF ReadableInv
  <2>3. Agrees(line, c)'
    BY <2>2 DEF Agrees, Result
  <2>4. QED
    BY <1>1, <2>1, <2>3
<1>3. QED
  BY <1>1, <1>2 DEF ReadableInv

LEMMA ReadableNext == PlainMetadata /\ TypeOK /\ ReadableInv /\ [Next]_vars => ReadableInv'
<1> SUFFICES ASSUME PlainMetadata, TypeOK, ReadableInv, [Next]_vars PROVE ReadableInv'
  OBVIOUS
<1>1. CASE UNCHANGED vars
  BY <1>1, ReadableQuiet DEF vars, Recorded
<1>2. ASSUME NEW c \in Calls, UNCHANGED jsonl,
             \A d \in Calls \ {c} : /\ pc'[d] = pc[d] /\ span'[d] = span[d]
                                    /\ outcome'[d] = outcome[d],
             ~Recorded(c), ~Recorded(c)'
      PROVE  ReadableInv'
  BY <1>2, ReadableQuiet DEF Recorded
<1>3. ASSUME NEW c \in Calls, NEW a \in Arguments, Refuse(c, a) \/ Start(c, a)
      PROVE  ReadableInv'
  BY <1>2, <1>3 DEF Refuse, Start, Recorded, TypeOK
<1>4. ASSUME NEW c \in Calls, NEW r \in Responses, Succeed(c, r) PROVE ReadableInv'
  <2>1. PICK row : row = SuccessRow(c, r)
    OBVIOUS
  <2>2. /\ Tells(row, c) /\ Agrees(row, c)'
        /\ jsonl' = AppendEvent(jsonl, row, "complete")
    BY <1>4, <2>1, SucceedTells
  <2>3. "complete" \in Writes(Metadata(c), SinkFaults)
    BY <1>4 DEF Succeed
  <2>4. QED
    BY <2>2, <2>3, AppendLines, ReadableTold
<1>5. ASSUME NEW c \in Calls, NEW exc, NEW m, NEW file, NEW spanCost, pc[c] = "calling",
             UNCHANGED args, ErrorPath(c, exc, m, file, spanCost),
             file.lines = jsonl.lines
      PROVE  ReadableInv'
  <2>1. PICK row : row = ErrorRow(c, exc)
    OBVIOUS
  <2>2. /\ Tells(row, c) /\ Agrees(row, c)'
        /\ \E w \in Writes(Metadata(c), SinkFaults) : jsonl' = AppendEvent(file, row, w)
    BY <1>5, <2>1, ErrorPathTells
  <2>3. QED
    BY <1>5, <2>2, AppendLines, ReadableTold
<1>6. ASSUME NEW c \in Calls, NEW r \in Responses, SuccessNotWritten(c, r)
      PROVE  ReadableInv'
  <2>1. PICK w \in Writes(Metadata(c), SinkFaults) \ {"complete"} :
          ErrorPath(c, AppendError(Metadata(c), w),
                    RecordMetrics(metrics, SuccessEnvelope(c, r), Metadata(c)),
                    AppendEvent(jsonl, SuccessRow(c, r), w),
                    SuccessEnvelope(c, r).estimated_cost_usd)
    BY <1>6 DEF SuccessNotWritten, SuccessRow
  <2>2. AppendEvent(jsonl, SuccessRow(c, r), w).lines = jsonl.lines
    BY FaultAssumption DEF AppendEvent, Writes
  <2>3. pc[c] = "calling" /\ UNCHANGED args
    BY <1>6 DEF SuccessNotWritten
  <2>4. QED
    BY <1>5, <2>1, <2>2, <2>3
<1>7. ASSUME NEW c \in Calls, NEW r \in Responses, CostUnknown(c, r) PROVE ReadableInv'
  BY <1>5, <1>7 DEF CostUnknown
<1>8. ASSUME NEW c \in Calls, NEW e \in Raisable, GiveUp(c, e) PROVE ReadableInv'
  BY <1>5, <1>8 DEF GiveUp
<1>9. ASSUME NEW c \in Calls, NEW e \in Raisable, Retry(c, e) PROVE ReadableInv'
  BY <1>2, <1>9 DEF Retry, Recorded, TypeOK
<1>10. ASSUME NEW c \in Calls, BackoffElapsed(c) PROVE ReadableInv'
  BY <1>2, <1>10 DEF BackoffElapsed, Recorded, TypeOK
<1>11. ASSUME NEW c \in Calls, Cancel(c) PROVE ReadableInv'
  BY <1>2, <1>11 DEF Cancel, EndSpan, Recorded, TypeOK
<1>12. QED
  BY <1>1, <1>3, <1>4, <1>6, <1>7, <1>8, <1>9, <1>10, <1>11, AnswerType
  DEF Next, AllDone, Call, ProviderAnswers

\* Whatever the file system does to the appends, at most one row of a call can
\* be read, and it is true.
THEOREM ReadableRowsAreTrue == PlainMetadata => (Spec => []ReadableRowsTrue)
<1> SUFFICES ASSUME PlainMetadata PROVE Spec => []ReadableRowsTrue
  OBVIOUS
<1>1. Init => ReadableInv
  BY DEF Init, ReadableInv, EmptyFile, RowsOf, Rows, Range
<1>2. ASSUME ReadableInv, NEW c \in Calls PROVE Cardinality(RowsOf(c)) <= 1
  <2>1. CASE RowsOf(c) = {}
    BY <2>1, FS_EmptySet
  <2>2. ASSUME NEW i \in RowsOf(c) PROVE Cardinality(RowsOf(c)) <= 1
    <3>1. RowsOf(c) = {i}
      BY <1>2, <2>2 DEF ReadableInv
    <3>2. Cardinality(RowsOf(c)) = 1
      BY <3>1, FS_Singleton
    <3>3. QED
      BY <3>2
  <2>3. QED
    BY <2>1, <2>2
<1>3. ReadableInv => ReadableRowsTrue
  BY <1>2 DEF ReadableInv, ReadableRowsTrue
<1>4. TypeOK /\ ReadableInv /\ [Next]_vars => ReadableInv'
  BY ReadableNext
<1>5. QED
  BY <1>1, <1>3, <1>4, TypeInit, TypeNext, PTL DEF Spec

-----------------------------------------------------------------------------
(* With sinks that work: every recorded call has its row.                  *)

\* No fragment is ever in the file, whose lines are a sequence.
Sound == jsonl.torn = FALSE /\ jsonl.lines \in Seq(Range(jsonl.lines))

\* Everything that happens to a call until it is recorded.
Recording(c, row) ==
    Tells(row, c) /\ jsonl' = [lines |-> Append(jsonl.lines, row), torn |-> FALSE]

LEMMA OnlyComplete ==
    ASSUME TypeOK, HealthySinks, NEW c \in Calls, pc[c] # "idle"
    PROVE  args[c] \in Arguments /\ Writes(Metadata(c), SinkFaults) = {"complete"}
<1>1. args[c] \in Arguments
  BY DEF TypeOK
<1>2. QED
  BY <1>1 DEF HealthySinks, Writes, Metadata

LEMMA SucceedRecords ==
    ASSUME TypeOK, Sound, PlainMetadata,
           NEW c \in Calls, NEW r \in Responses, Succeed(c, r),
           NEW row, row = SuccessRow(c, r)
    PROVE  /\ Recording(c, row)
           /\ pc' = [pc EXCEPT ![c] = "returned"]
           /\ row.status = "success"
           /\ row.estimated_cost_usd = Cost(args[c], r)
           /\ Agrees(row, c)'
BY SucceedTells DEF Recording, AppendEvent, Sound

LEMMA ErrorPathRecords ==
    ASSUME TypeOK, Sound, HealthySinks, PlainMetadata,
           NEW c \in Calls, pc[c] = "calling", NEW exc, NEW m, NEW spanCost,
           ErrorPath(c, exc, m, jsonl, spanCost), UNCHANGED args,
           NEW row, row = ErrorRow(c, exc)
    PROVE  /\ Recording(c, row)
           /\ pc' = [pc EXCEPT ![c] = "raised"]
           /\ row.status = "error"
           /\ row.estimated_cost_usd = 0
           /\ Agrees(row, c)'
<1>1. Writes(Metadata(c), SinkFaults) = {"complete"}
  BY OnlyComplete
<1>2. QED
  BY <1>1, ErrorPathTells DEF Recording, AppendEvent, Sound

-----------------------------------------------------------------------------
(* A step records a call, or leaves the file and the recorded calls alone. *)

\* A call that is not over, and not recorded by this step either.
Advances(c) ==
    /\ pc[c] \in {"calling", "backoff"}
    /\ pc' \in {[pc EXCEPT ![c] = s] : s \in {"calling", "backoff", "cancelled"}}
    /\ UNCHANGED <<args, metrics, jsonl>>
    /\ \A d \in Calls \ {c} : span'[d] = span[d] /\ outcome'[d] = outcome[d]

LEMMA StepForms ==
    ASSUME TypeOK, HealthySinks, [Next]_vars
    PROVE  \/ UNCHANGED vars
           \/ \E c \in Calls, a \in Arguments : Refuse(c, a) \/ Start(c, a)
           \/ \E c \in Calls, r \in Responses : Succeed(c, r)
           \/ \E c \in Calls : \E exc :
                 /\ pc[c] = "calling" /\ UNCHANGED args
                 /\ ErrorPath(c, exc, metrics, jsonl, None)
           \/ \E c \in Calls : Advances(c)
<1>1. ASSUME NEW c \in Calls, NEW r \in Responses PROVE ~SuccessNotWritten(c, r)
  BY OnlyComplete DEF SuccessNotWritten
<1>2. ASSUME NEW c \in Calls, NEW e \in Raisable, Retry(c, e) PROVE Advances(c)
  BY <1>2 DEF Retry, Advances
<1>3. ASSUME NEW c \in Calls, BackoffElapsed(c) PROVE Advances(c)
  BY <1>3 DEF BackoffElapsed, Advances
<1>4. ASSUME NEW c \in Calls, Cancel(c) PROVE Advances(c)
  BY <1>4 DEF Cancel, EndSpan, Advances, TypeOK
<1>5. ASSUME NEW c \in Calls, NEW r \in Responses, CostUnknown(c, r)
      PROVE  \E exc : /\ pc[c] = "calling" /\ UNCHANGED args
                      /\ ErrorPath(c, exc, metrics, jsonl, None)
  BY <1>5 DEF CostUnknown
<1>6. ASSUME NEW c \in Calls, NEW e \in Raisable, GiveUp(c, e)
      PROVE  \E exc : /\ pc[c] = "calling" /\ UNCHANGED args
                      /\ ErrorPath(c, exc, metrics, jsonl, None)
  BY <1>6 DEF GiveUp
<1>7. QED
  BY <1>1, <1>2, <1>3, <1>4, <1>5, <1>6, AnswerType
  DEF Next, AllDone, Call, ProviderAnswers

-----------------------------------------------------------------------------
(* The contract.  The mapping reads the file as the ledger, so it has to be *)
(* shown that nothing but recorded calls writes to it.                     *)

LedgerOf(lines) == [i \in DOMAIN lines |-> EntryOf(lines[i])]

Contracted == TypeOK /\ Sound /\ RetryInv

LEMMA RecordingCloses ==
    ASSUME Contracted, NEW c \in Calls, NEW row, Recording(c, row)
    PROVE  /\ Sound'
           /\ LedgerOf(jsonl.lines)' = Append(LedgerOf(jsonl.lines), EntryOf(row))
<1> DEFINE lines == jsonl.lines
           more == Append(lines, row)
<1>1. jsonl' = [lines |-> more, torn |-> FALSE] /\ lines \in Seq(Range(lines))
  BY DEF Recording, Contracted, Sound
<1>2. /\ more \in Seq(Range(more))
      /\ DOMAIN lines = 1..Len(lines) /\ DOMAIN more = 1..(Len(lines) + 1)
      /\ Len(lines) \in Nat
      /\ \A i \in 1..Len(lines) : more[i] = lines[i]
      /\ more[Len(lines) + 1] = row
  BY <1>1, AppendLine
<1> HIDE DEF more
<1>3. jsonl'.lines = more /\ jsonl'.torn = FALSE
  BY <1>1
<1>4. LedgerOf(more) = Append(LedgerOf(lines), EntryOf(row))
  <2> DEFINE old == LedgerOf(lines)
             new == LedgerOf(more)
             T == Range(old) \cup {EntryOf(row)}
  <2> HIDE DEF lines
  <2>1. /\ DOMAIN old = 1..Len(lines) /\ old \in Seq(T) /\ Len(old) = Len(lines)
        /\ EntryOf(row) \in T
    BY <1>2 DEF LedgerOf, Range
  <2>2. /\ DOMAIN new = 1..(Len(lines) + 1)
        /\ new = [i \in 1..(Len(lines) + 1) |-> EntryOf(more[i])]
    BY <1>2 DEF LedgerOf
  <2>3. \A i \in 1..Len(lines) : old[i] = EntryOf(lines[i])
    BY <1>2 DEF LedgerOf
  <2> DEFINE A == Append(old, EntryOf(row))
  <2> HIDE DEF old, T
  <2>4. /\ A \in Seq(T) /\ Len(A) = Len(lines) + 1
        /\ \A i \in 1..Len(lines) : A[i] = old[i]
        /\ A[Len(lines) + 1] = EntryOf(row)
    BY <2>1, AppendProperties
  <2>5. A = [i \in 1..(Len(lines) + 1) |-> A[i]]
    <3> HIDE DEF A
    <3>1. QED
      BY <1>2, <2>4
  <2>6. ASSUME NEW i \in 1..(Len(lines) + 1) PROVE A[i] = EntryOf(more[i])
    <3> HIDE DEF A
    <3>1. CASE i = Len(lines) + 1
      BY <1>2, <2>4, <3>1
    <3>2. CASE i # Len(lines) + 1
      <4>1. i \in 1..Len(lines)
        BY <1>2, <3>2
      <4>2. QED
        BY <1>2, <2>3, <2>4, <4>1
    <3>3. QED
      BY <3>1, <3>2
  <2>7. new = A
    BY <2>2, <2>5, <2>6
  <2>8. QED
    BY <2>7 DEF old
<1>5. QED
  BY <1>2, <1>3, <1>4 DEF Sound, LedgerOf

LEMMA SoundNext ==
    ASSUME HealthySinks, PlainMetadata, Contracted, [Next]_vars
    PROVE  Contracted'
<1>1. TypeOK' /\ RetryInv'
  BY TypeNext, RetryNext DEF Contracted
<1>2. ASSUME NEW c \in Calls, NEW r \in Responses, Succeed(c, r) PROVE Sound'
  BY <1>2, SucceedRecords, RecordingCloses DEF Contracted
<1>3. ASSUME NEW c \in Calls, NEW exc, NEW m, pc[c] = "calling", UNCHANGED args,
             ErrorPath(c, exc, m, jsonl, None)
      PROVE  Sound'
  BY <1>3, ErrorPathRecords, RecordingCloses DEF Contracted
<1>4. ASSUME UNCHANGED jsonl PROVE Sound'
  BY <1>4 DEF Contracted, Sound
<1>5. QED
  BY <1>1, <1>2, <1>3, <1>4, StepForms DEF Contracted, vars, Refuse, Start, Advances

LEMMA ContractedInit == Init => Contracted
<1>1. Init => Sound
  BY DEF Init, Sound, EmptyFile, Range
<1>2. QED
  BY <1>1, TypeInit, RetryInit DEF Contracted

AbstractStates == [c \in Calls |-> AbstractState(c)]

LEMMA OpenStep ==
    ASSUME TypeOK, NEW c \in Calls, NEW a \in Arguments, Refuse(c, a) \/ Start(c, a)
    PROVE  Contract!Open(c)
<1>1. /\ pc[c] = "idle" /\ UNCHANGED jsonl
      /\ \E s \in {"refused", "calling"} : pc' = [pc EXCEPT ![c] = s]
  BY DEF Refuse, Start
<1>2. PICK s \in {"refused", "calling"} : pc' = [pc EXCEPT ![c] = s]
  BY <1>1
<1>3. AbstractState(c) = "waiting"
  BY <1>1 DEF AbstractState
<1>4. /\ \A d \in Calls \ {c} : AbstractState(d)' = AbstractState(d)
      /\ AbstractState(c)' \in {"open", "refused"}
  <2>1. pc'[c] = s /\ \A d \in Calls \ {c} : pc'[d] = pc[d]
    BY <1>2 DEF TypeOK
  <2>2. QED
    BY <2>1 DEF AbstractState
<1>5. PICK next \in {"open", "refused"} : next = AbstractState(c)'
  BY <1>4
<1>6. AbstractStates' = [AbstractStates EXCEPT ![c] = next]
  BY <1>4, <1>5 DEF AbstractStates
<1>7. QED
  BY <1>1, <1>3, <1>6 DEF Contract!Open, AbstractStates

LEMMA CloseStep ==
    ASSUME Contracted, NEW c \in Calls, NEW row, Recording(c, row),
           NEW status \in {"success", "error"}, row.status = status,
           pc' = [pc EXCEPT ![c] = IF status = "success" THEN "returned" ELSE "raised"]
    PROVE  Contract!Close(c, status, row.estimated_cost_usd)
<1>1. AbstractState(c) = "open"
  BY DEF Recording, Tells, AbstractState
<1>2. AbstractStates' = [AbstractStates EXCEPT ![c] = status]
  <2>1. /\ pc'[c] = IF status = "success" THEN "returned" ELSE "raised"
        /\ \A d \in Calls \ {c} : pc'[d] = pc[d]
    BY DEF Contracted, TypeOK
  <2>2. AbstractState(c)' = status
    <3>1. CASE pc'[c] = "returned" /\ status = "success"
      BY <3>1 DEF AbstractState
    <3>2. CASE pc'[c] = "raised" /\ status = "error"
      BY <3>2 DEF AbstractState
    <3>3. QED
      BY <2>1, <3>1, <3>2
  <2>3. ASSUME NEW d \in Calls \ {c} PROVE AbstractState(d)' = AbstractState(d)
    BY <2>1 DEF AbstractState
  <2>4. QED
    BY <2>2, <2>3 DEF AbstractStates
<1>3. LedgerOf(jsonl.lines)' = Append(LedgerOf(jsonl.lines), EntryOf(row))
  BY RecordingCloses
<1>4. EntryOf(row) = [request_id |-> c, status |-> status, cost |-> row.estimated_cost_usd]
  BY DEF EntryOf, Recording, Tells
<1>5. QED
  BY <1>1, <1>2, <1>3, <1>4 DEF Contract!Close, AbstractStates, LedgerOf

LEMMA ContractStep ==
    ASSUME HealthySinks, PlainMetadata, Contracted, [Next]_vars
    PROVE  \/ Contract!Next
           \/ UNCHANGED <<AbstractStates, LedgerOf(jsonl.lines)>>
<1>1. CASE UNCHANGED vars
  BY <1>1 DEF vars, AbstractStates, AbstractState, LedgerOf
<1>2. ASSUME NEW c \in Calls, NEW a \in Arguments, Refuse(c, a) \/ Start(c, a)
      PROVE  Contract!Next
  BY <1>2, OpenStep DEF Contracted, Contract!Next
<1>3. ASSUME NEW c \in Calls, NEW r \in Responses, Succeed(c, r) PROVE Contract!Next
  <2>1. PICK row : row = SuccessRow(c, r)
    OBVIOUS
  <2>2. /\ Recording(c, row) /\ row.status = "success"
        /\ row.estimated_cost_usd = Cost(args[c], r)
        /\ pc' = [pc EXCEPT ![c] = "returned"]
    BY <1>3, <2>1, SucceedRecords DEF Contracted
  <2>3. Contract!Close(c, "success", Cost(args[c], r))
    BY <2>2, CloseStep
  <2>4. Cost(args[c], r) \in AnswerCosts
    <3>1. args[c] \in Arguments /\ span[c] # None /\ Priced(args[c])
      BY <1>3 DEF Succeed, Contracted, TypeOK
    <3>2. Accepted(args[c])
      BY <3>1 DEF Contracted, RetryInv, RetryOK
    <3>3. QED
      BY <3>1, <3>2 DEF AnswerCosts
  <2>5. QED
    BY <2>3, <2>4 DEF Contract!Next
<1>4. ASSUME NEW c \in Calls, NEW exc, NEW m, pc[c] = "calling", UNCHANGED args,
             ErrorPath(c, exc, m, jsonl, None)
      PROVE  Contract!Next
  <2>1. PICK row : row = ErrorRow(c, exc)
    OBVIOUS
  <2>2. /\ Recording(c, row) /\ row.status = "error" /\ row.estimated_cost_usd = 0
        /\ pc' = [pc EXCEPT ![c] = "raised"]
    BY <1>4, <2>1, ErrorPathRecords DEF Contracted
  <2>3. Contract!Close(c, "error", 0)
    BY <2>2, CloseStep
  <2>4. QED
    BY <2>3 DEF Contract!Next
<1>5. ASSUME NEW c \in Calls, Advances(c)
      PROVE  UNCHANGED <<AbstractStates, LedgerOf(jsonl.lines)>>
  <2>1. UNCHANGED LedgerOf(jsonl.lines)
    BY <1>5 DEF Advances, LedgerOf
  <2>2. \A d \in Calls : AbstractState(d)' = AbstractState(d)
    BY <1>5 DEF Advances, AbstractState, Contracted, TypeOK
  <2>3. QED
    BY <2>1, <2>2 DEF AbstractStates
<1>6. QED
  BY <1>1, <1>2, <1>3, <1>4, <1>5, StepForms DEF Contracted

\* The refinement: whatever calls run at the same time, a caller has its
\* answer exactly when the ledger has the one entry for it.
THEOREM ContractKept == HealthySinks /\ PlainMetadata => (Spec => KeepsContract)
<1> SUFFICES ASSUME HealthySinks, PlainMetadata PROVE Spec => KeepsContract
  OBVIOUS
<1>1. Init => Contract!Init
  BY DEF Init, Contract!Init, AbstractState, EmptyFile
<1>2. Contracted /\ [Next]_vars =>
        [Contract!Next]_<<AbstractStates, LedgerOf(jsonl.lines)>>
  BY ContractStep
<1>3. Contracted /\ [Next]_vars => Contracted'
  BY SoundNext
<1>4. QED
  BY <1>1, <1>2, <1>3, ContractedInit, PTL
  DEF Spec, KeepsContract, Contract!Spec, AbstractStates, LedgerOf

-----------------------------------------------------------------------------
(* Rows and outcomes.                                                      *)

\* A row is told apart from a line nobody can decode.
RowsReadable == \A env, md : Event(env, md) # Malformed

\* The line of a call, once it is recorded, is the only one that names it.
IsLineOf(i, c) ==
    /\ i \in DOMAIN jsonl.lines
    /\ \A j \in DOMAIN jsonl.lines : jsonl.lines[j].request_id = c <=> j = i
    /\ Agrees(jsonl.lines[i], c)

RowsInv ==
    /\ \A i \in DOMAIN jsonl.lines : jsonl.lines[i] # Malformed
    /\ \A c \in Calls :
         IF Recorded(c) THEN \E i : IsLineOf(i, c)
         ELSE \A i \in DOMAIN jsonl.lines : jsonl.lines[i].request_id # c

LEMMA RowsFromInv == RowsInv => RowsMatchOutcomes
<1> SUFFICES ASSUME RowsInv, NEW c \in Calls
             PROVE  /\ Cardinality(RowsOf(c)) = IF Recorded(c) THEN 1 ELSE 0
                    /\ \A i \in RowsOf(c) : Agrees(Row(i), c)
  BY DEF RowsMatchOutcomes
<1>1. Rows = DOMAIN jsonl.lines
  BY DEF RowsInv, Rows
<1>2. CASE Recorded(c)
  <2>1. PICK i : IsLineOf(i, c)
    BY <1>2 DEF RowsInv
  <2>2. RowsOf(c) = {i}
    BY <1>1, <2>1 DEF IsLineOf, RowsOf, Row
  <2>3. QED
    BY <1>2, <2>1, <2>2, FS_Singleton DEF IsLineOf, Row
<1>3. CASE ~Recorded(c)
  <2>1. RowsOf(c) = {}
    BY <1>1, <1>3 DEF RowsInv, RowsOf, Row
  <2>2. QED
    BY <1>3, <2>1, FS_EmptySet
<1>4. QED
  BY <1>2, <1>3

LEMMA RowsRecorded ==
    ASSUME Contracted, RowsInv, NEW c \in Calls, NEW row, Recording(c, row),
           row # Malformed, Agrees(row, c)'
    PROVE  RowsInv'
<1> DEFINE lines == jsonl.lines
<1>0. PICK n : n = Len(lines)
  OBVIOUS
<1>1. /\ jsonl'.lines = Append(lines, row) /\ lines \in Seq(Range(lines))
      /\ ~Recorded(c) /\ Recorded(c)' /\ row.request_id = c
      /\ \A d \in Calls \ {c} : /\ pc'[d] = pc[d] /\ span'[d] = span[d]
                                /\ outcome'[d] = outcome[d]
  BY DEF Recording, Tells, Recorded, Contracted, Sound, TypeOK
<1>2. /\ DOMAIN lines = 1..n /\ DOMAIN jsonl'.lines = 1..(n + 1) /\ n \in Nat
      /\ \A i \in 1..n : jsonl'.lines[i] = lines[i]
      /\ jsonl'.lines[n + 1] = row
  BY <1>0, <1>1, AppendLine
<1>3. /\ \A i \in 1..(n + 1) : i \in 1..n \/ i = n + 1
      /\ n + 1 \notin 1..n /\ n + 1 \in 1..(n + 1) /\ 1..n \subseteq 1..(n + 1)
  BY <1>2
<1>4. \A i \in DOMAIN jsonl'.lines : jsonl'.lines[i] # Malformed
  BY <1>2, <1>3 DEF RowsInv
<1>5. IsLineOf(n + 1, c)'
  BY <1>1, <1>2, <1>3 DEF IsLineOf, RowsInv
<1>6. ASSUME NEW d \in Calls \ {c}
      PROVE  IF Recorded(d)' THEN \E i : IsLineOf(i, d)'
             ELSE \A i \in DOMAIN jsonl'.lines : jsonl'.lines[i].request_id # d
  <2>1. Recorded(d)' <=> Recorded(d)
    BY <1>1 DEF Recorded
  <2>2. ASSUME NEW i, IsLineOf(i, d) PROVE IsLineOf(i, d)'
    <3>1. i \in 1..n /\ i \in 1..(n + 1) /\ jsonl'.lines[i] = lines[i]
      BY <1>2, <1>3, <2>2 DEF IsLineOf
    <3>2. \A j \in DOMAIN jsonl'.lines : jsonl'.lines[j].request_id = d <=> j = i
      BY <1>1, <1>2, <1>3, <2>2, <3>1 DEF IsLineOf
    <3>3. PICK line : line = lines[i]
      OBVIOUS
    <3>4. Agrees(line, d)'
      BY <1>1, <2>2, <3>3 DEF IsLineOf, Agrees, Result
    <3>5. QED
      BY <1>2, <3>1, <3>2, <3>3, <3>4 DEF IsLineOf
  <2>3. QED
    BY <1>1, <1>2, <1>3, <2>1, <2>2 DEF RowsInv
<1>7. QED
  BY <1>1, <1>4, <1>5, <1>6 DEF RowsInv

\* Steps that leave the file alone leave the recorded calls alone.
LEMMA RowsQuiet ==
    ASSUME RowsInv, UNCHANGED jsonl,
           \A c \in Calls : /\ Recorded(c)' <=> Recorded(c)
                            /\ Recorded(c) => /\ pc'[c] = pc[c] /\ span'[c] = span[c]
                                              /\ outcome'[c] = outcome[c]
    PROVE  RowsInv'
<1>1. ASSUME NEW c \in Calls, Recorded(c), NEW i, IsLineOf(i, c) PROVE IsLineOf(i, c)'
  <2>1. PICK line : line = jsonl.lines[i]
    OBVIOUS
  <2>2. Agrees(line, c)'
    BY <1>1, <2>1 DEF IsLineOf, Agrees, Result
  <2>3. QED
    BY <1>1, <2>1, <2>2 DEF IsLineOf
<1>2. QED
  BY <1>1 DEF RowsInv

LEMMA RowsNext ==
    ASSUME HealthySinks, PlainMetadata, RowsReadable, Contracted, RowsInv, [Next]_vars
    PROVE  RowsInv'
<1>1. CASE UNCHANGED vars
  BY <1>1, RowsQuiet DEF vars, Recorded
<1>2. ASSUME NEW c \in Calls, NEW a \in Arguments, Refuse(c, a) \/ Start(c, a)
      PROVE  RowsInv'
  <2>1. UNCHANGED jsonl /\ ~Recorded(c) /\ ~Recorded(c)'
    BY <1>2 DEF Refuse, Start, Recorded, Contracted, TypeOK
  <2>2. \A d \in Calls \ {c} : /\ pc'[d] = pc[d] /\ span'[d] = span[d]
                               /\ outcome'[d] = outcome[d]
    BY <1>2 DEF Refuse, Start, Contracted, TypeOK
  <2>3. QED
    BY <2>1, <2>2, RowsQuiet DEF Recorded
<1>3. ASSUME NEW c \in Calls, NEW r \in Responses, Succeed(c, r) PROVE RowsInv'
  <2>1. PICK row : row = SuccessRow(c, r)
    OBVIOUS
  <2>2. Recording(c, row) /\ Agrees(row, c)'
    BY <1>3, <2>1, SucceedRecords DEF Contracted
  <2>3. row # Malformed
    BY <2>1 DEF RowsReadable, SuccessRow
  <2>4. QED
    BY <2>2, <2>3, RowsRecorded
<1>4. ASSUME NEW c \in Calls, NEW exc, NEW m, pc[c] = "calling", UNCHANGED args,
             ErrorPath(c, exc, m, jsonl, None)
      PROVE  RowsInv'
  <2>1. PICK row : row = ErrorRow(c, exc)
    OBVIOUS
  <2>2. Recording(c, row) /\ Agrees(row, c)'
    BY <1>4, <2>1, ErrorPathRecords DEF Contracted
  <2>3. row # Malformed
    BY <2>1 DEF RowsReadable, ErrorRow
  <2>4. QED
    BY <2>2, <2>3, RowsRecorded
<1>5. ASSUME NEW c \in Calls, Advances(c) PROVE RowsInv'
  <2>1. UNCHANGED jsonl /\ ~Recorded(c) /\ ~Recorded(c)'
    BY <1>5 DEF Advances, Recorded, Contracted, TypeOK
  <2>2. \A d \in Calls \ {c} : /\ pc'[d] = pc[d] /\ span'[d] = span[d]
                               /\ outcome'[d] = outcome[d]
    BY <1>5 DEF Advances, Contracted, TypeOK
  <2>3. QED
    BY <2>1, <2>2, RowsQuiet DEF Recorded
<1>6. QED
  BY <1>1, <1>2, <1>3, <1>4, <1>5, StepForms DEF Contracted

\* One row per recorded call, and it is true: status, tokens, cost and error
\* category are those the caller and the span were given.
THEOREM RowsTell ==
    HealthySinks /\ PlainMetadata /\ RowsReadable => (Spec => []RowsMatchOutcomes)
<1> SUFFICES ASSUME HealthySinks, PlainMetadata, RowsReadable
             PROVE  Spec => []RowsMatchOutcomes
  OBVIOUS
<1>1. Init => RowsInv
  BY DEF Init, RowsInv, Recorded, EmptyFile
<1>2. Contracted /\ RowsInv /\ [Next]_vars => Contracted' /\ RowsInv'
  BY SoundNext, RowsNext
<1>3. QED
  BY <1>1, <1>2, ContractedInit, RowsFromInv, PTL DEF Spec

-----------------------------------------------------------------------------
(* What a failed call says of its failure.                                 *)

\* Every call that may be accepted goes through one of the two built-in
\* adapters; ProviderBase's defaults retry nothing and name no category.
BuiltInAdapters ==
    \A a \in Arguments : Accepted(a) => Provider(a) \in {"openai", "anthropic"}

\* The Anthropic adapter has no case for a 422.
Documented ==
    "UnprocessableEntityError" \in ErrorsRaised =>
        \A a \in Arguments : Accepted(a) => Provider(a) = "openai"

\* Both chains of isinstance tests say what the taxonomy says.
LEMMA CategoryIsTaxonomy ==
    ASSUME NEW p \in {"openai", "anthropic"}, NEW e \in SDKErrors,
           e = "UnprocessableEntityError" => p = "openai"
    PROVE  CategorizeError(p, e) = Taxonomy(e)
BY DEF CategorizeError, Taxonomy, IsInstance, IsAnyOf, InvalidRequestClasses, HttpStatus,
       SDKErrors

FailureNamed(c) ==
    pc[c] = "raised" /\ outcome[c].raised \in SDKErrors =>
        /\ outcome[c].raised \in ErrorsRaised
        /\ Accepted(args[c]) /\ args[c] \in Arguments
        /\ span[c].category = CategorizeError(Provider(args[c]), outcome[c].raised)

FailuresNamed == \A c \in Calls : FailureNamed(c)

LEMMA NamedErrorPath ==
    ASSUME TypeOK, RetryInv, FailuresNamed, NEW c \in Calls, pc[c] = "calling",
           UNCHANGED args, NEW exc, exc \in SDKErrors => exc \in ErrorsRaised,
           NEW m, NEW file, NEW spanCost, ErrorPath(c, exc, m, file, spanCost)
    PROVE  FailuresNamed'
<1>1. PICK w \in Writes(Metadata(c), SinkFaults) :
        outcome' = [outcome EXCEPT ![c] =
             [raised |-> IF w = "complete" THEN exc ELSE AppendError(Metadata(c), w)]]
  BY DEF ErrorPath
<1>2. outcome'[c].raised \in SDKErrors => outcome'[c].raised = exc
  BY <1>1 DEF TypeOK, AppendError, SDKErrors
<1>3. /\ span'[c].category = CategorizeError(Provider(args[c]), exc)
      /\ \A d \in Calls \ {c} : pc'[d] = pc[d] /\ span'[d] = span[d] /\ outcome'[d] = outcome[d]
  BY DEF ErrorPath, EndSpan, ErrorEnvelope, Envelope, TypeOK
<1>4. Accepted(args[c]) /\ args[c] \in Arguments
  BY DEF RetryInv, RetryOK, TypeOK
<1>5. FailureNamed(c)'
  BY <1>2, <1>3, <1>4 DEF FailureNamed, Accepted, Provider
<1>6. ASSUME NEW d \in Calls \ {c} PROVE FailureNamed(d)'
  BY <1>3 DEF FailuresNamed, FailureNamed, Accepted, Provider
<1>7. QED
  BY <1>5, <1>6 DEF FailuresNamed

LEMMA NamedNext == TypeOK /\ RetryInv /\ FailuresNamed /\ [Next]_vars => FailuresNamed'
<1> SUFFICES ASSUME TypeOK, RetryInv, FailuresNamed, [Next]_vars PROVE FailuresNamed'
  OBVIOUS
<1>1. CASE UNCHANGED vars
  BY <1>1 DEF vars, FailuresNamed, FailureNamed
<1>2. ASSUME NEW c \in Calls, \A d \in Calls \ {c} :
               pc'[d] = pc[d] /\ args'[d] = args[d] /\ span'[d] = span[d] /\ outcome'[d] = outcome[d],
             pc'[c] # "raised"
      PROVE  FailuresNamed'
  BY <1>2 DEF FailuresNamed, FailureNamed
<1>3. ASSUME NEW c \in Calls, NEW a \in Arguments, Refuse(c, a) \/ Start(c, a)
      PROVE  FailuresNamed'
  BY <1>2, <1>3 DEF Refuse, Start, TypeOK
<1>4. ASSUME NEW c \in Calls, NEW r \in Responses, Succeed(c, r) PROVE FailuresNamed'
  BY <1>2, <1>4 DEF Succeed, EndSpan, TypeOK
<1>5. ASSUME NEW c \in Calls, NEW r \in Responses, SuccessNotWritten(c, r)
      PROVE  FailuresNamed'
  <2>1. PICK w, m, file, spanCost : ErrorPath(c, AppendError(Metadata(c), w), m, file, spanCost)
    BY <1>5 DEF SuccessNotWritten
  <2>2. AppendError(Metadata(c), w) \notin SDKErrors
    BY DEF AppendError, SDKErrors
  <2>3. QED
    BY <1>5, <2>1, <2>2, NamedErrorPath DEF SuccessNotWritten
<1>6. ASSUME NEW c \in Calls, NEW r \in Responses, CostUnknown(c, r) PROVE FailuresNamed'
  BY <1>6, NamedErrorPath DEF CostUnknown, SDKErrors
<1>7. ASSUME NEW c \in Calls, NEW e \in Raisable, Retry(c, e) \/ BackoffElapsed(c) \/ Cancel(c)
      PROVE  FailuresNamed'
  BY <1>2, <1>7 DEF Retry, BackoffElapsed, Cancel, EndSpan, TypeOK
<1>8. ASSUME NEW c \in Calls, NEW e \in Raisable, GiveUp(c, e) PROVE FailuresNamed'
  BY <1>8, NamedErrorPath DEF GiveUp, Raisable, SDKErrors
<1>9. Raisable # {}
  BY DEF Raisable
<1>10. QED
  BY <1>1, <1>3, <1>4, <1>5, <1>6, <1>7, <1>8, <1>9, AnswerType
  DEF Next, AllDone, Call, ProviderAnswers

\* With the built-in adapters the category on the span of a failed call is
\* the one the taxonomy has for what its caller was raised, whatever the sinks
\* do.
THEOREM CategoriesFollow ==
    BuiltInAdapters /\ Documented => (Spec => []CategoryFollowsTaxonomy)
<1> SUFFICES ASSUME BuiltInAdapters, Documented PROVE Spec => []CategoryFollowsTaxonomy
  OBVIOUS
<1>1. Init => FailuresNamed
  BY DEF Init, FailuresNamed, FailureNamed
<1>2. FailuresNamed => CategoryFollowsTaxonomy
  <2>1. ASSUME FailuresNamed, NEW c \in Calls, pc[c] = "raised", outcome[c].raised \in SDKErrors
        PROVE  span[c].category = Taxonomy(outcome[c].raised)
    BY <2>1, CategoryIsTaxonomy DEF FailuresNamed, FailureNamed, BuiltInAdapters, Documented
  <2>2. QED
    BY <2>1 DEF CategoryFollowsTaxonomy
<1>3. QED
  BY <1>1, <1>2, TypeInit, TypeNext, RetryInit, RetryNext, NamedNext, PTL DEF Spec

-----------------------------------------------------------------------------
(* What a failed call has been through.                                    *)

LEMMA BackoffDoubles ==
    /\ BackoffDelay[0] = 1
    /\ \A n \in Nat : BackoffDelay[n] \in Nat /\ BackoffDelay[n + 1] = 2 * BackoffDelay[n]
<1>1. BackoffDelay = CHOOSE g : g = [n \in Nat |-> IF n = 0 THEN 1 ELSE 2 * g[n - 1]]
  BY DEF BackoffDelay
<1>2. QED
  BY <1>1, DoublingExists

\* With an adapter that says so, every passing failure is tried again.
LEMMA TransientIsRetryable ==
    ASSUME NEW p \in {"openai", "anthropic"}, NEW e \in Errors, Transient(e)
    PROVE  IsRetryable(p, e)
<1>1. e \in {"RateLimitError", "APITimeoutError", "APIConnectionError", "InternalServerError"}
  BY DEF Transient, Taxonomy, HttpStatus, Errors, SDKErrors, LocalErrors
<1>2. QED
  BY <1>1 DEF IsRetryable, IsAnyOf, IsInstance, RetryableClasses

Exhausted(c) ==
    pc[c] = "raised" /\ Priced(args[c]) =>
        /\ errors[c] # <<>>
        /\ outcome[c].raised = LastError(c)
        /\ Transient(LastError(c)) =>
             /\ Len(errors[c]) = RetryAttempts(args[c]) + 1
             /\ attempt[c] = RetryAttempts(args[c])

Waits(c) == waited[c] = BackoffDelay[attempt[c]] - 1

WaitInv ==
    /\ waited \in [Calls -> Nat]
    /\ \A c \in Calls : Waits(c) /\ Exhausted(c)

LEMMA WaitOthers ==
    ASSUME TypeOK, WaitInv, NEW c \in Calls,
           \A d \in Calls \ {c} : /\ pc'[d] = pc[d] /\ args'[d] = args[d]
                                  /\ errors'[d] = errors[d] /\ outcome'[d] = outcome[d],
           UNCHANGED <<attempt, waited>>,
           Exhausted(c)'
    PROVE  WaitInv'
<1>1. \A d \in Calls \ {c} : Exhausted(d)'
  BY DEF WaitInv, Exhausted, LastError, Priced, Model, RetryAttempts
<1>2. QED
  BY <1>1 DEF WaitInv, Waits

LEMMA WaitNext ==
    ASSUME HealthySinks, BuiltInAdapters
    PROVE  TypeOK /\ RetryInv /\ WaitInv /\ [Next]_vars => WaitInv'
<1> SUFFICES ASSUME TypeOK, RetryInv, WaitInv, [Next]_vars PROVE WaitInv'
  OBVIOUS
<1>1. CASE UNCHANGED vars
  BY <1>1 DEF vars, WaitInv, Waits, Exhausted, LastError, Priced, Model, RetryAttempts
<1>2. ASSUME NEW c \in Calls, NEW a \in Arguments, Refuse(c, a) \/ Start(c, a)
      PROVE  WaitInv'
  <2>1. Exhausted(c)'
    BY <1>2 DEF Refuse, Start, Exhausted, TypeOK
  <2>2. QED
    BY <1>2, <2>1, WaitOthers DEF Refuse, Start, TypeOK
<1>3. ASSUME NEW c \in Calls, NEW r \in Responses, Succeed(c, r) PROVE WaitInv'
  <2>1. Exhausted(c)'
    BY <1>3 DEF Succeed, Exhausted, TypeOK
  <2>2. QED
    BY <1>3, <2>1, WaitOthers DEF Succeed, TypeOK
<1>4. ASSUME NEW c \in Calls, NEW r \in Responses, SuccessNotWritten(c, r) PROVE FALSE
  BY <1>4, OnlyComplete DEF SuccessNotWritten
<1>5. ASSUME NEW c \in Calls, NEW r \in Responses, CostUnknown(c, r) PROVE WaitInv'
  <2>1. Exhausted(c)'
    BY <1>5 DEF CostUnknown, Exhausted, Priced, Model
  <2>2. QED
    BY <1>5, <2>1, WaitOthers DEF CostUnknown, ErrorPath, TypeOK
<1>6. ASSUME NEW c \in Calls, NEW e \in Raisable, Retry(c, e) \/ Cancel(c) PROVE WaitInv'
  <2>1. Exhausted(c)'
    BY <1>6 DEF Retry, Cancel, Exhausted, TypeOK
  <2>2. QED
    BY <1>6, <2>1, WaitOthers DEF Retry, Cancel, TypeOK
<1>7. ASSUME NEW c \in Calls, NEW e \in Raisable, GiveUp(c, e) PROVE WaitInv'
  <2>1. /\ pc[c] = "calling" /\ ~RetryAllowed(c, e) /\ ErrorPath(c, e, metrics, jsonl, None)
        /\ errors' = [errors EXCEPT ![c] = Append(@, e)]
        /\ UNCHANGED <<args, attempt, waited>>
    BY <1>7 DEF GiveUp
  <2>2. /\ errors[c] \in Seq(Raisable) /\ Len(errors[c]) = attempt[c] /\ attempt[c] \in Nat
        /\ Accepted(args[c]) /\ args[c] \in Arguments /\ attempt[c] <= RetryAttempts(args[c])
    BY <2>1 DEF RetryInv, RetryOK, TypeOK
  <2>3. RetryAttempts(args[c]) \in Nat
    BY <2>2, BudgetType
  <2>4. /\ errors'[c] = Append(errors[c], e) /\ Len(errors'[c]) = attempt[c] + 1
        /\ errors'[c] # <<>> /\ LastError(c)' = e
    <3>1. errors'[c] = Append(errors[c], e)
      BY <2>1 DEF TypeOK
    <3>2. /\ Len(Append(errors[c], e)) = attempt[c] + 1
          /\ Append(errors[c], e)[attempt[c] + 1] = e
      BY <2>2
    <3>3. Append(errors[c], e) # <<>>
      <4>1. Len(Append(errors[c], e)) # Len(<<>>)
        BY <2>2, <3>2
      <4>2. QED
        BY <4>1
    <3>4. QED
      BY <3>1, <3>2, <3>3 DEF LastError
  <2>5. outcome'[c].raised = e
    <3>1. Writes(Metadata(c), SinkFaults) = {"complete"}
      BY <2>1, OnlyComplete
    <3>2. QED
      BY <2>1, <3>1 DEF ErrorPath, TypeOK
  <2>6. Transient(e) => attempt[c] = RetryAttempts(args[c])
    <3>1. ASSUME Transient(e) PROVE ~(attempt[c] < RetryAttempts(args[c]))
      <4>1. IsRetryable(Provider(args[c]), e)
        BY <2>2, <3>1, RaisableType, TransientIsRetryable DEF BuiltInAdapters
      <4>2. QED
        BY <2>1, <4>1 DEF RetryAllowed
    <3>2. QED
      BY <2>2, <2>3, <3>1
  <2>7. Exhausted(c)'
    BY <2>1, <2>2, <2>4, <2>5, <2>6 DEF Exhausted, RetryAttempts
  <2>8. QED
    BY <2>1, <2>7, WaitOthers DEF ErrorPath, TypeOK
<1>8. ASSUME NEW c \in Calls, BackoffElapsed(c) PROVE WaitInv'
  <2>1. /\ pc' = [pc EXCEPT ![c] = "calling"] /\ attempt[c] \in Nat
        /\ attempt' = [attempt EXCEPT ![c] = attempt[c] + 1]
        /\ waited' = [waited EXCEPT ![c] = waited[c] + BackoffDelay[attempt[c]]]
        /\ UNCHANGED <<args, errors, outcome>>
    BY <1>8 DEF BackoffElapsed, TypeOK
  <2>2. /\ BackoffDelay[attempt[c]] \in Nat
        /\ BackoffDelay[attempt[c] + 1] = 2 * BackoffDelay[attempt[c]]
    BY <2>1, BackoffDoubles
  <2>3. waited \in [Calls -> Nat] /\ waited[c] = BackoffDelay[attempt[c]] - 1
    BY DEF WaitInv, Waits
  <2>4. waited' \in [Calls -> Nat]
    BY <2>1, <2>2, <2>3
  <2>5. Waits(c)'
    <3>1. waited'[c] = BackoffDelay[attempt[c]] - 1 + BackoffDelay[attempt[c]]
      BY <2>1, <2>3
    <3>2. attempt'[c] = attempt[c] + 1
      BY <2>1 DEF TypeOK
    <3>3. QED
      BY <2>2, <3>1, <3>2 DEF Waits
  <2>6. \A d \in Calls \ {c} : Waits(d)'
    BY <2>1, <2>3 DEF WaitInv, Waits, TypeOK
  <2>7. \A d \in Calls : Exhausted(d)'
    BY <2>1 DEF WaitInv, Exhausted, LastError, Priced, Model, RetryAttempts, TypeOK
  <2>8. QED
    BY <2>4, <2>5, <2>6, <2>7 DEF WaitInv
<1>9. Raisable # {}
  BY DEF Raisable
<1>10. QED
  BY <1>1, <1>2, <1>3, <1>4, <1>5, <1>6, <1>7, <1>8, <1>9, AnswerType
  DEF Next, AllDone, Call, ProviderAnswers

\* With a built-in adapter and sinks that work, a call gives up on a passing
\* failure only after its whole budget of attempts and of seconds, and raises
\* what the provider raised last.
THEOREM LastErrorRaised ==
    HealthySinks /\ BuiltInAdapters => (Spec => []RaisesLastError)
<1> SUFFICES ASSUME HealthySinks, BuiltInAdapters PROVE Spec => []RaisesLastError
  OBVIOUS
<1>1. Init => WaitInv
  BY BackoffDoubles DEF Init, WaitInv, Waits, Exhausted
<1>2. WaitInv => RaisesLastError
  BY DEF WaitInv, Waits, Exhausted, RaisesLastError
<1>3. QED
  BY <1>1, <1>2, TypeInit, TypeNext, RetryInit, RetryNext, WaitNext, PTL DEF Spec

-----------------------------------------------------------------------------
(* Instruments.                                                            *)

Instrument(f) == IsFiniteSet(DOMAIN f) /\ \A s \in DOMAIN f : f[s] \in Nat

LEMMA InstrumentAdd ==
    ASSUME NEW f, Instrument(f), NEW k, NEW n \in Nat
    PROVE  Instrument(Add(f, k, n)) /\ DOMAIN Add(f, k, n) = DOMAIN f \cup {k}
<1>1. DOMAIN Add(f, k, n) = DOMAIN f \cup {k}
  BY DEF Add
<1>2. IsFiniteSet(DOMAIN f \cup {k})
  BY FS_AddElement DEF Instrument
<1>3. QED
  BY <1>1, <1>2, AddType DEF Instrument

\* What a recording adds to a sum over the series that have its own.
LEMMA SumAdd ==
    ASSUME NEW f, Instrument(f), NEW k, NEW n \in Nat, NEW T \in SUBSET DOMAIN f,
           k \in DOMAIN f => k \in T
    PROVE  SumFunctionOnSet(Add(f, k, n), T \cup {k}) = SumFunctionOnSet(f, T) + n
<1>1. PICK g : g = Add(f, k, n)
  OBVIOUS
<1>2. IsFiniteSet(T) /\ IsFiniteSet(T \ {k})
  BY FS_Subset DEF Instrument
<1>3. \A s \in T \ {k} : f[s] \in Int /\ g[s] = f[s]
  BY <1>1 DEF Add, Instrument
<1>4. CASE k \in T
  <2>1. g[k] = f[k] + n /\ f[k] \in Int /\ g[k] \in Int
    BY <1>1, <1>4 DEF Add, At, Instrument
  <2>2. \A s \in T : f[s] \in Int /\ g[s] \in Int
    BY <1>3, <2>1
  <2>3. /\ SumFunctionOnSet(f, T) = f[k] + SumFunctionOnSet(f, T \ {k})
        /\ SumFunctionOnSet(g, T) = g[k] + SumFunctionOnSet(g, T \ {k})
    BY <1>2, <1>4, <2>2, SumTake
  <2>4. /\ SumFunctionOnSet(f, T \ {k}) = SumFunctionOnSet(g, T \ {k})
        /\ SumFunctionOnSet(f, T \ {k}) \in Int
    BY <1>2, <1>3, SumSame, SumTake
  <2>5. SumFunctionOnSet(g, T) = SumFunctionOnSet(f, T) + n
    BY <2>1, <2>3, <2>4
  <2>6. T \cup {k} = T
    BY <1>4
  <2>7. QED
    BY <1>1, <2>5, <2>6
<1>5. CASE k \notin T
  <2>1. g[k] = n /\ g[k] \in Int
    BY <1>1, <1>5 DEF Add, At
  <2>2. \A s \in T : f[s] \in Int /\ g[s] = f[s]
    BY <1>3, <1>5
  <2>3. SumFunctionOnSet(g, T \cup {k}) = SumFunctionOnSet(f, T) + g[k]
    BY <1>2, <1>5, <2>1, <2>2, SumGrow
  <2>4. QED
    BY <1>1, <2>1, <2>3
<1>6. QED
  BY <1>4, <1>5

LEMMA TotalAdd ==
    ASSUME NEW f, Instrument(f), NEW k, NEW n \in Nat
    PROVE  SumFunction(Add(f, k, n)) = SumFunction(f) + n
<1>1. DOMAIN Add(f, k, n) = DOMAIN f \cup {k}
  BY InstrumentAdd
<1>2. SumFunctionOnSet(Add(f, k, n), DOMAIN f \cup {k}) = SumFunctionOnSet(f, DOMAIN f) + n
  BY SumAdd
<1>3. QED
  BY <1>1, <1>2 DEF SumFunction

SeriesWith(f, name) == {s \in DOMAIN f : name \in DOMAIN s}

LEMMA SeenIsSum ==
    ASSUME NEW f, Instrument(f), NEW name
    PROVE  /\ Seen(f, name) = SumFunctionOnSet(f, SeriesWith(f, name))
           /\ Seen(f, name) \in Nat
<1>1. PICK T : T = SeriesWith(f, name)
  OBVIOUS
<1>2. IsFiniteSet(T)
  BY <1>1, FS_Subset DEF Instrument, SeriesWith
<1>3. \A s \in T : Restrict(f, T)[s] \in Int /\ Restrict(f, T)[s] = f[s] /\ f[s] \in Nat
  BY <1>1 DEF Restrict, Instrument, SeriesWith
<1>4. SumFunctionOnSet(Restrict(f, T), T) = SumFunctionOnSet(f, T)
  BY <1>2, <1>3, SumSame
<1>5. SumFunctionOnSet(f, T) \in Nat
  BY <1>2, <1>3, SumType
<1>6. DOMAIN Restrict(f, T) = T
  BY DEF Restrict
<1>7. Seen(f, name) = SumFunctionOnSet(Restrict(f, T), T)
  BY <1>1, <1>6 DEF Seen, SumFunction, SeriesWith
<1>8. QED
  BY <1>1, <1>4, <1>5, <1>7

LEMMA TotalType ==
    ASSUME NEW f, Instrument(f)
    PROVE  SumFunction(f) \in Nat
BY SumType DEF SumFunction, Instrument

LEMMA SeenAdd ==
    ASSUME NEW f, Instrument(f), NEW k, NEW n \in Nat, NEW name
    PROVE  Seen(Add(f, k, n), name) = Seen(f, name) + IF name \in DOMAIN k THEN n ELSE 0
<1>1. PICK g : g = Add(f, k, n)
  OBVIOUS
<1>2. Instrument(g) /\ DOMAIN g = DOMAIN f \cup {k}
  BY <1>1, InstrumentAdd
<1>3. /\ Seen(g, name) = SumFunctionOnSet(g, SeriesWith(g, name))
      /\ Seen(f, name) = SumFunctionOnSet(f, SeriesWith(f, name))
      /\ Seen(f, name) \in Nat
  BY <1>2, SeenIsSum
<1>4. CASE name \in DOMAIN k
  <2>1. SeriesWith(g, name) = SeriesWith(f, name) \cup {k}
    BY <1>2, <1>4 DEF SeriesWith
  <2>2. /\ SeriesWith(f, name) \in SUBSET DOMAIN f
        /\ k \in DOMAIN f => k \in SeriesWith(f, name)
    BY <1>4 DEF SeriesWith
  <2>3. SumFunctionOnSet(g, SeriesWith(f, name) \cup {k})
          = SumFunctionOnSet(f, SeriesWith(f, name)) + n
    BY <1>1, <2>2, SumAdd
  <2>4. QED
    BY <1>1, <1>3, <1>4, <2>1, <2>3
<1>5. CASE name \notin DOMAIN k
  <2>1. SeriesWith(g, name) = SeriesWith(f, name)
    BY <1>2, <1>5 DEF SeriesWith
  <2>2. \A s \in SeriesWith(f, name) : f[s] \in Int /\ g[s] = f[s]
    BY <1>1, <1>5 DEF SeriesWith, Add, Instrument
  <2>3. IsFiniteSet(SeriesWith(f, name))
    BY FS_Subset DEF SeriesWith, Instrument
  <2>4. SumFunctionOnSet(f, SeriesWith(f, name)) = SumFunctionOnSet(g, SeriesWith(f, name))
    BY <2>2, <2>3, SumSame
  <2>5. QED
    BY <1>1, <1>3, <1>5, <2>1, <2>4
<1>6. QED
  BY <1>4, <1>5

-----------------------------------------------------------------------------
(* Attribute names.                                                        *)

LEMMA ModeType == OptInMode \in {"stable", Latest, LatestDup}
<1> DEFINE active == {i \in DOMAIN OptInTokens : OptInTokens[i] \in {Latest, LatestDup}}
<1>1. active \subseteq Nat
  BY OptInAssumption
<1>2. active # {} => \E i \in active : \A j \in active : i <= j
  <2> HIDE DEF active
  <2>1. QED
    BY <1>1, LeastNumber
<1>3. QED
  BY <1>2 DEF OptInMode

LEMMA ModesDiffer == "stable" # Latest /\ "stable" # LatestDup /\ Latest # LatestDup
BY DEF Latest, LatestDup

LEMMA OverDomain ==
    ASSUME NEW top, NEW base
    PROVE  DOMAIN Over(top, base) = DOMAIN top \cup DOMAIN base
BY DEF Over

LEMMA Resolves ==
    ASSUME NEW attrs
    PROVE  ResolveAttrs(attrs) =
             CASE OptInMode = "stable"  -> attrs
               [] OptInMode = LatestDup -> Over(NewNames(attrs), attrs)
               [] OptInMode = Latest    -> Over(NewNames(attrs), WithoutOld(attrs))
BY DEF ResolveAttrs

\* What resolving does to the two names.
LEMMA ResolvedNames ==
    ASSUME NEW attrs
    PROVE  LET old == OldName \in DOMAIN attrs
               new == NewName \in DOMAIN attrs
           IN /\ OptInMode = "stable" => ResolveAttrs(attrs) = attrs
              /\ OptInMode = LatestDup =>
                   /\ OldName \in DOMAIN ResolveAttrs(attrs) <=> old
                   /\ NewName \in DOMAIN ResolveAttrs(attrs) <=> (old \/ new)
              /\ OptInMode = Latest =>
                   /\ OldName \notin DOMAIN ResolveAttrs(attrs)
                   /\ NewName \in DOMAIN ResolveAttrs(attrs) <=> (old \/ new)
<1>1. DOMAIN PendingRenames = {OldName} /\ PendingRenames[OldName] = NewName /\ OldName # NewName
  BY DEF PendingRenames, OldName, NewName
<1>2. DOMAIN NewNames(attrs) = IF OldName \in DOMAIN attrs THEN {NewName} ELSE {}
  BY <1>1 DEF NewNames, RenamedIn
<1>3. DOMAIN WithoutOld(attrs) = DOMAIN attrs \ {OldName}
  BY <1>1 DEF WithoutOld, RenamedIn
<1>4. /\ DOMAIN Over(NewNames(attrs), attrs) = DOMAIN NewNames(attrs) \cup DOMAIN attrs
      /\ DOMAIN Over(NewNames(attrs), WithoutOld(attrs))
           = DOMAIN NewNames(attrs) \cup DOMAIN WithoutOld(attrs)
  BY OverDomain
<1>5. CASE OptInMode = "stable"
  BY <1>5, ModesDiffer, Resolves
<1>6. CASE OptInMode = LatestDup
  <2>1. ResolveAttrs(attrs) = Over(NewNames(attrs), attrs)
    BY <1>6, ModesDiffer, Resolves
  <2>2. QED
    BY <1>1, <1>2, <1>4, <1>6, <2>1, ModesDiffer
<1>7. CASE OptInMode = Latest
  <2>1. ResolveAttrs(attrs) = Over(NewNames(attrs), WithoutOld(attrs))
    BY <1>7, ModesDiffer, Resolves
  <2>2. QED
    BY <1>1, <1>2, <1>3, <1>4, <1>7, <2>1, ModesDiffer
<1>8. QED
  BY <1>5, <1>6, <1>7, ModeType

\* An attribute set that goes through resolve_attrs, once or twice, has the
\* names of the mode.
LEMMA EmittedNames ==
    ASSUME NEW env, NEW name \in {OldName, NewName}
    PROVE  /\ name \in DOMAIN DurationSeries(env) <=> name \in Names
           /\ name \in DOMAIN InputSeries(env) <=> name \in Names
           /\ name \in DOMAIN OutputSeries(env) <=> name \in Names
<1> DEFINE plain == [gen_ai_system |-> "openai", model |-> env.model_selected,
                     route |-> env.route]
<1>1. DOMAIN plain = {"gen_ai_system", "model", "route"}
  OBVIOUS
<1>2. OldName \in DOMAIN plain /\ NewName \notin DOMAIN plain /\ OldName # NewName
  BY <1>1 DEF OldName, NewName
<1> HIDE DEF plain
<1>3. /\ OptInMode = "stable" => Names = {OldName}
      /\ OptInMode = Latest => Names = {NewName}
      /\ OptInMode = LatestDup => Names = {OldName, NewName}
  <2>1. CASE OptInMode = "stable"
    BY <2>1, ModesDiffer DEF Names
  <2>2. CASE OptInMode = Latest
    BY <2>2, ModesDiffer DEF Names
  <2>3. CASE OptInMode = LatestDup
    BY <2>3, ModesDiffer DEF Names
  <2>4. QED
    BY <2>1, <2>2, <2>3, ModeType
<1>4. BaseAttrs(env) = ResolveAttrs(plain)
  BY DEF BaseAttrs, plain
<1>5. OldName \in DOMAIN BaseAttrs(env) <=> OldName \in Names
  BY <1>2, <1>3, <1>4, ModeType, ModesDiffer, ResolvedNames
<1>6. NewName \in DOMAIN BaseAttrs(env) <=> NewName \in Names
  BY <1>2, <1>3, <1>4, ModeType, ModesDiffer, ResolvedNames
<1>7. ASSUME NEW more, name \notin DOMAIN more
      PROVE  name \in DOMAIN Over(more, BaseAttrs(env)) <=> name \in Names
  <2>1. DOMAIN Over(more, BaseAttrs(env)) = DOMAIN BaseAttrs(env) \cup DOMAIN more
    BY OverDomain
  <2>2. QED
    BY <1>5, <1>6, <1>7, <2>1
<1>8. ASSUME NEW usage, OldName \notin DOMAIN usage, NewName \notin DOMAIN usage
      PROVE  name \in DOMAIN TokenSeries(env, usage) <=> name \in Names
  <2> DEFINE attrs == Over(usage, BaseAttrs(env))
  <2>1. DOMAIN attrs = DOMAIN BaseAttrs(env) \cup DOMAIN usage
    BY OverDomain
  <2>2. /\ OldName \in DOMAIN attrs <=> OldName \in Names
        /\ NewName \in DOMAIN attrs <=> NewName \in Names
    BY <1>5, <1>6, <1>8, <2>1
  <2> HIDE DEF attrs
  <2>3. TokenSeries(env, usage) = ResolveAttrs(attrs)
    BY DEF TokenSeries, attrs
  <2>4. /\ OldName \in DOMAIN ResolveAttrs(attrs) <=> OldName \in Names
        /\ NewName \in DOMAIN ResolveAttrs(attrs) <=> NewName \in Names
    BY <1>2, <1>3, <2>2, ModeType, ModesDiffer, ResolvedNames
  <2>5. QED
    BY <2>3, <2>4
<1>9. name \in DOMAIN DurationSeries(env) <=> name \in Names
  <2>1. name \notin DOMAIN [error_type |-> env.error_type]
    BY DEF OldName, NewName
  <2>2. QED
    BY <1>5, <1>6, <1>7, <2>1 DEF DurationSeries
<1>10. name \in DOMAIN InputSeries(env) <=> name \in Names
  <2>1. /\ OldName \notin DOMAIN [type |-> "input", input_tokens |-> env.tokens_in]
        /\ NewName \notin DOMAIN [type |-> "input", input_tokens |-> env.tokens_in]
    BY DEF OldName, NewName
  <2>2. QED
    BY <1>8, <2>1 DEF InputSeries
<1>11. name \in DOMAIN OutputSeries(env) <=> name \in Names
  <2>1. /\ OldName \notin DOMAIN [type |-> "output", output_tokens |-> env.tokens_out]
        /\ NewName \notin DOMAIN [type |-> "output", output_tokens |-> env.tokens_out]
    BY DEF OldName, NewName
  <2>2. QED
    BY <1>8, <2>1 DEF OutputSeries
<1>12. QED
  BY <1>9, <1>10, <1>11

-----------------------------------------------------------------------------
(* One recording moves every total by what the call has earned.            *)

Visible(name, n) == IF name \in Names THEN n ELSE 0

MetricsOK(m) == Instrument(m.duration) /\ Instrument(m.tokens) /\ Instrument(m.cost)

LEMMA RecordingMoves ==
    ASSUME NEW m, MetricsOK(m), NEW env, NEW md, env.estimated_cost_usd \in Nat,
           NEW k \in {0, 2}, env.status = "ok" <=> k = 2
    PROVE  LET after == RecordMetrics(m, env, md) IN
           /\ MetricsOK(after)
           /\ SumFunction(after.cost) = SumFunction(m.cost) + env.estimated_cost_usd
           /\ SumFunction(after.tokens) = SumFunction(m.tokens) + k
           /\ \A name \in {OldName, NewName} :
                /\ Seen(after.duration, name) = Seen(m.duration, name) + Visible(name, 1)
                /\ Seen(after.tokens, name) = Seen(m.tokens, name) + Visible(name, k)
<1> DEFINE after == RecordMetrics(m, env, md)
           input == Add(m.tokens, InputSeries(env), 1)
<1>1. /\ after.duration = Add(m.duration, DurationSeries(env), 1)
      /\ after.cost = Add(m.cost, CostSeries(env, md), env.estimated_cost_usd)
      /\ after.tokens = RecordTokens(m.tokens, env)
  BY DEF RecordMetrics
<1>3. Instrument(m.duration) /\ Instrument(m.tokens) /\ Instrument(m.cost)
  BY DEF MetricsOK
<1>2. Instrument(after.duration) /\ Instrument(after.cost) /\ Instrument(input)
  <2>1. 1 \in Nat
    OBVIOUS
  <2>2. /\ Instrument(Add(m.duration, DurationSeries(env), 1))
        /\ Instrument(Add(m.cost, CostSeries(env, md), env.estimated_cost_usd))
        /\ Instrument(Add(m.tokens, InputSeries(env), 1))
    BY <1>3, <2>1, InstrumentAdd
  <2> HIDE DEF after
  <2>3. QED
    BY <1>1, <2>2
<1>4. /\ SumFunction(m.tokens) \in Int
      /\ \A name : Seen(m.tokens, name) \in Int
  BY <1>3, TotalType, SeenIsSum
<1>5. SumFunction(after.cost) = SumFunction(m.cost) + env.estimated_cost_usd
  BY <1>1, <1>3, TotalAdd
<1>6. ASSUME NEW name \in {OldName, NewName}
      PROVE  Seen(after.duration, name) = Seen(m.duration, name) + Visible(name, 1)
  BY <1>1, <1>3, SeenAdd, EmittedNames DEF Visible
<1>7. CASE k = 2
  <2>1. after.tokens = Add(input, OutputSeries(env), 1)
    BY <1>1, <1>7 DEF RecordTokens
  <2>2. Instrument(after.tokens)
    <3> HIDE DEF after, input
    <3>1. 1 \in Nat
      OBVIOUS
    <3>2. Instrument(Add(input, OutputSeries(env), 1))
      BY <1>2, <3>1, InstrumentAdd
    <3>3. QED
      BY <2>1, <3>2
  <2>3. SumFunction(after.tokens) = SumFunction(m.tokens) + 2
    <3>1. SumFunction(after.tokens) = SumFunction(input) + 1
      BY <1>2, <2>1, TotalAdd
    <3>2. SumFunction(input) = SumFunction(m.tokens) + 1
      BY <1>3, TotalAdd
    <3>3. QED
      BY <1>3, <1>4, <3>1, <3>2
  <2>4. ASSUME NEW name \in {OldName, NewName}
        PROVE  Seen(after.tokens, name) = Seen(m.tokens, name) + Visible(name, 2)
    <3>1. Seen(after.tokens, name) = Seen(input, name) + Visible(name, 1)
      BY <1>2, <2>1, SeenAdd, EmittedNames DEF Visible
    <3>2. Seen(input, name) = Seen(m.tokens, name) + Visible(name, 1)
      BY <1>3, SeenAdd, EmittedNames DEF Visible
    <3>3. Seen(m.tokens, name) \in Int
      BY <1>3, <1>4
    <3>4. QED
      BY <3>1, <3>2, <3>3 DEF Visible
  <2> HIDE DEF after
  <2>5. QED
    BY <1>2, <1>5, <1>6, <1>7, <2>2, <2>3, <2>4 DEF MetricsOK, after
<1>8. CASE k = 0
  <2>1. after.tokens = m.tokens
    BY <1>1, <1>8 DEF RecordTokens
  <2>2. /\ SumFunction(m.tokens) = SumFunction(m.tokens) + 0
        /\ \A name : Seen(m.tokens, name) = Seen(m.tokens, name) + Visible(name, 0)
    BY <1>3, <1>4 DEF Visible
  <2> HIDE DEF after
  <2>3. QED
    BY <1>2, <1>3, <1>5, <1>6, <1>8, <2>1, <2>2 DEF MetricsOK, after
<1>9. QED
  BY <1>7, <1>8

-----------------------------------------------------------------------------
(* The books: what the instruments hold, and what the callers were told.   *)

Results == {c \in Calls : Result(c)}
RecordedCalls == {c \in Calls : Recorded(c)}

LEMMA CallsFinite ==
    /\ IsFiniteSet(Results) /\ Cardinality(Results) \in Nat
    /\ IsFiniteSet(RecordedCalls) /\ Cardinality(RecordedCalls) \in Nat
BY CallsAssumption, FS_Subset, FS_CardinalityType DEF Results, RecordedCalls

BooksInv ==
    /\ MetricsOK(metrics)
    /\ \A c \in Results : outcome[c].estimated_cost_usd \in Nat
    /\ SumFunction(metrics.cost) = SumFunctionOnSet(ResultCost, Results)
    /\ SumFunction(metrics.tokens) = 2 * Cardinality(Results)
    /\ \A name \in {OldName, NewName} :
         /\ Seen(metrics.duration, name) = Visible(name, Cardinality(RecordedCalls))
         /\ Seen(metrics.tokens, name) = Visible(name, 2 * Cardinality(Results))

\* A call that returns becomes the one new result.
LEMMA ResultsGrow ==
    ASSUME BooksInv, NEW c \in Calls, c \notin Results, Results' = Results \cup {c},
           \A d \in Calls \ {c} : outcome'[d] = outcome[d],
           outcome'[c].estimated_cost_usd \in Nat
    PROVE  /\ Cardinality(Results)' = Cardinality(Results) + 1
           /\ SumFunctionOnSet(ResultCost, Results)' =
                SumFunctionOnSet(ResultCost, Results) + outcome'[c].estimated_cost_usd
           /\ \A d \in Results' : outcome'[d].estimated_cost_usd \in Nat
<1>1. Cardinality(Results \cup {c}) = Cardinality(Results) + 1
  BY CallsFinite, FS_AddElement
<1>2. PICK S, T, f, g : S = Results /\ T = Results' /\ f = ResultCost /\ g = ResultCost'
  OBVIOUS
<1>3. S \subseteq Calls /\ T = S \cup {c} /\ c \notin S
  BY <1>2 DEF Results
<1>4. \A d \in S : f[d] \in Int /\ f[d] = outcome[d].estimated_cost_usd
  BY <1>2 DEF ResultCost, Results, BooksInv
<1>5. g = [d \in T |-> outcome'[d].estimated_cost_usd]
  BY <1>2 DEF ResultCost, Results
<1>6. \A d \in S : f[d] \in Int /\ g[d] = f[d]
  BY <1>3, <1>4, <1>5
<1>7. g[c] = outcome'[c].estimated_cost_usd /\ g[c] \in Int
  BY <1>3, <1>5
<1>8. SumFunctionOnSet(g, S \cup {c}) = SumFunctionOnSet(f, S) + g[c]
  <2>1. IsFiniteSet(S)
    BY <1>2, CallsFinite
  <2>2. c \notin S /\ g[c] \in Int
    BY <1>3, <1>7
  <2>3. QED
    BY <1>6, <2>1, <2>2, SumGrow
<1>9. \A d \in T : outcome'[d].estimated_cost_usd \in Nat
  BY <1>2, <1>3 DEF BooksInv
<1>10. SumFunctionOnSet(ResultCost, Results)' = SumFunctionOnSet(g, T)
  BY <1>2
<1>11. QED
  BY <1>1, <1>2, <1>3, <1>7, <1>8, <1>9, <1>10

\* No result is added, none changes.
LEMMA ResultsStay ==
    ASSUME BooksInv, Results' = Results, \A d \in Results : outcome'[d] = outcome[d]
    PROVE  /\ Cardinality(Results)' = Cardinality(Results)
           /\ ResultCost' = ResultCost
           /\ \A d \in Results' : outcome'[d].estimated_cost_usd \in Nat
<1>1. ResultCost = [d \in Results |-> outcome[d].estimated_cost_usd]
  BY DEF ResultCost, Results
<1>2. ResultCost' = [d \in Results' |-> outcome'[d].estimated_cost_usd]
  BY DEF ResultCost, Results
<1>3. QED
  BY <1>1, <1>2 DEF BooksInv

LEMMA BooksRecord ==
    ASSUME BooksInv, NEW c \in Calls, ~Recorded(c),
           \A d \in Calls \ {c} : pc'[d] = pc[d] /\ outcome'[d] = outcome[d],
           NEW env, env.estimated_cost_usd \in Nat,
           metrics' = RecordMetrics(metrics, env, Metadata(c)),
           \/ /\ env.status = "ok" /\ pc'[c] = "returned"
              /\ outcome'[c].estimated_cost_usd = env.estimated_cost_usd
           \/ env.status # "ok" /\ pc'[c] = "raised" /\ env.estimated_cost_usd = 0
    PROVE  BooksInv'
<1>1. RecordedCalls' = RecordedCalls \cup {c} /\ c \notin RecordedCalls /\ c \notin Results
  BY DEF RecordedCalls, Recorded, Results, Result
<1>2. Cardinality(RecordedCalls)' = Cardinality(RecordedCalls) + 1
  BY <1>1, CallsFinite, FS_AddElement
<1>3. /\ MetricsOK(metrics)
      /\ Cardinality(Results) \in Nat /\ Cardinality(RecordedCalls) \in Nat
  BY CallsFinite DEF BooksInv
<1>4. PICK n, r, total : /\ n = Cardinality(RecordedCalls) /\ r = Cardinality(Results)
                         /\ total = SumFunctionOnSet(ResultCost, Results)
  OBVIOUS
<1>5. n \in Nat /\ r \in Nat
  BY <1>3, <1>4
<1>6. CASE env.status = "ok" /\ pc'[c] = "returned"
  <2>1. Results' = Results \cup {c}
    BY <1>6 DEF Results, Result
  <2>2. outcome'[c].estimated_cost_usd = env.estimated_cost_usd
    BY <1>6
  <2>3. /\ Cardinality(Results)' = r + 1
        /\ SumFunctionOnSet(ResultCost, Results)' = total + env.estimated_cost_usd
        /\ \A d \in Results' : outcome'[d].estimated_cost_usd \in Nat
    BY <1>1, <1>4, <2>1, <2>2, ResultsGrow
  <2>4. 2 \in {0, 2} /\ (env.status = "ok" <=> 2 = 2)
    BY <1>6
  <2>5. /\ MetricsOK(metrics')
        /\ SumFunction(metrics'.cost) = SumFunction(metrics.cost) + env.estimated_cost_usd
        /\ SumFunction(metrics'.tokens) = SumFunction(metrics.tokens) + 2
        /\ \A name \in {OldName, NewName} :
             /\ Seen(metrics'.duration, name) = Seen(metrics.duration, name) + Visible(name, 1)
             /\ Seen(metrics'.tokens, name) = Seen(metrics.tokens, name) + Visible(name, 2)
    BY <1>3, <2>4, RecordingMoves
  <2>6. /\ SumFunction(metrics'.cost) = SumFunctionOnSet(ResultCost, Results)'
        /\ SumFunction(metrics'.tokens) = 2 * Cardinality(Results)'
    <3>1. SumFunction(metrics.cost) = total /\ SumFunction(metrics.tokens) = 2 * r
      BY <1>4 DEF BooksInv
    <3>2. 2 * (r + 1) = 2 * r + 2
      BY <1>5
    <3>3. QED
      BY <2>3, <2>5, <3>1, <3>2
  <2>7. ASSUME NEW name \in {OldName, NewName}
        PROVE  /\ Seen(metrics'.duration, name) = Visible(name, Cardinality(RecordedCalls)')
               /\ Seen(metrics'.tokens, name) = Visible(name, 2 * Cardinality(Results)')
    <3>1. Seen(metrics.duration, name) = Visible(name, n) /\ Seen(metrics.tokens, name) = Visible(name, 2 * r)
      BY <1>4 DEF BooksInv
    <3>2. Visible(name, n) + Visible(name, 1) = Visible(name, n + 1)
      BY <1>5 DEF Visible
    <3>3. Visible(name, 2 * r) + Visible(name, 2) = Visible(name, 2 * (r + 1))
      BY <1>5 DEF Visible
    <3>4. QED
      BY <1>2, <1>4, <2>3, <2>5, <3>1, <3>2, <3>3
  <2>8. QED
    BY <2>3, <2>5, <2>6, <2>7 DEF BooksInv, Visible
<1>7. CASE env.status # "ok" /\ pc'[c] = "raised" /\ env.estimated_cost_usd = 0
  <2>1. Results' = Results /\ \A d \in Results : outcome'[d] = outcome[d]
    BY <1>1, <1>7 DEF Results, Result
  <2>2. /\ Cardinality(Results)' = r
        /\ SumFunctionOnSet(ResultCost, Results)' = total
        /\ \A d \in Results' : outcome'[d].estimated_cost_usd \in Nat
    BY <1>4, <2>1, ResultsStay
  <2>3. 0 \in {0, 2} /\ (env.status = "ok" <=> 0 = 2)
    BY <1>7
  <2>4. /\ MetricsOK(metrics')
        /\ SumFunction(metrics'.cost) = SumFunction(metrics.cost) + 0
        /\ SumFunction(metrics'.tokens) = SumFunction(metrics.tokens) + 0
        /\ \A name \in {OldName, NewName} :
             /\ Seen(metrics'.duration, name) = Seen(metrics.duration, name) + Visible(name, 1)
             /\ Seen(metrics'.tokens, name) = Seen(metrics.tokens, name) + Visible(name, 0)
    BY <1>3, <1>7, <2>3, RecordingMoves
  <2>5. SumFunction(metrics.cost) \in Int /\ SumFunction(metrics.tokens) \in Int
    BY <1>3, TotalType DEF MetricsOK
  <2>6. /\ SumFunction(metrics'.cost) = SumFunctionOnSet(ResultCost, Results)'
        /\ SumFunction(metrics'.tokens) = 2 * Cardinality(Results)'
    BY <1>4, <2>2, <2>4, <2>5 DEF BooksInv
  <2>7. ASSUME NEW name \in {OldName, NewName}
        PROVE  /\ Seen(metrics'.duration, name) = Visible(name, Cardinality(RecordedCalls)')
               /\ Seen(metrics'.tokens, name) = Visible(name, 2 * Cardinality(Results)')
    <3>1. Seen(metrics.duration, name) = Visible(name, n) /\ Seen(metrics.tokens, name) = Visible(name, 2 * r)
      BY <1>4 DEF BooksInv
    <3>2. Visible(name, n) + Visible(name, 1) = Visible(name, n + 1)
      BY <1>5 DEF Visible
    <3>3. Visible(name, 2 * r) + Visible(name, 0) = Visible(name, 2 * r)
      BY <1>5 DEF Visible
    <3>4. QED
      BY <1>2, <1>4, <2>2, <2>4, <3>1, <3>2, <3>3
  <2>8. QED
    BY <2>2, <2>4, <2>6, <2>7 DEF BooksInv, Visible
<1>8. QED
  BY <1>6, <1>7

LEMMA BooksQuiet ==
    ASSUME BooksInv, UNCHANGED metrics,
           \A c \in Calls : /\ Recorded(c)' <=> Recorded(c)
                            /\ Result(c)' <=> Result(c)
                            /\ Recorded(c) => outcome'[c] = outcome[c]
    PROVE  BooksInv'
<1>1. RecordedCalls' = RecordedCalls /\ Results' = Results
  BY DEF RecordedCalls, Results
<1>2. \A d \in Results : outcome'[d] = outcome[d]
  BY DEF Results, Result, Recorded
<1>3. ResultCost' = ResultCost /\ \A d \in Results' : outcome'[d].estimated_cost_usd \in Nat
  BY <1>1, <1>2, ResultsStay
<1>4. QED
  BY <1>1, <1>3 DEF BooksInv, Visible

LEMMA BooksNext ==
    ASSUME HealthySinks, TypeOK, BooksInv, [Next]_vars
    PROVE  BooksInv'
<1>1. CASE UNCHANGED vars
  BY <1>1, BooksQuiet DEF vars, Recorded, Result
<1>2. ASSUME NEW c \in Calls, NEW a \in Arguments, Refuse(c, a) \/ Start(c, a)
      PROVE  BooksInv'
  BY <1>2, BooksQuiet DEF Refuse, Start, Recorded, Result, TypeOK
<1>3. ASSUME NEW c \in Calls, NEW r \in Responses, Succeed(c, r) PROVE BooksInv'
  <2>1. PICK env : env = SuccessEnvelope(c, r)
    OBVIOUS
  <2>2. /\ pc[c] = "calling" /\ Priced(args[c]) /\ pc' = [pc EXCEPT ![c] = "returned"]
        /\ metrics' = RecordMetrics(metrics, env, Metadata(c))
        /\ outcome' = [outcome EXCEPT ![c] =
             [tokens_in |-> r.tokens_in, tokens_out |-> r.tokens_out,
              estimated_cost_usd |-> env.estimated_cost_usd]]
    BY <1>3, <2>1 DEF Succeed
  <2>3. env.estimated_cost_usd \in Nat /\ env.status = "ok"
    BY <2>1, <2>2, CostType DEF SuccessEnvelope, Envelope
  <2>4. /\ \A d \in Calls \ {c} : pc'[d] = pc[d] /\ outcome'[d] = outcome[d]
        /\ pc'[c] = "returned" /\ outcome'[c].estimated_cost_usd = env.estimated_cost_usd
    BY <2>2 DEF TypeOK
  <2>5. ~Recorded(c)
    BY <2>2 DEF Recorded
  <2>6. QED
    BY <2>2, <2>3, <2>4, <2>5, BooksRecord
<1>4. ASSUME NEW c \in Calls, NEW exc, pc[c] = "calling", UNCHANGED args,
             ErrorPath(c, exc, metrics, jsonl, None)
      PROVE  BooksInv'
  <2>1. PICK env : env = ErrorEnvelope(c, exc)
    OBVIOUS
  <2>2. /\ metrics' = RecordMetrics(metrics, env, Metadata(c))
        /\ \A d \in Calls \ {c} : pc'[d] = pc[d] /\ outcome'[d] = outcome[d]
        /\ pc'[c] = "raised"
    BY <1>4, <2>1 DEF ErrorPath, TypeOK
  <2>3. env.estimated_cost_usd = 0 /\ env.status = "error"
    BY <2>1 DEF ErrorEnvelope, Envelope
  <2>4. ~Recorded(c) /\ env.estimated_cost_usd \in Nat /\ env.status # "ok"
    BY <1>4, <2>3 DEF Recorded
  <2>5. QED
    BY <2>2, <2>3, <2>4, BooksRecord
<1>5. ASSUME NEW c \in Calls, Advances(c) PROVE BooksInv'
  BY <1>5, BooksQuiet DEF Advances, Recorded, Result, TypeOK
<1>6. QED
  BY <1>1, <1>2, <1>3, <1>4, <1>5, StepForms

LEMMA BooksInit == Init => BooksInv
<1> SUFFICES ASSUME Init PROVE BooksInv
  OBVIOUS
<1>1. PICK f : f = NoSeries
  OBVIOUS
<1>2. /\ metrics.duration = f /\ metrics.tokens = f /\ metrics.cost = f /\ DOMAIN f = {}
  BY <1>1 DEF Init, NoMetrics, NoSeries
<1>3. Results = {} /\ RecordedCalls = {}
  BY DEF Init, Results, Result, RecordedCalls, Recorded
<1>4. Cardinality(Results) = 0 /\ Cardinality(RecordedCalls) = 0
  BY <1>3, FS_EmptySet
<1>5. Instrument(f)
  BY <1>2, FS_EmptySet DEF Instrument
<1>6. /\ SumFunction(f) = 0 /\ SumFunctionOnSet(ResultCost, Results) = 0
      /\ \A name : Seen(f, name) = 0
  <2>1. SumFunction(f) = 0 /\ SumFunctionOnSet(ResultCost, Results) = 0
    BY <1>2, <1>3, SumEmpty DEF SumFunction
  <2>2. ASSUME NEW name PROVE Seen(f, name) = 0
    <3>1. SeriesWith(f, name) = {}
      BY <1>2 DEF SeriesWith
    <3>2. QED
      BY <1>5, <3>1, SeenIsSum, SumEmpty
  <2>3. QED
    BY <2>1, <2>2
<1>7. QED
  BY <1>2, <1>3, <1>4, <1>5, <1>6 DEF BooksInv, MetricsOK, Visible

\* While no append fails, the cost counter holds what the callers were told
\* their calls cost, and the token histogram two readings of every result: a
\* retry, a failure or a cancellation adds nothing.
THEOREM CountersTrue == HealthySinks => (Spec => []CountersAddUp)
<1> SUFFICES ASSUME HealthySinks PROVE Spec => []CountersAddUp
  OBVIOUS
<1>1. BooksInv => CountersAddUp
  <2>1. DOMAIN ResultCost = Results
    BY DEF ResultCost, Results
  <2>2. QED
    BY <2>1 DEF BooksInv, CountersAddUp, SumFunction, Results
<1>2. QED
  BY <1>1, BooksInit, BooksNext, TypeInit, TypeNext, PTL DEF Spec

\* In every opt-in mode, a dashboard on a name in force sees the duration of
\* every call once and its tokens once, and one on the other name none.
THEOREM DashboardsTrue == HealthySinks => (Spec => []DashboardsKeepWorking)
<1> SUFFICES ASSUME HealthySinks PROVE Spec => []DashboardsKeepWorking
  OBVIOUS
<1>1. BooksInv => DashboardsKeepWorking
  BY DEF BooksInv, DashboardsKeepWorking, Visible, Results, RecordedCalls
<1>2. QED
  BY <1>1, BooksInit, BooksNext, TypeInit, TypeNext, PTL DEF Spec

-----------------------------------------------------------------------------
(* Bills.                                                                  *)

\* The tenant of a row is the one the caller meant: the merge leaves it alone.
LEMMA RowTenant ==
    ASSUME NEW c, NEW env, NEW md, env.tenant_id = TenantId(args[c]),
           {"tenant_id", "status"} \subseteq DOMAIN env
    PROVE  Event(env, md).tenant_id = MeantTenant(args[c])
<1>1. TenantId(args[c]) = MeantTenant(args[c])
  BY DEF TenantId, MeantTenant, EffectiveContext, FromMetadata, Get
<1>2. TenantId(args[c]) # None
  BY NoneAssumption DEF TenantId
<1> DEFINE base == [ToDict(env) EXCEPT !["status"] = Status(env)]
           merged == DOMAIN md \ ProtectedFields
<1>3. "tenant_id" \in DOMAIN base /\ base["tenant_id"] = env.tenant_id
  BY <1>2 DEF ToDict
<1>4. "tenant_id" \notin merged
  BY DEF ProtectedFields
<1>5. Event(env, md) = [key \in DOMAIN base \cup merged |->
                          IF key \in merged THEN md[key] ELSE base[key]]
  BY DEF Event
<1> HIDE DEF base, merged
<1>6. QED
  BY <1>1, <1>3, <1>4, <1>5

Bill == [i \in DOMAIN jsonl.lines |-> jsonl.lines[i].estimated_cost_usd]
RowsFor(t) == {i \in DOMAIN jsonl.lines : jsonl.lines[i].tenant_id = t}
ResultsFor(t) == {c \in Calls : Result(c) /\ MeantTenant(args[c]) = t}

BillsInv ==
    /\ \A i \in DOMAIN jsonl.lines : jsonl.lines[i].estimated_cost_usd \in Nat
    /\ \A c \in Results : outcome[c].estimated_cost_usd \in Nat
    /\ \A t : SumFunctionOnSet(Bill, RowsFor(t)) = SumFunctionOnSet(ResultCost, ResultsFor(t))

\* One more line: the bill of its tenant grows by what it says.
LEMMA BillGrows ==
    ASSUME jsonl.lines \in Seq(Range(jsonl.lines)), NEW row, row.estimated_cost_usd \in Nat,
           jsonl'.lines = Append(jsonl.lines, row),
           \A i \in DOMAIN jsonl.lines : jsonl.lines[i].estimated_cost_usd \in Nat, NEW t
    PROVE  /\ SumFunctionOnSet(Bill, RowsFor(t))' = SumFunctionOnSet(Bill, RowsFor(t)) +
                IF row.tenant_id = t THEN row.estimated_cost_usd ELSE 0
           /\ \A i \in DOMAIN jsonl'.lines : jsonl'.lines[i].estimated_cost_usd \in Nat
<1>1. PICK n, more, bill, next, Old, New :
        /\ n = Len(jsonl.lines) /\ more = jsonl'.lines
        /\ bill = Bill /\ next = Bill' /\ Old = RowsFor(t) /\ New = RowsFor(t)'
  OBVIOUS
<1>2. /\ DOMAIN jsonl.lines = 1..n /\ DOMAIN more = 1..(n + 1) /\ n \in Nat
      /\ \A i \in 1..n : more[i] = jsonl.lines[i]
      /\ more[n + 1] = row
  BY <1>1, AppendLine
<1>3. /\ \A i \in 1..(n + 1) : i \in 1..n \/ i = n + 1
      /\ n + 1 \notin 1..n /\ n + 1 \in 1..(n + 1) /\ 1..n \subseteq 1..(n + 1)
  BY <1>2
<1>4. /\ bill = [i \in 1..n |-> jsonl.lines[i].estimated_cost_usd]
      /\ next = [i \in 1..(n + 1) |-> more[i].estimated_cost_usd]
      /\ Old = {i \in 1..n : jsonl.lines[i].tenant_id = t}
      /\ New = {i \in 1..(n + 1) : more[i].tenant_id = t}
  BY <1>1, <1>2 DEF Bill, RowsFor
<1>5. IsFiniteSet(Old) /\ n + 1 \notin Old
  <2>1. 1 \in Int /\ n \in Int
    BY <1>2
  <2>2. IsFiniteSet(1..n)
    BY <2>1, FS_Interval
  <2>3. QED
    BY <1>3, <1>4, <2>2, FS_Subset
<1>6. \A i \in Old : bill[i] \in Nat /\ next[i] = bill[i]
  BY <1>2, <1>3, <1>4
<1>7. next[n + 1] = row.estimated_cost_usd
  BY <1>2, <1>3, <1>4
<1>8. New = Old \cup IF row.tenant_id = t THEN {n + 1} ELSE {}
  BY <1>2, <1>3, <1>4
<1>9. \A i \in DOMAIN jsonl'.lines : jsonl'.lines[i].estimated_cost_usd \in Nat
  BY <1>1, <1>2, <1>3
<1>10. \A i \in Old : bill[i] \in Int /\ next[i] = bill[i]
  BY <1>6
<1>11. SumFunctionOnSet(bill, Old) \in Nat
  <2>1. \A i \in Old : bill[i] \in Nat
    BY <1>6
  <2>2. QED
    BY <1>5, <2>1, SumType
<1>12. SumFunctionOnSet(next, Old \cup {n + 1}) = SumFunctionOnSet(bill, Old) + next[n + 1]
  <2>1. IsFiniteSet(Old)
    BY <1>5
  <2>2. PICK x : x = n + 1
    OBVIOUS
  <2>3. x \notin Old /\ next[x] \in Int
    BY <1>5, <1>7, <2>2
  <2>4. SumFunctionOnSet(next, Old \cup {x}) = SumFunctionOnSet(bill, Old) + next[x]
    BY <1>10, <2>1, <2>3, SumGrow
  <2>5. QED
    BY <2>2, <2>4
<1>13. SumFunctionOnSet(bill, Old) = SumFunctionOnSet(next, Old)
  <2>1. IsFiniteSet(Old)
    BY <1>5
  <2>2. \A i \in Old : bill[i] \in Int /\ bill[i] = next[i]
    BY <1>10
  <2>3. QED
    BY <2>1, <2>2, SumSame
<1>14. SumFunctionOnSet(next, New) = SumFunctionOnSet(bill, Old) +
         IF row.tenant_id = t THEN row.estimated_cost_usd ELSE 0
  <2>1. CASE row.tenant_id = t
    BY <1>7, <1>8, <1>12, <2>1
  <2>2. CASE row.tenant_id # t
    <3>1. New = Old
      BY <1>8, <2>2
    <3>2. SumFunctionOnSet(next, New) = SumFunctionOnSet(bill, Old) + 0
      BY <1>11, <1>13, <3>1
    <3>3. QED
      BY <2>2, <3>2
  <2>3. QED
    BY <2>1, <2>2
<1>15. QED
  BY <1>1, <1>9, <1>14

\* The results of a tenant grow by the call that returns to it.
LEMMA ResultsForGrow ==
    ASSUME BillsInv, NEW c \in Calls, ~Result(c), UNCHANGED args,
           \A d \in Calls \ {c} : pc'[d] = pc[d] /\ outcome'[d] = outcome[d],
           NEW k \in Nat, Result(c)' => outcome'[c].estimated_cost_usd = k,
           ~Result(c)' => k = 0, NEW t
    PROVE  /\ SumFunctionOnSet(ResultCost, ResultsFor(t))' =
                SumFunctionOnSet(ResultCost, ResultsFor(t)) +
                  IF MeantTenant(args[c]) = t THEN k ELSE 0
           /\ \A d \in Results' : outcome'[d].estimated_cost_usd \in Nat
<1>1. PICK S, T, f, g : /\ S = ResultsFor(t) /\ T = ResultsFor(t)'
                        /\ f = ResultCost /\ g = ResultCost'
  OBVIOUS
<1>2. \A d \in Calls \ {c} : Result(d)' <=> Result(d)
  BY DEF Result
<1>3. f = [d \in {e \in Calls : Result(e)} |-> outcome[d].estimated_cost_usd]
  BY <1>1 DEF ResultCost
<1>4. g = [d \in {e \in Calls : Result(e)'} |-> outcome'[d].estimated_cost_usd]
  BY <1>1 DEF ResultCost
<1>5. c \notin S /\ \A d \in S : d \in Calls \ {c} /\ Result(d) /\ d \in Results
  BY <1>1 DEF ResultsFor, Results
<1>6. \A d \in S : f[d] \in Int /\ g[d] = f[d]
  BY <1>2, <1>3, <1>4, <1>5 DEF BillsInv
<1>7. IsFiniteSet(S)
  BY <1>1, CallsAssumption, FS_Subset DEF ResultsFor
<1>8. SumFunctionOnSet(f, S) \in Nat
  <2>1. \A d \in S : f[d] \in Nat
    BY <1>3, <1>5 DEF BillsInv
  <2>2. QED
    BY <1>7, <2>1, SumType
<1>9. \A d \in Results' : outcome'[d].estimated_cost_usd \in Nat
  BY <1>2 DEF Results, BillsInv
<1>10. CASE Result(c)' /\ MeantTenant(args[c]) = t
  <2>1. T = S \cup {c}
    BY <1>1, <1>2, <1>10 DEF ResultsFor
  <2>2. g[c] = k /\ g[c] \in Int
    BY <1>4, <1>10
  <2>3. SumFunctionOnSet(g, S \cup {c}) = SumFunctionOnSet(f, S) + g[c]
    <3>1. c \notin S /\ g[c] \in Int
      BY <1>5, <2>2
    <3>2. QED
      BY <1>6, <1>7, <3>1, SumGrow
  <2>4. QED
    BY <1>1, <1>9, <1>10, <2>1, <2>2, <2>3
<1>11. CASE ~(Result(c)' /\ MeantTenant(args[c]) = t)
  <2>1. T = S
    BY <1>1, <1>2, <1>5, <1>11 DEF ResultsFor
  <2>2. SumFunctionOnSet(f, S) = SumFunctionOnSet(g, S)
    BY <1>6, <1>7, SumSame
  <2>3. (IF MeantTenant(args[c]) = t THEN k ELSE 0) = 0
    BY <1>11
  <2>4. SumFunctionOnSet(g, T) = SumFunctionOnSet(f, S) + 0
    BY <1>8, <2>1, <2>2
  <2>5. QED
    BY <1>1, <1>9, <2>3, <2>4
<1>12. QED
  BY <1>10, <1>11

LEMMA BillsRecord ==
    ASSUME Contracted, BillsInv, NEW c \in Calls, NEW row, Recording(c, row),
           row.tenant_id = MeantTenant(args[c]), row.estimated_cost_usd \in Nat,
           \/ pc'[c] = "returned" /\ outcome'[c].estimated_cost_usd = row.estimated_cost_usd
           \/ pc'[c] = "raised" /\ row.estimated_cost_usd = 0
    PROVE  BillsInv'
<1>1. /\ jsonl'.lines = Append(jsonl.lines, row) /\ jsonl.lines \in Seq(Range(jsonl.lines))
      /\ ~Result(c) /\ UNCHANGED args
      /\ \A d \in Calls \ {c} : pc'[d] = pc[d] /\ outcome'[d] = outcome[d]
  BY DEF Recording, Tells, Result, Contracted, Sound, TypeOK
<1>2. PICK k \in Nat : k = row.estimated_cost_usd
  OBVIOUS
<1>3. /\ Result(c)' => outcome'[c].estimated_cost_usd = k
      /\ ~Result(c)' => k = 0
  BY <1>2 DEF Result
<1>4. \A i \in DOMAIN jsonl.lines : jsonl.lines[i].estimated_cost_usd \in Nat
  BY DEF BillsInv
<1>5. ASSUME NEW t
      PROVE  /\ SumFunctionOnSet(Bill, RowsFor(t))' = SumFunctionOnSet(ResultCost, ResultsFor(t))'
             /\ \A i \in DOMAIN jsonl'.lines : jsonl'.lines[i].estimated_cost_usd \in Nat
             /\ \A d \in Results' : outcome'[d].estimated_cost_usd \in Nat
  <2>1. /\ SumFunctionOnSet(ResultCost, ResultsFor(t))' =
             SumFunctionOnSet(ResultCost, ResultsFor(t)) +
               IF MeantTenant(args[c]) = t THEN k ELSE 0
        /\ \A d \in Results' : outcome'[d].estimated_cost_usd \in Nat
    BY <1>1, <1>3, ResultsForGrow
  <2>2. /\ SumFunctionOnSet(Bill, RowsFor(t))' = SumFunctionOnSet(Bill, RowsFor(t)) +
             IF row.tenant_id = t THEN row.estimated_cost_usd ELSE 0
        /\ \A i \in DOMAIN jsonl'.lines : jsonl'.lines[i].estimated_cost_usd \in Nat
    BY <1>1, <1>4, BillGrows
  <2>3. SumFunctionOnSet(Bill, RowsFor(t)) = SumFunctionOnSet(ResultCost, ResultsFor(t))
    BY DEF BillsInv
  <2>4. QED
    BY <1>2, <2>1, <2>2, <2>3
<1>6. QED
  BY <1>5 DEF BillsInv

LEMMA BillsQuiet ==
    ASSUME BillsInv, UNCHANGED jsonl,
           \A c \in Calls : /\ Result(c)' <=> Result(c)
                            /\ Result(c) => args'[c] = args[c] /\ outcome'[c] = outcome[c]
    PROVE  BillsInv'
<1>1. Results' = Results /\ \A t : ResultsFor(t)' = ResultsFor(t)
  BY DEF Results, ResultsFor
<1>2. ResultCost' = ResultCost
  BY <1>1 DEF ResultCost, Results
<1>3. Bill' = Bill /\ \A t : RowsFor(t)' = RowsFor(t)
  BY DEF Bill, RowsFor
<1>4. \A c \in Results : outcome'[c] = outcome[c]
  BY DEF Results
<1>5. QED
  BY <1>1, <1>2, <1>3, <1>4 DEF BillsInv

LEMMA BillsNext ==
    ASSUME HealthySinks, PlainMetadata, Contracted, BillsInv, [Next]_vars
    PROVE  BillsInv'
<1>1. CASE UNCHANGED vars
  BY <1>1, BillsQuiet DEF vars, Result
<1>2. ASSUME NEW c \in Calls, NEW a \in Arguments, Refuse(c, a) \/ Start(c, a)
      PROVE  BillsInv'
  <2>1. UNCHANGED <<jsonl>> /\ ~Result(c) /\ ~Result(c)'
    BY <1>2 DEF Refuse, Start, Result, Contracted, TypeOK
  <2>2. \A d \in Calls \ {c} : /\ pc'[d] = pc[d] /\ args'[d] = args[d]
                               /\ outcome'[d] = outcome[d]
    BY <1>2 DEF Refuse, Start, Contracted, TypeOK
  <2>3. QED
    BY <2>1, <2>2, BillsQuiet DEF Result
<1>3. ASSUME NEW c \in Calls, NEW r \in Responses, Succeed(c, r) PROVE BillsInv'
  <2>1. PICK row : row = SuccessRow(c, r)
    OBVIOUS
  <2>2. /\ Recording(c, row) /\ row.status = "success"
        /\ row.estimated_cost_usd = Cost(args[c], r)
        /\ pc' = [pc EXCEPT ![c] = "returned"]
    BY <1>3, <2>1, SucceedRecords DEF Contracted
  <2>3. /\ SuccessEnvelope(c, r).tenant_id = TenantId(args[c])
        /\ SuccessEnvelope(c, r).estimated_cost_usd = Cost(args[c], r)
        /\ {"tenant_id", "status"} \subseteq DOMAIN SuccessEnvelope(c, r)
    BY DEF SuccessEnvelope, Envelope
  <2>4. row.tenant_id = MeantTenant(args[c])
    BY <2>1, <2>3, RowTenant DEF SuccessRow
  <2>5. pc'[c] = "returned" /\ outcome'[c].estimated_cost_usd = row.estimated_cost_usd
    BY <1>3, <2>2, <2>3 DEF Succeed, Contracted, TypeOK
  <2>6. row.estimated_cost_usd \in Nat
    BY <1>3, <2>2, CostType DEF Succeed
  <2>7. QED
    BY <2>2, <2>4, <2>5, <2>6, BillsRecord
<1>4. ASSUME NEW c \in Calls, NEW exc, NEW m, pc[c] = "calling", UNCHANGED args,
             ErrorPath(c, exc, m, jsonl, None)
      PROVE  BillsInv'
  <2>1. PICK row : row = ErrorRow(c, exc)
    OBVIOUS
  <2>2. /\ Recording(c, row) /\ row.estimated_cost_usd = 0
        /\ pc' = [pc EXCEPT ![c] = "raised"]
    BY <1>4, <2>1, ErrorPathRecords DEF Contracted
  <2>3. /\ ErrorEnvelope(c, exc).tenant_id = TenantId(args[c])
        /\ {"tenant_id", "status"} \subseteq DOMAIN ErrorEnvelope(c, exc)
    BY DEF ErrorEnvelope, Envelope
  <2>4. row.tenant_id = MeantTenant(args[c])
    BY <2>1, <2>3, RowTenant DEF ErrorRow
  <2>5. pc'[c] = "raised" /\ row.estimated_cost_usd \in Nat
    BY <2>2 DEF Contracted, TypeOK
  <2>6. QED
    BY <2>2, <2>4, <2>5, BillsRecord
<1>5. ASSUME NEW c \in Calls, Advances(c) PROVE BillsInv'
  BY <1>5, BillsQuiet DEF Advances, Result, Contracted, TypeOK
<1>6. QED
  BY <1>1, <1>2, <1>3, <1>4, <1>5, StepForms DEF Contracted

LEMMA BillsInit == Init => BillsInv
<1> SUFFICES ASSUME Init PROVE BillsInv
  OBVIOUS
<1>1. Results = {} /\ jsonl.lines = <<>> /\ \A t : ResultsFor(t) = {} /\ RowsFor(t) = {}
  BY DEF Init, EmptyFile, Results, Result, ResultsFor, RowsFor
<1>2. \A t : /\ SumFunctionOnSet(Bill, RowsFor(t)) = 0
             /\ SumFunctionOnSet(ResultCost, ResultsFor(t)) = 0
  BY <1>1, SumEmpty
<1>3. DOMAIN jsonl.lines = {}
  BY <1>1
<1>4. QED
  BY <1>1, <1>2, <1>3 DEF BillsInv

LEMMA BillsAddUp == RowsInv /\ BillsInv => TenantBillsAddUp
<1> SUFFICES ASSUME RowsInv, BillsInv, NEW t
             PROVE  SumFunctionOnSet(RowCost, {i \in Rows : Row(i).tenant_id = t})
                      = SumFunctionOnSet(ResultCost,
                          {c \in Calls : Result(c) /\ MeantTenant(args[c]) = t})
  BY DEF TenantBillsAddUp
<1>1. Rows = DOMAIN jsonl.lines
  BY DEF Rows, RowsInv
<1>2. RowCost = Bill /\ {i \in Rows : Row(i).tenant_id = t} = RowsFor(t)
  BY <1>1 DEF RowCost, Bill, Row, RowsFor
<1>3. QED
  BY <1>2 DEF BillsInv, ResultsFor

\* With sinks that work, the rows of every tenant bill exactly what its calls
\* were told they cost, however the calls of tenants interleave and wherever
\* the tenant was named.
THEOREM BillsTrue ==
    HealthySinks /\ PlainMetadata /\ RowsReadable => (Spec => []TenantBillsAddUp)
<1> SUFFICES ASSUME HealthySinks, PlainMetadata, RowsReadable
             PROVE  Spec => []TenantBillsAddUp
  OBVIOUS
<1>1. Init => RowsInv
  BY DEF Init, RowsInv, Recorded, EmptyFile
<1>2. Contracted /\ RowsInv /\ BillsInv /\ [Next]_vars => Contracted' /\ RowsInv' /\ BillsInv'
  BY SoundNext, RowsNext, BillsNext
<1>3. QED
  BY <1>1, <1>2, ContractedInit, BillsInit, BillsAddUp, PTL DEF Spec
=============================================================================
