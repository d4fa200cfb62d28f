-------------------------------- MODULE Evals --------------------------------
(***************************************************************************)
(* The evaluation harness: three runners, each a process of its own that   *)
(* posts the cases of its dataset to the application in-process, judges    *)
(* the answers, overwrites its result file and ends with an exit code; and *)
(* the reader of the three files, the report generator.  The runners are   *)
(* run one after the other, again and again, while the application         *)
(* changes under them.  A process can be killed anywhere.                  *)
(*                                                                         *)
(* The text of the three runners differs in what they assert and in what   *)
(* they put in place of the gateway; their loop is modelled once.          *)
(***************************************************************************)
EXTENDS Naturals, Sequences, FiniteSets, Listing, Routing

CONSTANTS
    Runners,      \* the runners whose commands are run
    Datasets,     \* of each runner: what its .jsonl file may hold, a set of
                  \* sequences of lines
    Versions,     \* versions of the application that are evaluated
    EnvKeys,      \* APP_API_KEY in the environment of the runners, or None
    RPM,          \* RATE_LIMIT_RPM
    MaxRuns, MaxKills,   \* bounds of the instance
    None, Torn, NotJson

RunnerNames == {"classify", "answer", "conversation"}
RunnerKey == "test-key-007"

ASSUME EvalAssumption ==
    /\ Runners \subseteq RunnerNames
    /\ DOMAIN Datasets = Runners
    /\ \A r \in Runners : \A lines \in Datasets[r] :
          Len(lines) \in Nat /\ DOMAIN lines = 1..Len(lines)
    /\ RPM \in Nat /\ MaxRuns \in Nat /\ MaxKills \in Nat

VARIABLES
    env,       \* APP_API_KEY
    pc,        \* of the runner under way: idle, posting, writing, exited, raised, killed
    run,       \* which runner it is, its cases, the version it evaluates
    results,   \* the verdicts so far, one per case
    passed, failed,
    slots,     \* requests the process's rate limiter counts
    exit,      \* the exit code of an ended runner
    seen,      \* history: what the application answered to each case
    files,     \* the result files: None, Torn or a payload
    finished,  \* history: the last run of each runner that wrote its file
    runs, kills,
    report     \* what the report says of the three files, None before it is made

loop == <<run, results, passed, failed, slots, exit, seen>>
disk == <<files, finished>>
counts == <<runs, kills>>
vars == <<env, pc, loop, disk, counts, report>>

Ended == pc \notin {"posting", "writing"}

Init ==
    /\ env \in EnvKeys
    /\ pc = "idle" /\ run = None /\ results = <<>> /\ seen = <<>>
    /\ passed = 0 /\ failed = 0 /\ slots = 0 /\ exit = None
    /\ files = [r \in Runners |-> None]
    /\ finished = [r \in Runners |-> None]
    /\ runs = 0 /\ kills = 0 /\ report = None
-----------------------------------------------------------------------------
(* What a version of the application answers to a case.                    *)

\* Text and model of the mocked gateway, as lengths.
MockAnswer == [cheap     |-> [text |-> 26, selected_model |-> 11],
               expensive |-> [text |-> 30, selected_model |-> 6]]
MockConversation == [tier \in Tiers |-> [text |-> 26, selected_model |-> 6]]

Body(r, input) ==
    CASE r = "classify"     -> ClassifyBody(input)
      [] r = "answer"       -> AnswerBody(input, MockAnswer)
      [] r = "conversation" -> ConversationBody(input, MockConversation)

\* A later version may leave fields out, give them other values, or grow.
Served(version, fields) ==
    [f \in DOMAIN fields \ version.drops |->
        IF f \in DOMAIN version.sets THEN version.sets[f] ELSE fields[f]]

\* The request schemas want a message; the context has a budget.
StatusOf(r, input) ==
    IF ~input.valid THEN 422
    ELSE IF r = "conversation" /\ ~input.fits THEN 400
    ELSE 200

-----------------------------------------------------------------------------
(* The assertions: for each name, whether it holds of a 200 answer.        *)

RequiredFields(r) ==
    CASE r = "classify"     -> {"complexity", "recommended_tier", "needs_escalation"}
      [] r = "answer"       -> {"answer", "selected_model", "routing_decision"}
      [] r = "conversation" -> {"answer", "turn_index", "context_tokens_used",
                                "context_strategy_applied"}

AllPresent(r, fields) == RequiredFields(r) \subseteq DOMAIN fields
Bounded(size, max_chars) == size <= max_chars
NonEmpty(fields, field) == field \in DOMAIN fields /\ fields[field] > 0

Matches(fields, expected, field) ==
    field \in DOMAIN fields /\ fields[field] = expected[field]

\* Two of the runners check a field only if the case expects a value.
MatchesIfExpected(fields, expected, field) ==
    field \in DOMAIN expected => Matches(fields, expected, field)

ClassifyAssertions(expected, body) ==
    [required_fields_present |-> AllPresent("classify", body.fields),
     complexity_match        |-> Matches(body.fields, expected, "complexity"),
     recommended_tier_match  |-> Matches(body.fields, expected, "recommended_tier"),
     needs_escalation_match  |-> Matches(body.fields, expected, "needs_escalation"),
     bounded_size            |-> Bounded(body.size, 500)]

AnswerAssertions(expected, body) ==
    [required_fields_present |-> AllPresent("answer", body.fields),
     answer_non_empty        |-> NonEmpty(body.fields, "answer"),
     selected_model_present  |-> NonEmpty(body.fields, "selected_model"),
     routing_decision_match  |-> MatchesIfExpected(body.fields, expected, "routing_decision"),
     bounded_size            |-> Bounded(body.size, 5000)]

\* turn_index and context_tokens_used are never negative here.
ContextMetadataValid(fields) ==
    {"turn_index", "context_tokens_used", "context_strategy_applied"} \subseteq DOMAIN fields

ConversationAssertions(expected, body) ==
    [required_fields_present |-> AllPresent("conversation", body.fields),
     answer_non_empty        |-> NonEmpty(body.fields, "answer"),
     context_metadata_valid  |-> ContextMetadataValid(body.fields),
     turn_index_match        |-> MatchesIfExpected(body.fields, expected, "turn_index"),
     context_strategy_match  |-> MatchesIfExpected(body.fields, expected,
                                                   "context_strategy_applied"),
     bounded_size            |-> Bounded(body.size, 5000)]

Assertions(r, expected, body) ==
    CASE r = "classify"     -> ClassifyAssertions(expected, body)
      [] r = "answer"       -> AnswerAssertions(expected, body)
      [] r = "conversation" -> ConversationAssertions(expected, body)

\* expected[field] of the classify runner: a field that is present in the
\* answer and that the case does not expect is a KeyError.
ExpectsTooLittle(r, expected, fields) ==
    r = "classify" /\ \E f \in RequiredFields(r) : f \in DOMAIN fields \ DOMAIN expected
-----------------------------------------------------------------------------
(* A run.                                                                  *)

\* load_jsonl_cases: blank lines are skipped.
Cases(lines) == Keep(lines, {i \in DOMAIN lines : lines[i] # None})
Readable(lines) == \A i \in DOMAIN lines : lines[i] # NotJson

\* mutant: the result file is opened when the run begins.
OpensEarly(r, lines, version) ==
    /\ Ended /\ report = None /\ runs < MaxRuns /\ runs' = runs + 1
    /\ run' = [runner |-> r, cases |-> Cases(lines), version |-> version]
    /\ pc' = IF Readable(lines) THEN "posting" ELSE "raised"
    /\ results' = <<>> /\ seen' = <<>> /\ passed' = 0 /\ failed' = 0
    /\ slots' = 0 /\ exit' = None
    /\ files' = [files EXCEPT ![r] = Torn]
    /\ UNCHANGED <<env, finished, kills, report>>

\* mutant: the runs share a process, and its limiter.
SharedProcess(r, lines, version) ==
    /\ Ended /\ report = None /\ runs < MaxRuns /\ runs' = runs + 1
    /\ run' = [runner |-> r, cases |-> Cases(lines), version |-> version]
    /\ pc' = IF Readable(lines) THEN "posting" ELSE "raised"
    /\ results' = <<>> /\ seen' = <<>> /\ passed' = 0 /\ failed' = 0
    /\ exit' = None
    /\ UNCHANGED <<env, slots, disk, kills, report>>

\* The command is given: a new process, with a new rate limiter, reads the
\* dataset; a line that is not JSON ends it.
Start(r, lines, version) ==
    /\ Ended /\ report = None /\ runs < MaxRuns /\ runs' = runs + 1
    /\ run' = [runner |-> r, cases |-> Cases(lines), version |-> version]
    /\ pc' = IF Readable(lines) THEN "posting" ELSE "raised"
    /\ results' = <<>> /\ seen' = <<>> /\ passed' = 0 /\ failed' = 0
    /\ slots' = 0 /\ exit' = None
    /\ UNCHANGED <<env, disk, kills, report>>

NextCase == run.cases[Len(results) + 1]
Posting == pc = "posting" /\ Len(results) < Len(run.cases)

\* An exception nobody catches: the verdicts so far are lost.
Raise == pc' = "raised" /\ UNCHANGED <<env, loop, disk, counts, report>>

\* case["expected"], before the request; the middleware is built, without its
\* key, by the first request.
NotPosted ==
    /\ Posting
    /\ NextCase.expected = None \/ env = None
    /\ Raise

CanPost == Posting /\ NextCase.expected # None /\ env # None
Verdict(status, assertions) ==
    [case_id |-> Len(results) + 1, status |-> status, assertions |-> assertions]

\* mutant: the verdict is recorded, and the failure not counted.
FailUncounted(status) ==
    /\ results' = Append(results, Verdict("fail", <<>>))
    /\ seen' = Append(seen, [status |-> status])
    /\ UNCHANGED <<env, pc, run, passed, failed, exit, disk, counts, report>>

\* Any status but 200.
HttpFailure(status) ==
    /\ results' = Append(results, Verdict("fail", <<>>))
    /\ failed' = failed + 1
    /\ seen' = Append(seen, [status |-> status])
    /\ UNCHANGED <<env, pc, run, passed, exit, disk, counts, report>>

Unauthorized ==
    /\ CanPost /\ env # RunnerKey
    /\ HttpFailure(401)
    /\ UNCHANGED slots

\* All cases of a run come from one caller; any number of its requests may
\* have left the window of a minute by now.
Limited ==
    /\ CanPost /\ env = RunnerKey
    /\ \E left \in 0..slots : slots - left >= RPM /\ slots' = slots - left
    /\ HttpFailure(429)

Admitted ==
    /\ CanPost /\ env = RunnerKey
    /\ \E left \in 0..slots : slots - left < RPM /\ slots' = slots - left + 1

Refused ==
    /\ Admitted
    /\ StatusOf(run.runner, NextCase.input) # 200
    /\ HttpFailure(StatusOf(run.runner, NextCase.input))

Body200 ==
    [status |-> 200, size |-> run.version.size,
     fields |-> Served(run.version, Body(run.runner, NextCase.input))]

\* The test client raises what the route raises; the classify runner raises
\* when the case expects too little.
Breaks ==
    \/ run.version.raises
    \/ ExpectsTooLittle(run.runner, NextCase.expected, Body200.fields)

Broken ==
    /\ CanPost /\ env = RunnerKey
    /\ \E left \in 0..slots : slots - left < RPM
    /\ StatusOf(run.runner, NextCase.input) = 200 /\ Breaks
    /\ Raise

Judge ==
    /\ Admitted
    /\ StatusOf(run.runner, NextCase.input) = 200 /\ ~Breaks
    /\ LET assertions == Assertions(run.runner, NextCase.expected, Body200)
           ok         == \A name \in DOMAIN assertions : assertions[name]
       IN  /\ results' = Append(results, Verdict(IF ok THEN "pass" ELSE "fail", assertions))
           /\ passed' = IF ok THEN passed + 1 ELSE passed
           /\ failed' = IF ok THEN failed ELSE failed + 1
    /\ seen' = Append(seen, Body200)
    /\ UNCHANGED <<env, pc, run, exit, disk, counts, report>>

\* open(path, "w") empties the file.
OpenResults ==
    /\ pc = "posting" /\ Len(results) = Len(run.cases)
    /\ pc' = "writing"
    /\ files' = [files EXCEPT ![run.runner] = Torn]
    /\ UNCHANGED <<env, loop, finished, counts, report>>

Payload == [total_cases |-> Len(run.cases), passed |-> passed, failed |-> failed,
            results |-> results]

\* The file is written and closed, the process ends.
Exit ==
    /\ pc = "writing" /\ pc' = "exited"
    /\ files' = [files EXCEPT ![run.runner] = Payload]
    /\ exit' = IF failed = 0 THEN 0 ELSE 1
    /\ finished' = [finished EXCEPT ![run.runner] = [run |-> run, seen |-> seen,
                                                     results |-> results]]
    /\ UNCHANGED <<env, run, results, passed, failed, slots, seen, counts, report>>

\* Killed, or the disk is full while the file is written.
Kill ==
    /\ ~Ended /\ kills < MaxKills /\ kills' = kills + 1
    /\ pc' = "killed"
    /\ UNCHANGED <<env, loop, disk, runs, report>>
-----------------------------------------------------------------------------
(* The report.                                                             *)

SummaryLine(payload) ==
    IF payload = None THEN None   \* missing coverage
    ELSE [total_cases |-> payload.total_cases, passed |-> payload.passed,
          failed |-> payload.failed,
          failing |-> {payload.results[i].case_id :
                       i \in {j \in DOMAIN payload.results :
                                payload.results[j].status = "fail"}}]

\* json.load raises on what is not JSON, and there is no report at all.
MakeReport ==
    /\ Ended /\ report = None
    /\ report' = IF \E r \in Runners : files[r] = Torn
                 THEN [raised |-> TRUE]
                 ELSE [raised |-> FALSE,
                       summary |-> [r \in Runners |-> SummaryLine(files[r])]]
    /\ UNCHANGED <<env, pc, loop, disk, counts>>

Next ==
    \/ \E r \in Runners, version \in Versions :
         \E lines \in Datasets[r] : Start(r, lines, version)
    \/ NotPosted \/ Unauthorized \/ Limited \/ Refused \/ Broken \/ Judge
    \/ OpenResults \/ Exit \/ Kill
    \/ MakeReport

Spec == Init /\ [][Next]_vars
-----------------------------------------------------------------------------
\* What 003-eval-harness/spec.md asks of a route's answer, in its words:
\* "schema validity, required field presence", an answer and a model that are
\* not empty, a bounded output, and each of the route's fields as the case
\* expects it.
Conforms(r, case, answer) ==
    /\ answer.status = 200
    /\ RequiredFields(r) \subseteq DOMAIN answer.fields
    /\ \A f \in {"answer", "selected_model"} \cap DOMAIN answer.fields :
         answer.fields[f] > 0
    /\ answer.size <= (IF r = "classify" THEN 500 ELSE 5000)
    /\ \A f \in DOMAIN case.expected \cap RequiredFields(r) :
         answer.fields[f] = case.expected[f]

\* A runner exits 0 exactly when every case of its dataset has been answered
\* and every answer conforms: no failure of any kind, a refused request, a
\* request over the rate limit, a field left out, an exception half way, is
\* taken for a pass, and nothing that conforms is reported as a failure
\* ("Exit code: 0 if all pass, 1 if any fail", run_classify_eval.py).
GreenMeansConforming ==
    /\ exit # None => (exit = 0 <=>
         \A i \in DOMAIN run.cases : Conforms(run.runner, run.cases[i], seen[i]))
    /\ exit # None => Len(seen) = Len(run.cases)
    /\ pc \in {"raised", "killed"} => exit = None

Failing(r) ==
    {i \in DOMAIN finished[r].seen :
        ~Conforms(r, finished[r].run.cases[i], finished[r].seen[i])}

\* However runs end, crash or are repeated, the report shows for each runner
\* what its last complete run found, names exactly the cases that did not
\* conform, and says "unavailable" only of a runner that never completed.  It
\* fails only after a process was stopped while it wrote.  That last run need
\* not be the last one that was started: a run that crashes leaves the verdicts
\* of the one before.
SummariesTrue == report # None =>
    IF report.raised THEN kills > 0
    ELSE \A r \in Runners :
           report.summary[r] =
             IF finished[r] = None THEN None
             ELSE [total_cases |-> Len(finished[r].run.cases),
                   passed      |-> Len(finished[r].run.cases) - Cardinality(Failing(r)),
                   failed      |-> Cardinality(Failing(r)),
                   failing     |-> Failing(r)]

\* 003-eval-harness/design.md: "The same dataset run twice should produce the
\* same pass/fail outcomes".  A complete run of the same cases against the
\* same version has the results of the one before, as long as the limiter
\* lets one run through: a longer dataset is judged by the clock.
Reproducible ==
    [][\A r \in Runners :
         /\ finished[r] # None /\ Len(finished'[r].run.cases) <= RPM
         /\ finished'[r].run = finished[r].run
         => finished'[r].results = finished[r].results]_vars
=============================================================================
