----------------------------- MODULE OfflineProofs ----------------------------
(***************************************************************************)
(* Proofs about the offline tools.  Of the evaluation runners: for any     *)
(* datasets of comparable cases, versions of the application, keys, rate   *)
(* limits and kills.  Of the report, after them: for logs of any lines and *)
(* any length.                                                             *)
(***************************************************************************)
EXTENDS Evals, Report, Sums

\* A sequence, of whatever cases.
IsList(list) == Len(list) \in Nat /\ DOMAIN list = 1..Len(list)

\* The fields whose expected values a runner looks at.
Compared(r) ==
    CASE r = "classify"     -> RequiredFields("classify")
      [] r = "answer"       -> {"routing_decision"}
      [] r = "conversation" -> {"turn_index", "context_strategy_applied"}

Comparable(r, cases) ==
    \A i \in DOMAIN cases :
       cases[i].expected # None =>
          DOMAIN cases[i].expected \cap RequiredFields(r) \subseteq Compared(r)

\* What the theorems need of the datasets: no case states the expected value
\* of a field of the answer that its runner does not compare.  (Such a case
\* would pass whatever the field is.)
ComparableDatasets ==
    \A r \in Runners : \A lines \in Datasets[r] : Comparable(r, Cases(lines))

\* Without its blank lines a dataset is a list of cases.
LEMMA CasesAreList ==
    ASSUME NEW r \in Runners, NEW lines \in Datasets[r]
    PROVE  IsList(Cases(lines))
<1>1. PICK n \in Nat : DOMAIN lines = 1..n
  BY EvalAssumption
<1>2. PICK S : S = {i \in DOMAIN lines : lines[i] # None}
  OBVIOUS
<1>3. S \in SUBSET Int /\ IsFiniteSet(S)
  <2>1. 1 \in Int /\ n \in Int
    OBVIOUS
  <2>2. IsFiniteSet(1..n)
    BY <2>1, FS_Interval
  <2>3. S \subseteq 1..n
    BY <1>1, <1>2
  <2>4. IsFiniteSet(S)
    BY <2>2, <2>3, FS_Subset
  <2>5. S \in SUBSET Int
    BY <2>3
  <2>6. QED
    BY <2>4, <2>5
<1>4. PICK k \in Nat : DOMAIN Listed(S) = 1..k
  BY <1>3, ListedType
<1>5. Cases(lines) = [i \in 1..k |-> lines[Listed(S)[i]]]
  BY <1>2, <1>4 DEF Cases, Keep
<1>6. QED
  BY <1>5 DEF IsList

(***************************************************************************)
(* An answer passes its runner's assertions exactly if it conforms.        *)
(***************************************************************************)

Passes(r, expected, body) ==
    \A name \in DOMAIN Assertions(r, expected, body) :
       Assertions(r, expected, body)[name]

LEMMA ClassifyJudges ==
    ASSUME NEW case, NEW body, body.status = 200,
           DOMAIN body.fields \subseteq RequiredFields("classify"),
           ~ExpectsTooLittle("classify", case.expected, body.fields)
    PROVE  Passes("classify", case.expected, body) <=> Conforms("classify", case, body)
<1> DEFINE fields == body.fields
           expected == case.expected
           Required == {"complexity", "recommended_tier", "needs_escalation"}
<1>1. RequiredFields("classify") = Required
  BY DEF RequiredFields
<1>2. Passes("classify", expected, body) <=>
         /\ Required \subseteq DOMAIN fields
         /\ \A f \in Required : f \in DOMAIN fields /\ fields[f] = expected[f]
         /\ body.size <= 500
  <2>1. Assertions("classify", expected, body) = ClassifyAssertions(expected, body)
    BY DEF Assertions
  <2>2. DOMAIN ClassifyAssertions(expected, body) =
           {"required_fields_present", "complexity_match", "recommended_tier_match",
            "needs_escalation_match", "bounded_size"}
    BY DEF ClassifyAssertions
  <2>3. /\ ClassifyAssertions(expected, body).required_fields_present
             <=> AllPresent("classify", fields)
        /\ ClassifyAssertions(expected, body).complexity_match
             <=> Matches(fields, expected, "complexity")
        /\ ClassifyAssertions(expected, body).recommended_tier_match
             <=> Matches(fields, expected, "recommended_tier")
        /\ ClassifyAssertions(expected, body).needs_escalation_match
             <=> Matches(fields, expected, "needs_escalation")
        /\ ClassifyAssertions(expected, body).bounded_size
             <=> Bounded(body.size, 500)
    BY DEF ClassifyAssertions
  <2>4. Passes("classify", expected, body) <=>
           /\ AllPresent("classify", fields)
           /\ Matches(fields, expected, "complexity")
           /\ Matches(fields, expected, "recommended_tier")
           /\ Matches(fields, expected, "needs_escalation")
           /\ Bounded(body.size, 500)
    BY <2>1, <2>2, <2>3 DEF Passes
  <2>5. QED
    BY <1>1, <2>4 DEF AllPresent, Matches, Bounded
<1>3. {"answer", "selected_model"} \cap DOMAIN fields = {}
  BY <1>1
<1>4. Required \subseteq DOMAIN fields => Required \subseteq DOMAIN expected
  BY <1>1 DEF ExpectsTooLittle
<1>5. Conforms("classify", case, body) <=>
         /\ Required \subseteq DOMAIN fields
         /\ body.size <= 500
         /\ \A f \in DOMAIN expected \cap Required : fields[f] = expected[f]
  BY <1>1, <1>3 DEF Conforms
<1>6. QED
  BY <1>2, <1>4, <1>5

LEMMA AnswerJudges ==
    ASSUME NEW case, NEW body, body.status = 200,
           DOMAIN case.expected \cap RequiredFields("answer") \subseteq Compared("answer")
    PROVE  Passes("answer", case.expected, body) <=> Conforms("answer", case, body)
<1> DEFINE fields == body.fields
           expected == case.expected
           Required == {"answer", "selected_model", "routing_decision"}
<1>1. RequiredFields("answer") = Required /\ Compared("answer") = {"routing_decision"}
  BY DEF RequiredFields, Compared
<1>2. Passes("answer", expected, body) <=>
         /\ Required \subseteq DOMAIN fields
         /\ fields["answer"] > 0 /\ fields["selected_model"] > 0
         /\ "routing_decision" \in DOMAIN expected =>
              fields["routing_decision"] = expected["routing_decision"]
         /\ body.size <= 5000
  <2>1. Assertions("answer", expected, body) = AnswerAssertions(expected, body)
    BY DEF Assertions
  <2>2. DOMAIN AnswerAssertions(expected, body) =
           {"required_fields_present", "answer_non_empty", "selected_model_present",
            "routing_decision_match", "bounded_size"}
    BY DEF AnswerAssertions
  <2>3. /\ AnswerAssertions(expected, body).required_fields_present
             <=> AllPresent("answer", fields)
        /\ AnswerAssertions(expected, body).answer_non_empty
             <=> NonEmpty(fields, "answer")
        /\ AnswerAssertions(expected, body).selected_model_present
             <=> NonEmpty(fields, "selected_model")
        /\ AnswerAssertions(expected, body).routing_decision_match
             <=> MatchesIfExpected(fields, expected, "routing_decision")
        /\ AnswerAssertions(expected, body).bounded_size
             <=> Bounded(body.size, 5000)
    BY DEF AnswerAssertions
  <2>4. Passes("answer", expected, body) <=>
           /\ AllPresent("answer", fields)
           /\ NonEmpty(fields, "answer")
           /\ NonEmpty(fields, "selected_model")
           /\ MatchesIfExpected(fields, expected, "routing_decision")
           /\ Bounded(body.size, 5000)
    BY <2>1, <2>2, <2>3 DEF Passes
  <2>5. QED
    BY <1>1, <2>4 DEF AllPresent, NonEmpty, MatchesIfExpected, Matches, Bounded
<1>3. DOMAIN expected \cap Required =
         IF "routing_decision" \in DOMAIN expected THEN {"routing_decision"} ELSE {}
  BY <1>1
<1>4. Conforms("answer", case, body) <=>
         /\ Required \subseteq DOMAIN fields
         /\ \A f \in {"answer", "selected_model"} \cap DOMAIN fields : fields[f] > 0
         /\ body.size <= 5000
         /\ \A f \in DOMAIN expected \cap Required : fields[f] = expected[f]
  BY <1>1 DEF Conforms
<1>5. QED
  BY <1>2, <1>3, <1>4

LEMMA ConversationJudges ==
    ASSUME NEW case, NEW body, body.status = 200,
           DOMAIN body.fields \subseteq RequiredFields("conversation"),
           DOMAIN case.expected \cap RequiredFields("conversation")
              \subseteq Compared("conversation")
    PROVE  Passes("conversation", case.expected, body)
              <=> Conforms("conversation", case, body)
<1> DEFINE fields == body.fields
           expected == case.expected
           Required == {"answer", "turn_index", "context_tokens_used",
                        "context_strategy_applied"}
           Looked == {"turn_index", "context_strategy_applied"}
<1>1. RequiredFields("conversation") = Required /\ Compared("conversation") = Looked
  BY DEF RequiredFields, Compared
<1>2. Passes("conversation", expected, body) <=>
         /\ Required \subseteq DOMAIN fields
         /\ fields["answer"] > 0
         /\ \A f \in Looked : f \in DOMAIN expected => fields[f] = expected[f]
         /\ body.size <= 5000
  <2>1. Assertions("conversation", expected, body) = ConversationAssertions(expected, body)
    BY DEF Assertions
  <2>2. DOMAIN ConversationAssertions(expected, body) =
           {"required_fields_present", "answer_non_empty", "context_metadata_valid",
            "turn_index_match", "context_strategy_match", "bounded_size"}
    BY DEF ConversationAssertions
  <2>3. /\ ConversationAssertions(expected, body).required_fields_present
             <=> AllPresent("conversation", fields)
        /\ ConversationAssertions(expected, body).answer_non_empty
             <=> NonEmpty(fields, "answer")
        /\ ConversationAssertions(expected, body).context_metadata_valid
             <=> ContextMetadataValid(fields)
        /\ ConversationAssertions(expected, body).turn_index_match
             <=> MatchesIfExpected(fields, expected, "turn_index")
        /\ ConversationAssertions(expected, body).context_strategy_match
             <=> MatchesIfExpected(fields, expected, "context_strategy_applied")
        /\ ConversationAssertions(expected, body).bounded_size
             <=> Bounded(body.size, 5000)
    BY DEF ConversationAssertions
  <2>4. Passes("conversation", expected, body) <=>
           /\ AllPresent("conversation", fields)
           /\ NonEmpty(fields, "answer")
           /\ ContextMetadataValid(fields)
           /\ MatchesIfExpected(fields, expected, "turn_index")
           /\ MatchesIfExpected(fields, expected, "context_strategy_applied")
           /\ Bounded(body.size, 5000)
    BY <2>1, <2>2, <2>3 DEF Passes
  <2>5. QED
    BY <1>1, <2>4 DEF AllPresent, NonEmpty, ContextMetadataValid, MatchesIfExpected,
                      Matches, Bounded
<1>3. \A f : f \in DOMAIN expected \cap Required <=> f \in Looked /\ f \in DOMAIN expected
  BY <1>1
<1>4. Conforms("conversation", case, body) <=>
         /\ Required \subseteq DOMAIN fields
         /\ \A f \in {"answer", "selected_model"} \cap DOMAIN fields : fields[f] > 0
         /\ body.size <= 5000
         /\ \A f \in DOMAIN expected \cap Required : fields[f] = expected[f]
  BY <1>1 DEF Conforms
<1>5. "selected_model" \notin DOMAIN fields
  BY <1>1
<1>6. QED
  BY <1>2, <1>3, <1>4, <1>5

\* What a version makes of a body has no field that the route does not have.
LEMMA ServedFields ==
    ASSUME NEW r \in RunnerNames, NEW version, NEW input
    PROVE  DOMAIN Served(version, Body(r, input)) \subseteq RequiredFields(r)
<1>1. DOMAIN Body(r, input) = RequiredFields(r)
  BY DEF Body, RequiredFields, RunnerNames, ClassifyBody, DetermineComplexity,
         AnswerBody, ConversationBody
<1>2. QED
  BY <1>1 DEF Served

LEMMA JudgesRightly ==
    ASSUME NEW r \in RunnerNames, NEW case, NEW version, NEW body,
           body.status = 200, body.fields = Served(version, Body(r, case.input)),
           ~ExpectsTooLittle(r, case.expected, body.fields),
           DOMAIN case.expected \cap RequiredFields(r) \subseteq Compared(r)
    PROVE  Passes(r, case.expected, body) <=> Conforms(r, case, body)
<1>1. DOMAIN body.fields \subseteq RequiredFields(r)
  BY ServedFields
<1>2. CASE r = "classify"
  BY <1>1, <1>2, ClassifyJudges
<1>3. CASE r = "answer"
  BY <1>3, AnswerJudges
<1>4. CASE r = "conversation"
  BY <1>1, <1>4, ConversationJudges
<1>5. QED
  BY <1>2, <1>3, <1>4 DEF RunnerNames
-----------------------------------------------------------------------------
(***************************************************************************)
(* The loop of a runner: the count of failures is zero exactly while every *)
(* answer so far conforms.                                                 *)
(***************************************************************************)

Running == {"posting", "writing", "exited"}
AllConform == \A i \in DOMAIN seen : Conforms(run.runner, run.cases[i], seen[i])

RunInv ==
    /\ run.runner \in Runners
    /\ IsList(run.cases) /\ Comparable(run.runner, run.cases)
    /\ \E Answers : seen \in Seq(Answers)
    /\ \E Verdicts : results \in Seq(Verdicts)
    /\ Len(results) = Len(seen) /\ Len(seen) <= Len(run.cases)
    /\ failed \in Nat
    /\ failed = 0 <=> AllConform
    /\ pc \in {"writing", "exited"} => Len(seen) = Len(run.cases)

EvalInv ==
    /\ pc \in Running => RunInv
    /\ pc = "exited" => (exit = 0 <=> failed = 0)
    /\ pc # "exited" => exit = None

\* One more case is answered, with or without a failure.
Posted(answer) ==
    /\ seen' = Append(seen, answer)
    /\ \E verdict : results' = Append(results, verdict)
    /\ failed' = (IF Conforms(run.runner, NextCase, answer) THEN failed ELSE failed + 1)
    /\ UNCHANGED <<run, pc, exit>>

LEMMA PostedKeeps ==
    ASSUME EvalInv, Posting, NEW answer, Posted(answer)
    PROVE  EvalInv'
<1>1. pc = "posting" /\ RunInv /\ Len(results) < Len(run.cases)
  BY DEF EvalInv, Posting, Running
<1>2. PICK Answers : seen \in Seq(Answers)
  BY <1>1 DEF RunInv
<1>3. PICK Verdicts : results \in Seq(Verdicts)
  BY <1>1 DEF RunInv
<1>4. PICK verdict : results' = Append(results, verdict)
  BY DEF Posted
<1>5. /\ seen \in Seq(Answers \cup {answer})
      /\ results \in Seq(Verdicts \cup {verdict})
  BY <1>2, <1>3
<1>6. /\ seen' \in Seq(Answers \cup {answer}) /\ Len(seen') = Len(seen) + 1
      /\ results' \in Seq(Verdicts \cup {verdict}) /\ Len(results') = Len(results) + 1
  BY <1>4, <1>5 DEF Posted
<1>7. Len(seen) \in Nat /\ Len(seen) = Len(results) /\ Len(run.cases) \in Nat
      /\ DOMAIN seen = 1..Len(seen)
  BY <1>1, <1>2 DEF RunInv, IsList
<1>8. AllConform' <=> AllConform /\ Conforms(run.runner, NextCase, answer)
  <2>1. /\ DOMAIN seen' = DOMAIN seen \cup {Len(seen) + 1}
        /\ \A i \in DOMAIN seen : seen'[i] = seen[i]
        /\ seen'[Len(seen) + 1] = answer
    BY <1>5, <1>6, <1>7 DEF Posted
  <2>2. NextCase = run.cases[Len(seen) + 1]
    BY <1>7 DEF NextCase
  <2>3. run' = run
    BY DEF Posted
  <2>4. AllConform' <=>
           \A i \in DOMAIN seen' : Conforms(run.runner, run.cases[i], seen'[i])
    BY <2>3 DEF AllConform, Conforms
  <2>5. QED
    BY <2>1, <2>2, <2>4 DEF AllConform
<1>9. failed \in Nat /\ (failed = 0 <=> AllConform)
  BY <1>1 DEF RunInv
<1>10. failed' \in Nat /\ (failed' = 0 <=> AllConform')
  <2>1. CASE Conforms(run.runner, NextCase, answer)
    BY <2>1, <1>8, <1>9 DEF Posted
  <2>2. CASE ~Conforms(run.runner, NextCase, answer)
    <3>1. failed' = failed + 1 /\ ~AllConform'
      BY <2>2, <1>8 DEF Posted
    <3>2. QED
      BY <3>1, <1>9
  <2>3. QED
    BY <2>1, <2>2
<1>11. run' = run /\ pc' = pc /\ exit' = exit
  BY DEF Posted
<1>12. run'.runner \in Runners /\ IsList(run'.cases) /\ Comparable(run'.runner, run'.cases)
  BY <1>1, <1>11 DEF RunInv
<1>13. Len(results') = Len(seen') /\ Len(seen') <= Len(run'.cases)
  BY <1>1, <1>6, <1>7, <1>11
<1>14. RunInv'
  BY <1>1, <1>6, <1>10, <1>11, <1>12, <1>13 DEF RunInv
<1>15. QED
  BY <1>1, <1>11, <1>14 DEF EvalInv, Running

LEMMA FailurePosted ==
    ASSUME EvalInv, Posting, NEW status, status # 200, HttpFailure(status)
    PROVE  EvalInv'
<1>1. ~Conforms(run.runner, NextCase, [status |-> status])
  BY DEF Conforms
<1>2. Posted([status |-> status])
  BY <1>1 DEF HttpFailure, Posted
<1>3. QED
  BY <1>2, PostedKeeps

LEMMA JudgedRightly ==
    ASSUME EvalInv, CanPost, ~Breaks
    PROVE  Passes(run.runner, NextCase.expected, Body200)
             <=> Conforms(run.runner, NextCase, Body200)
<1>1. Posting
  BY DEF CanPost
<1>2. RunInv /\ run.runner \in RunnerNames
  BY <1>1, EvalAssumption DEF EvalInv, Posting, Running, RunInv
<1>3. NextCase.expected # None
      /\ DOMAIN NextCase.expected \cap RequiredFields(run.runner) \subseteq Compared(run.runner)
  <2>1. PICK Verdicts : results \in Seq(Verdicts)
    BY <1>2 DEF RunInv
  <2>2. Len(results) + 1 \in DOMAIN run.cases
    BY <1>1, <1>2, <2>1 DEF Posting, RunInv, IsList
  <2>3. QED
    BY <1>1, <1>2, <2>2 DEF CanPost, NextCase, RunInv, Comparable
<1>4. /\ Body200.status = 200
      /\ Body200.fields = Served(run.version, Body(run.runner, NextCase.input))
  BY DEF Body200
<1>5. ~ExpectsTooLittle(run.runner, NextCase.expected, Body200.fields)
  BY DEF Breaks
<1>6. QED
  BY <1>2, <1>3, <1>4, <1>5, JudgesRightly

LEMMA JudgePosted ==
    ASSUME EvalInv, Judge
    PROVE  EvalInv'
<1>1. Posting /\ CanPost /\ ~Breaks
  BY DEF Judge, Admitted, CanPost
<1>2. Passes(run.runner, NextCase.expected, Body200)
         <=> Conforms(run.runner, NextCase, Body200)
  BY <1>1, JudgedRightly
<1>3. failed' = (IF Passes(run.runner, NextCase.expected, Body200)
                 THEN failed ELSE failed + 1)
  BY DEF Judge, Passes
<1>4. Posted(Body200)
  BY <1>2, <1>3 DEF Judge, Posted
<1>5. QED
  BY <1>1, <1>4, PostedKeeps

LEMMA StartKeeps ==
    ASSUME ComparableDatasets, NEW r \in Runners, NEW lines \in Datasets[r],
           NEW version \in Versions, Start(r, lines, version)
    PROVE  EvalInv'
<1>1. /\ run'.runner = r /\ run'.cases = Cases(lines)
      /\ results' = <<>> /\ seen' = <<>> /\ failed' = 0 /\ exit' = None
      /\ pc' \in {"posting", "raised"}
  BY DEF Start
<1>2. IsList(Cases(lines)) /\ Comparable(r, Cases(lines))
  BY CasesAreList DEF ComparableDatasets
<1>3. seen' \in Seq({}) /\ results' \in Seq({}) /\ Len(seen') = 0 /\ DOMAIN seen' = {}
      /\ Len(results') = 0
  BY <1>1
<1>4. AllConform'
  BY <1>3 DEF AllConform
<1>5. RunInv'
  BY <1>1, <1>2, <1>3, <1>4 DEF RunInv, IsList
<1>6. QED
  BY <1>1, <1>5 DEF EvalInv

LEMMA EvalInit == Init => EvalInv
BY DEF Init, EvalInv, Running

LEMMA EvalNext == ComparableDatasets /\ EvalInv /\ [Next]_vars => EvalInv'
<1> SUFFICES ASSUME ComparableDatasets, EvalInv, [Next]_vars PROVE EvalInv'
  OBVIOUS
<1>1. CASE UNCHANGED <<pc, run, results, seen, failed, exit>>
  BY <1>1 DEF EvalInv, RunInv, AllConform, Conforms
<1>2. CASE \E r \in Runners, version \in Versions :
             \E lines \in Datasets[r] : Start(r, lines, version)
  BY <1>2, StartKeeps
<1>3. CASE NotPosted \/ Broken
  BY <1>3 DEF NotPosted, Broken, CanPost, Posting, Raise, loop, EvalInv, Running
<1>4. CASE Unauthorized
  BY <1>4, FailurePosted DEF Unauthorized, CanPost
<1>5. CASE Limited
  BY <1>5, FailurePosted DEF Limited, CanPost
<1>6. CASE Refused
  BY <1>6, FailurePosted DEF Refused, Admitted, CanPost
<1>7. CASE Judge
  BY <1>7, JudgePosted
<1>8. CASE OpenResults
  <2>1. /\ pc = "posting" /\ RunInv /\ Len(results) = Len(run.cases) /\ pc' = "writing"
        /\ UNCHANGED <<run, results, seen, failed, exit>>
    BY <1>8 DEF OpenResults, loop, EvalInv, Running
  <2>2. AllConform' <=> AllConform
    BY <2>1 DEF AllConform, Conforms
  <2>3. Len(seen) = Len(run.cases)
    BY <2>1 DEF RunInv
  <2>4. RunInv'
    BY <2>1, <2>2, <2>3 DEF RunInv
  <2>5. QED
    BY <2>1, <2>4 DEF EvalInv
<1>9. CASE Exit
  <2>1. /\ pc = "writing" /\ RunInv /\ pc' = "exited"
        /\ UNCHANGED <<run, results, seen, failed>>
        /\ exit' = (IF failed = 0 THEN 0 ELSE 1)
    BY <1>9 DEF Exit, EvalInv, Running
  <2>2. AllConform' <=> AllConform
    BY <2>1 DEF AllConform, Conforms
  <2>3. Len(seen) = Len(run.cases)
    BY <2>1 DEF RunInv
  <2>4. RunInv'
    BY <2>1, <2>2, <2>3 DEF RunInv
  <2>5. QED
    BY <2>1, <2>4 DEF EvalInv
<1>10. CASE Kill
  BY <1>10 DEF Kill, Ended, loop, EvalInv, Running
<1>11. QED
  BY <1>1, <1>2, <1>3, <1>4, <1>5, <1>6, <1>7, <1>8, <1>9, <1>10
     DEF Next, MakeReport, vars, loop

\* For any datasets whose cases state only values that their runner compares, a
\* runner exits 0 exactly when it has posted every case and every answer
\* conforms, whatever the application, the keys, the limiter's clock and the
\* kills do (run_*_eval.py, the loop and the exit code).
THEOREM GreenMeansGreen == ComparableDatasets => (Spec => []GreenMeansConforming)
<1>1. EvalInv => GreenMeansConforming
  <2> SUFFICES ASSUME EvalInv PROVE GreenMeansConforming
    OBVIOUS
  <2>1. CASE exit = None
    BY <2>1 DEF GreenMeansConforming
  <2>2. CASE exit # None
    <3>1. pc = "exited" /\ RunInv /\ (exit = 0 <=> AllConform)
      BY <2>2 DEF EvalInv, Running, RunInv
    <3>2. Len(seen) = Len(run.cases) /\ DOMAIN seen = DOMAIN run.cases
      BY <3>1 DEF RunInv, IsList
    <3>3. QED
      BY <3>1, <3>2 DEF GreenMeansConforming, AllConform
  <2>3. QED
    BY <2>1, <2>2
<1>2. ASSUME ComparableDatasets PROVE Spec => []GreenMeansConforming
  <2>1. EvalInv /\ [Next]_vars => EvalInv'
    BY <1>2, EvalNext
  <2>2. QED
    BY <1>1, <2>1, EvalInit, PTL DEF Spec
<1>3. QED
  BY <1>2
-----------------------------------------------------------------------------
(***************************************************************************)
(* Runs that can be repeated: a verdict depends on the key, the case and   *)
(* the version, and on the clock only when the limiter turns a case away.  *)
(***************************************************************************)

\* The verdict on case i of the run a, if the limiter lets it through.
VerdictOn(key, a, i) ==
    LET case == a.cases[i]
        body == [status |-> 200, size |-> a.version.size,
                 fields |-> Served(a.version, Body(a.runner, case.input))]
    IN  IF key # RunnerKey \/ StatusOf(a.runner, case.input) # 200
        THEN [case_id |-> i, status |-> "fail", assertions |-> <<>>]
        ELSE [case_id |-> i,
              status  |-> IF Passes(a.runner, case.expected, body) THEN "pass" ELSE "fail",
              assertions |-> Assertions(a.runner, case.expected, body)]

Determined(list, a) ==
    Len(a.cases) <= RPM => \A i \in DOMAIN list : list[i] = VerdictOn(env, a, i)

LoopInv ==
    /\ run.runner \in Runners
    /\ IsList(run.cases)
    /\ \E Verdicts : results \in Seq(Verdicts)
    /\ Len(results) <= Len(run.cases)
    /\ pc \in {"writing", "exited"} => Len(results) = Len(run.cases)
    /\ slots \in Nat /\ slots <= Len(results)
    /\ Determined(results, run)

RepeatInv ==
    /\ pc \in Running => LoopInv
    /\ DOMAIN finished = Runners
    /\ \A r \in Runners : finished[r] # None /\ Len(finished[r].run.cases) <= RPM =>
           finished[r].results = [i \in DOMAIN finished[r].run.cases |->
                                    VerdictOn(env, finished[r].run, i)]

\* One more verdict: the one on the next case, unless the limiter is full.
LEMMA VerdictKeeps ==
    ASSUME RepeatInv, Posting, NEW verdict, results' = Append(results, verdict),
           slots' \in Nat, slots' <= slots + 1, UNCHANGED <<env, pc, run, finished>>,
           Len(run.cases) <= RPM => verdict = VerdictOn(env, run, Len(results) + 1)
    PROVE  RepeatInv'
<1>1. pc = "posting" /\ LoopInv /\ Len(results) < Len(run.cases)
  BY DEF RepeatInv, Posting, Running
<1>2. PICK Verdicts : results \in Seq(Verdicts)
  BY <1>1 DEF LoopInv
<1>3. results \in Seq(Verdicts \cup {verdict})
  BY <1>2
<1>4. /\ results' \in Seq(Verdicts \cup {verdict}) /\ Len(results') = Len(results) + 1
      /\ DOMAIN results' = DOMAIN results \cup {Len(results) + 1}
      /\ \A i \in DOMAIN results : results'[i] = results[i]
      /\ results'[Len(results) + 1] = verdict
  BY <1>3
<1>5. Len(results) \in Nat /\ Len(run.cases) \in Nat
  BY <1>1, <1>2 DEF LoopInv, IsList
<1>6. Determined(results, run)'
  BY <1>1, <1>4 DEF LoopInv, Determined
<1>7. slots' <= Len(results')
  BY <1>1, <1>4, <1>5 DEF LoopInv
<1>8. LoopInv'
  BY <1>1, <1>4, <1>5, <1>6, <1>7 DEF LoopInv
<1>9. QED
  BY <1>1, <1>8 DEF RepeatInv, Running

LEMMA FailureRepeats ==
    ASSUME RepeatInv, Posting, NEW status, HttpFailure(status),
           slots' \in Nat, slots' <= slots + 1,
           \/ Len(run.cases) > RPM
           \/ env # RunnerKey
           \/ StatusOf(run.runner, NextCase.input) # 200
    PROVE  RepeatInv'
<1>1. PICK verdict : verdict = Verdict("fail", <<>>)
  OBVIOUS
<1>2. results' = Append(results, verdict) /\ UNCHANGED <<env, pc, run, finished>>
  BY <1>1 DEF HttpFailure, disk
<1>3. Len(run.cases) <= RPM => verdict = VerdictOn(env, run, Len(results) + 1)
  <2>1. LoopInv
    BY DEF RepeatInv, Posting, Running
  <2>2. ~(Len(run.cases) <= RPM /\ Len(run.cases) > RPM)
    BY <2>1, EvalAssumption DEF LoopInv, IsList
  <2>3. QED
    BY <1>1, <2>2 DEF Verdict, VerdictOn, NextCase
<1>4. QED
  BY <1>2, <1>3, VerdictKeeps

LEMMA ResultsDetermined ==
    ASSUME LoopInv, pc = "writing", Len(run.cases) <= RPM
    PROVE  results = [i \in DOMAIN run.cases |-> VerdictOn(env, run, i)]
<1>1. PICK Verdicts : results \in Seq(Verdicts)
  BY DEF LoopInv
<1>2. PICK verdict : verdict = [i \in DOMAIN run.cases |-> VerdictOn(env, run, i)]
  OBVIOUS
<1>3. DOMAIN results = 1..Len(results) /\ results = [i \in 1..Len(results) |-> results[i]]
  BY <1>1
<1>4. DOMAIN run.cases = DOMAIN results
  BY <1>3 DEF LoopInv, IsList
<1>5. \A i \in DOMAIN results : results[i] = VerdictOn(env, run, i)
  BY DEF LoopInv, Determined
<1>6. verdict = [i \in 1..Len(results) |-> verdict[i]] /\ \A i \in DOMAIN results : verdict[i] = results[i]
  BY <1>2, <1>3, <1>4, <1>5
<1>7. verdict = results
  BY <1>3, <1>6
<1>8. QED
  BY <1>2, <1>7

LEMMA RepeatNext == RepeatInv /\ [Next]_vars => RepeatInv'
<1> SUFFICES ASSUME RepeatInv, [Next]_vars PROVE RepeatInv'
  OBVIOUS
<1>1. CASE UNCHANGED <<env, pc, run, results, slots, finished>>
  BY <1>1 DEF RepeatInv, LoopInv, Determined
<1>2. ASSUME NEW r \in Runners, NEW version \in Versions, NEW lines \in Datasets[r],
             Start(r, lines, version)
      PROVE  RepeatInv'
  <2>1. /\ run'.runner = r /\ run'.cases = Cases(lines) /\ results' = <<>> /\ slots' = 0
        /\ pc' \in {"posting", "raised"} /\ UNCHANGED <<env, finished>>
    BY <1>2 DEF Start, disk
  <2>2. IsList(Cases(lines))
    BY CasesAreList
  <2>3. results' \in Seq({}) /\ Len(results') = 0 /\ DOMAIN results' = {}
    BY <2>1
  <2>4. LoopInv'
    BY <2>1, <2>2, <2>3 DEF LoopInv, IsList, Determined
  <2>5. QED
    BY <2>1, <2>4 DEF RepeatInv
<1>3. CASE NotPosted \/ Broken \/ Kill
  <2>1. pc' \notin Running /\ UNCHANGED <<env, finished>>
    BY <1>3 DEF NotPosted, Broken, Raise, Kill, Running, disk
  <2>2. QED
    BY <2>1 DEF RepeatInv
<1>4. Posting => slots \in Nat /\ slots <= Len(results) /\ Len(results) \in Nat
                 /\ Len(results) < Len(run.cases) /\ Len(run.cases) \in Nat
  BY DEF RepeatInv, LoopInv, IsList, Posting, Running
<1>5. CASE Unauthorized
  BY <1>4, <1>5, FailureRepeats DEF Unauthorized, CanPost
<1>6. CASE Limited
  <2>1. Posting /\ HttpFailure(429)
    BY <1>6 DEF Limited, CanPost
  <2>2. PICK left \in 0..slots : slots - left >= RPM /\ slots' = slots - left
    BY <1>6 DEF Limited
  <2>3. slots' \in Nat /\ slots' <= slots + 1 /\ Len(run.cases) > RPM
    BY <1>4, <2>1, <2>2, EvalAssumption
  <2>4. QED
    BY <2>1, <2>3, FailureRepeats
<1>7. Admitted => slots' \in Nat /\ slots' <= slots + 1
  <2> SUFFICES ASSUME Admitted PROVE slots' \in Nat /\ slots' <= slots + 1
    OBVIOUS
  <2>1. PICK left \in 0..slots : slots' = slots - left + 1
    BY DEF Admitted
  <2>2. QED
    BY <1>4, <2>1 DEF Admitted, CanPost
<1>8. CASE Refused
  <2>1. /\ Posting /\ HttpFailure(StatusOf(run.runner, NextCase.input))
        /\ StatusOf(run.runner, NextCase.input) # 200
    BY <1>8 DEF Refused, Admitted, CanPost
  <2>2. slots' \in Nat /\ slots' <= slots + 1
    BY <1>7, <1>8 DEF Refused
  <2>3. QED
    BY <2>1, <2>2, FailureRepeats
<1>9. CASE Judge
  <2>1. /\ Posting /\ Admitted /\ env = RunnerKey
        /\ StatusOf(run.runner, NextCase.input) = 200
        /\ UNCHANGED <<env, pc, run, finished>>
    BY <1>9 DEF Judge, Admitted, CanPost, disk
  <2>2. PICK verdict :
          verdict = Verdict(IF Passes(run.runner, NextCase.expected, Body200)
                            THEN "pass" ELSE "fail",
                            Assertions(run.runner, NextCase.expected, Body200))
    OBVIOUS
  <2>3. results' = Append(results, verdict)
    BY <1>9, <2>2 DEF Judge, Passes
  <2>4. verdict = VerdictOn(env, run, Len(results) + 1)
    BY <2>1, <2>2 DEF Verdict, VerdictOn, NextCase, Body200
  <2>5. QED
    BY <1>7, <2>1, <2>3, <2>4, VerdictKeeps
<1>10. CASE OpenResults
  <2>1. /\ pc = "posting" /\ LoopInv /\ Len(results) = Len(run.cases) /\ pc' = "writing"
        /\ UNCHANGED <<env, run, results, slots, finished>>
    BY <1>10 DEF OpenResults, loop, RepeatInv, Running
  <2>2. LoopInv'
    BY <2>1 DEF LoopInv, Determined
  <2>3. QED
    BY <2>1, <2>2 DEF RepeatInv
<1>11. CASE Exit
  <2>1. /\ pc = "writing" /\ LoopInv /\ pc' = "exited"
        /\ UNCHANGED <<env, run, results, slots>>
        /\ finished' = [finished EXCEPT ![run.runner] = [run |-> run, seen |-> seen,
                                                         results |-> results]]
    BY <1>11 DEF Exit, RepeatInv, Running
  <2>2. LoopInv'
    BY <2>1 DEF LoopInv, Determined
  <2>3. Len(run.cases) <= RPM =>
          results = [i \in DOMAIN run.cases |-> VerdictOn(env, run, i)]
    BY <2>1, ResultsDetermined
  <2>4. /\ DOMAIN finished' = Runners
        /\ finished'[run.runner] = [run |-> run, seen |-> seen, results |-> results]
        /\ \A r \in Runners \ {run.runner} : finished'[r] = finished[r]
    BY <2>1 DEF RepeatInv, LoopInv
  <2>5. ASSUME NEW r \in Runners, finished'[r] # None, Len(finished'[r].run.cases) <= RPM
        PROVE  finished'[r].results = [i \in DOMAIN finished'[r].run.cases |->
                                         VerdictOn(env, finished'[r].run, i)]
    <3>1. CASE r = run.runner
      BY <2>3, <2>4, <2>5, <3>1
    <3>2. CASE r # run.runner
      BY <2>4, <2>5, <3>2 DEF RepeatInv
    <3>3. QED
      BY <3>1, <3>2
  <2>6. QED
    BY <2>1, <2>2, <2>4, <2>5 DEF RepeatInv
<1>12. QED
  BY <1>1, <1>2, <1>3, <1>5, <1>6, <1>8, <1>9, <1>10, <1>11
     DEF Next, MakeReport, vars, loop, disk

LEMMA RepeatInit == Init => RepeatInv
BY DEF Init, RepeatInv, Running

\* The same cases against the same version: a complete run has the results of
\* the complete run before it, provided the limiter lets a whole run through.
THEOREM RunsRepeat == Spec => Reproducible
<1>1. ASSUME RepeatInv, [Next]_vars, NEW r \in Runners, finished[r] # None,
             Len(finished'[r].run.cases) <= RPM, finished'[r].run = finished[r].run
      PROVE  finished'[r].results = finished[r].results
  <2>1. CASE finished' = finished
    BY <2>1
  <2>2. CASE Exit /\ r = run.runner
    <3>1. pc = "writing" /\ LoopInv
      BY <1>1, <2>2 DEF Exit, RepeatInv, Running
    <3>2. finished'[r] = [run |-> run, seen |-> seen, results |-> results]
      BY <1>1, <2>2 DEF Exit, RepeatInv
    <3>3. run = finished[r].run /\ Len(run.cases) <= RPM
      BY <1>1, <3>2
    <3>4. results = [i \in DOMAIN run.cases |-> VerdictOn(env, run, i)]
      BY <3>1, <3>3, ResultsDetermined
    <3>5. finished[r].results = [i \in DOMAIN finished[r].run.cases |->
                                   VerdictOn(env, finished[r].run, i)]
      BY <1>1, <3>3 DEF RepeatInv
    <3>6. QED
      BY <3>2, <3>3, <3>4, <3>5
  <2>3. CASE Exit /\ r # run.runner
    BY <2>3 DEF Exit, RepeatInv
  <2>4. finished' = finished \/ Exit
    BY <1>1 DEF Next, Start, NotPosted, Broken, Raise, Unauthorized, Limited, Refused,
                HttpFailure, Judge, OpenResults, Kill, MakeReport, vars, disk
  <2>5. QED
    BY <2>1, <2>2, <2>3, <2>4
<1>2. RepeatInv /\ [Next]_vars =>
        [\A r \in Runners :
           /\ finished[r] # None /\ Len(finished'[r].run.cases) <= RPM
           /\ finished'[r].run = finished[r].run
           => finished'[r].results = finished[r].results]_vars
  BY <1>1
<1>3. RepeatInv /\ [Next]_vars => RepeatInv'
  BY RepeatNext
<1>4. QED
  BY <1>2, <1>3, RepeatInit, PTL DEF Spec, Reproducible
-----------------------------------------------------------------------------
(***************************************************************************)
(* The report: what the files hold, and whose verdicts they are.           *)
(***************************************************************************)

\* None stands for a file that is not there, Torn for text that is no JSON:
\* neither is what a runner writes.
Markers ==
    /\ None # Torn
    /\ \A total, ok, bad, list : [total_cases |-> total, passed |-> ok, failed |-> bad,
                                  results |-> list] \notin {None, Torn}
    /\ \A a, answers, list : [run |-> a, seen |-> answers, results |-> list] # None

Bad == {i \in DOMAIN seen : ~Conforms(run.runner, run.cases[i], seen[i])}

\* The verdicts name their cases and fail exactly the answers in wrong.
Names(list, wrong) ==
    \A i \in DOMAIN list : list[i].case_id = i /\ (list[i].status = "fail" <=> i \in wrong)

Tally ==
    /\ failed = Cardinality(Bad)
    /\ passed \in Int /\ passed + failed = Len(seen)
    /\ Names(results, Bad)

\* What the result file of a complete run says.
Written(r) ==
    LET last == finished[r] IN
    /\ files[r] = [total_cases |-> Len(last.run.cases),
                   passed  |-> Len(last.run.cases) - Cardinality(Failing(r)),
                   failed  |-> Cardinality(Failing(r)),
                   results |-> last.results]
    /\ DOMAIN last.results = DOMAIN last.seen
    /\ Names(last.results, Failing(r))

FilesInv ==
    /\ kills \in Nat
    /\ DOMAIN files = Runners /\ DOMAIN finished = Runners
    /\ \A r \in Runners :
         \/ files[r] = Torn /\ (kills > 0 \/ (pc = "writing" /\ run.runner = r))
         \/ files[r] = None /\ finished[r] = None
         \/ files[r] \notin {None, Torn} /\ finished[r] # None /\ Written(r)

SummaryInv ==
    /\ EvalInv
    /\ pc \in Running => Tally
    /\ FilesInv
    /\ report # None => Ended
    /\ SummariesTrue

\* One more verdict, which fails the case exactly if its answer does not
\* conform: the counts follow.
LEMMA TallyKeeps ==
    ASSUME EvalInv, Tally, Posting, NEW answer, NEW verdict,
           seen' = Append(seen, answer), results' = Append(results, verdict),
           verdict.case_id = Len(results) + 1,
           verdict.status = "fail" <=> ~Conforms(run.runner, NextCase, answer),
           \/ /\ Conforms(run.runner, NextCase, answer)
              /\ passed' = passed + 1 /\ failed' = failed
           \/ /\ ~Conforms(run.runner, NextCase, answer)
              /\ passed' = passed /\ failed' = failed + 1,
           UNCHANGED run
    PROVE  Tally'
<1>1. RunInv
  BY DEF EvalInv, Posting, Running
<1>2. PICK Answers : seen \in Seq(Answers)
  BY <1>1 DEF RunInv
<1>3. PICK Verdicts : results \in Seq(Verdicts)
  BY <1>1 DEF RunInv
<1>4. PICK n : n = Len(seen)
  OBVIOUS
<1>5. n \in Nat /\ n = Len(results) /\ DOMAIN seen = 1..n /\ DOMAIN results = 1..n
  BY <1>1, <1>2, <1>3, <1>4 DEF RunInv
<1>6. /\ seen \in Seq(Answers \cup {answer}) /\ results \in Seq(Verdicts \cup {verdict})
  BY <1>2, <1>3
<1>7. /\ DOMAIN seen' = DOMAIN seen \cup {n + 1} /\ Len(seen') = n + 1
      /\ \A i \in DOMAIN seen : seen'[i] = seen[i]
      /\ seen'[n + 1] = answer
  BY <1>4, <1>5, <1>6
<1>8. /\ DOMAIN results' = DOMAIN results \cup {n + 1}
      /\ \A i \in DOMAIN results : results'[i] = results[i]
      /\ results'[n + 1] = verdict
  BY <1>5, <1>6
<1>9. NextCase = run.cases[n + 1]
  BY <1>5 DEF NextCase
<1>10. PICK A, B : A = Bad /\ B = Bad'
  OBVIOUS
<1>11. B = {i \in DOMAIN seen' : ~Conforms(run.runner, run.cases[i], seen'[i])}
  BY <1>10 DEF Bad, Conforms
<1>12. B = A \cup IF Conforms(run.runner, NextCase, answer) THEN {} ELSE {n + 1}
  BY <1>7, <1>9, <1>10, <1>11 DEF Bad
<1>13. A \subseteq 1..n /\ n + 1 \notin A
  BY <1>5, <1>10 DEF Bad
<1>14. IsFiniteSet(A) /\ Cardinality(A) \in Nat
  <2>1. 1 \in Int /\ n \in Int
    BY <1>5
  <2>2. IsFiniteSet(1..n)
    BY <2>1, FS_Interval
  <2>3. IsFiniteSet(A)
    BY <1>13, <2>2, FS_Subset
  <2>4. QED
    BY <2>3, FS_CardinalityType
<1>15. Names(results', B)
  BY <1>5, <1>8, <1>10, <1>12, <1>13 DEF Tally, Names
<1>16. failed' = Cardinality(B) /\ passed' \in Int /\ passed' + failed' = n + 1
  <2>1. failed = Cardinality(A) /\ passed \in Int /\ passed + failed = n
    BY <1>4, <1>10 DEF Tally
  <2>2. CASE Conforms(run.runner, NextCase, answer)
    <3>1. B = A /\ passed' = passed + 1 /\ failed' = failed
      BY <1>12, <2>2
    <3>2. failed' = Cardinality(B) /\ failed \in Int /\ passed \in Int
      BY <1>14, <2>1, <3>1
    <3>3. passed' \in Int /\ passed' + failed' = n + 1
      <4>1. passed + failed = n
        BY <2>1
      <4>2. QED
        BY <3>1, <3>2, <4>1
    <3>4. QED
      BY <3>2, <3>3
  <2>3. CASE ~Conforms(run.runner, NextCase, answer)
    <3>1. B = A \cup {n + 1} /\ passed' = passed /\ failed' = failed + 1
      BY <1>12, <2>3
    <3>2. Cardinality(A \cup {n + 1}) = Cardinality(A) + 1
      BY <1>13, <1>14, FS_AddElement
    <3>3. QED
      BY <1>5, <1>14, <2>1, <3>1, <3>2
  <2>4. QED
    BY <2>2, <2>3
<1>17. QED
  BY <1>7, <1>10, <1>15, <1>16 DEF Tally, Names

\* The file of a complete run, and what the report makes of it.
LEMMA PayloadTrue ==
    ASSUME Markers, SummaryInv, Exit
    PROVE  FilesInv'
<1>1. /\ pc = "writing" /\ RunInv /\ Tally /\ FilesInv
  BY DEF Exit, SummaryInv, EvalInv, Running
<1>2. PICK r : r = run.runner /\ r \in Runners
  BY <1>1 DEF RunInv
<1>3. /\ files' = [files EXCEPT ![r] = Payload]
      /\ finished' = [finished EXCEPT ![r] = [run |-> run, seen |-> seen,
                                              results |-> results]]
      /\ UNCHANGED <<kills, run, seen, results>> /\ pc' = "exited"
  BY <1>2 DEF Exit, counts
<1>4. /\ DOMAIN files' = Runners /\ DOMAIN finished' = Runners
      /\ files'[r] = Payload
      /\ finished'[r] = [run |-> run, seen |-> seen, results |-> results]
      /\ \A s \in Runners \ {r} : files'[s] = files[s] /\ finished'[s] = finished[s]
  BY <1>1, <1>2, <1>3 DEF FilesInv
<1>5. files'[r] \notin {None, Torn} /\ finished'[r] # None
  BY <1>4 DEF Markers, Payload
<1>6. Failing(r)' = Bad
  <2>1. Failing(r)' = {i \in DOMAIN finished'[r].seen :
                        ~Conforms(r, finished'[r].run.cases[i], finished'[r].seen[i])}
    BY DEF Failing, Conforms
  <2>2. finished'[r].seen = seen /\ finished'[r].run = run
    BY <1>4
  <2>3. QED
    BY <1>2, <2>1, <2>2 DEF Bad
<1>7. /\ Len(seen) = Len(run.cases) /\ Len(run.cases) \in Nat
      /\ DOMAIN results = DOMAIN seen
  <2>1. PICK Answers : seen \in Seq(Answers)
    BY <1>1 DEF RunInv
  <2>2. PICK Verdicts : results \in Seq(Verdicts)
    BY <1>1 DEF RunInv
  <2>3. QED
    BY <1>1, <2>1, <2>2 DEF RunInv, IsList
<1>8. failed = Cardinality(Bad) /\ passed = Len(run.cases) - Cardinality(Bad)
  <2>1. failed \in Nat
    BY <1>1 DEF RunInv
  <2>2. QED
    BY <1>1, <1>7, <2>1 DEF Tally
<1>9. Written(r)'
  <2>1. /\ finished'[r].seen = seen /\ finished'[r].run = run
        /\ finished'[r].results = results
    BY <1>4
  <2>2. files'[r] = [total_cases |-> Len(run.cases),
                     passed  |-> Len(run.cases) - Cardinality(Bad),
                     failed  |-> Cardinality(Bad), results |-> results]
    BY <1>4, <1>8 DEF Payload
  <2>3. Names(results, Bad)
    BY <1>1 DEF Tally
  <2>4. QED
    BY <1>6, <1>7, <2>1, <2>2, <2>3 DEF Written, Names
<1>10. ASSUME NEW s \in Runners \ {r}
       PROVE  \/ files'[s] = Torn /\ kills' > 0
              \/ files'[s] = None /\ finished'[s] = None
              \/ files'[s] \notin {None, Torn} /\ finished'[s] # None /\ Written(s)'
  <2>1. files'[s] = files[s] /\ finished'[s] = finished[s]
    BY <1>4
  <2>2. Written(s)' <=> Written(s)
    BY <2>1 DEF Written, Failing, Names, Conforms
  <2>3. kills' = kills /\ run.runner # s
    BY <1>2, <1>3
  <2>4. QED
    BY <1>1, <2>1, <2>2, <2>3 DEF FilesInv
<1>11. QED
  BY <1>1, <1>3, <1>4, <1>5, <1>9, <1>10 DEF FilesInv

\* The line of a runner is read off its file.
LEMMA LineTrue ==
    ASSUME FilesInv, NEW r \in Runners, files[r] # Torn
    PROVE  SummaryLine(files[r]) =
             IF finished[r] = None THEN None
             ELSE [total_cases |-> Len(finished[r].run.cases),
                   passed      |-> Len(finished[r].run.cases) - Cardinality(Failing(r)),
                   failed      |-> Cardinality(Failing(r)),
                   failing     |-> Failing(r)]
<1>1. CASE files[r] = None
  BY <1>1 DEF FilesInv, SummaryLine
<1>2. CASE files[r] # None
  <2>1. finished[r] # None /\ Written(r)
    BY <1>2 DEF FilesInv
  <2>2. PICK list : list = finished[r].results
    OBVIOUS
  <2>3. DOMAIN list = DOMAIN finished[r].seen /\ Names(list, Failing(r))
    BY <2>1, <2>2 DEF Written
  <2>4. {list[i].case_id : i \in {j \in DOMAIN list : list[j].status = "fail"}} = Failing(r)
    BY <2>3 DEF Names, Failing
  <2>5. /\ files[r].total_cases = Len(finished[r].run.cases)
        /\ files[r].passed = Len(finished[r].run.cases) - Cardinality(Failing(r))
        /\ files[r].failed = Cardinality(Failing(r))
        /\ files[r].results = list
    BY <2>1, <2>2 DEF Written
  <2>6. SummaryLine(files[r]) =
          [total_cases |-> files[r].total_cases, passed |-> files[r].passed,
           failed |-> files[r].failed,
           failing |-> {list[i].case_id : i \in {j \in DOMAIN list : list[j].status = "fail"}}]
    BY <1>2, <2>5 DEF SummaryLine
  <2>7. QED
    BY <2>1, <2>4, <2>5, <2>6
<1>3. QED
  BY <1>1, <1>2

\* A step that leaves files and report alone, and does not stop a writer.
LEMMA FilesStay ==
    ASSUME FilesInv, UNCHANGED <<files, finished, kills>>, pc # "writing"
    PROVE  FilesInv'
<1>1. ASSUME NEW r \in Runners PROVE Written(r)' <=> Written(r)
  BY DEF Written, Failing, Names, Conforms
<1>2. QED
  BY <1>1 DEF FilesInv

LEMMA SummaryStays ==
    ASSUME SummariesTrue, UNCHANGED <<report, kills, finished>>
    PROVE  SummariesTrue'
<1>1. \A r \in Runners : Failing(r)' = Failing(r)
  BY DEF Failing, Conforms
<1>2. QED
  BY <1>1 DEF SummariesTrue

LEMMA PostedTally ==
    ASSUME SummaryInv, NEW status, status # 200, Posting, HttpFailure(status)
    PROVE  Tally'
<1>1. PICK answer, verdict : answer = [status |-> status] /\ verdict = Verdict("fail", <<>>)
  OBVIOUS
<1>2. EvalInv /\ Tally
  BY DEF SummaryInv, Posting, Running
<1>3. ~Conforms(run.runner, NextCase, answer)
  BY <1>1 DEF Conforms
<1>4. /\ seen' = Append(seen, answer) /\ results' = Append(results, verdict)
      /\ passed' = passed /\ failed' = failed + 1 /\ UNCHANGED run
      /\ verdict.case_id = Len(results) + 1 /\ verdict.status = "fail"
  BY <1>1 DEF HttpFailure, Verdict
<1>5. QED
  BY <1>2, <1>3, <1>4, TallyKeeps

LEMMA JudgedTally ==
    ASSUME SummaryInv, ComparableDatasets, Judge
    PROVE  Tally'
<1>1. Posting /\ CanPost /\ ~Breaks
  BY DEF Judge, Admitted, CanPost
<1>2. EvalInv /\ Tally
  BY <1>1 DEF SummaryInv, Posting, Running
<1>3. Passes(run.runner, NextCase.expected, Body200)
         <=> Conforms(run.runner, NextCase, Body200)
  BY <1>1, <1>2, JudgedRightly
<1>4. PICK verdict :
        verdict = Verdict(IF Passes(run.runner, NextCase.expected, Body200)
                          THEN "pass" ELSE "fail",
                          Assertions(run.runner, NextCase.expected, Body200))
  OBVIOUS
<1>5. /\ seen' = Append(seen, Body200) /\ results' = Append(results, verdict)
      /\ UNCHANGED run
      /\ passed' = (IF Passes(run.runner, NextCase.expected, Body200)
                    THEN passed + 1 ELSE passed)
      /\ failed' = (IF Passes(run.runner, NextCase.expected, Body200)
                    THEN failed ELSE failed + 1)
  BY <1>4 DEF Judge, Passes
<1>6. /\ verdict.case_id = Len(results) + 1
      /\ verdict.status = "fail" <=> ~Conforms(run.runner, NextCase, Body200)
  BY <1>3, <1>4 DEF Verdict
<1>7. \/ /\ Conforms(run.runner, NextCase, Body200)
         /\ passed' = passed + 1 /\ failed' = failed
      \/ /\ ~Conforms(run.runner, NextCase, Body200)
         /\ passed' = passed /\ failed' = failed + 1
  BY <1>3, <1>5
<1>8. PICK answer : answer = Body200
  OBVIOUS
<1>9. /\ seen' = Append(seen, answer)
      /\ verdict.status = "fail" <=> ~Conforms(run.runner, NextCase, answer)
      /\ \/ /\ Conforms(run.runner, NextCase, answer)
            /\ passed' = passed + 1 /\ failed' = failed
         \/ /\ ~Conforms(run.runner, NextCase, answer)
            /\ passed' = passed /\ failed' = failed + 1
  BY <1>5, <1>6, <1>7, <1>8
<1>10. QED
  BY <1>1, <1>2, <1>5, <1>6, <1>9, TallyKeeps

\* What the steps of a runner have in common: the report is not made yet.
LEMMA RunnerSteps ==
    ASSUME SummaryInv, ~Ended, UNCHANGED <<report>>
    PROVE  report' = None /\ SummariesTrue'
BY DEF SummaryInv, SummariesTrue

LEMMA TallyStays ==
    ASSUME UNCHANGED <<run, results, passed, failed, seen>>
    PROVE  Tally' <=> Tally
<1>1. Bad' = Bad
  BY DEF Bad, Conforms
<1>2. PICK B : B = Bad /\ B = Bad'
  BY <1>1
<1>3. Names(results, B)' <=> Names(results, B)
  BY <1>2 DEF Names
<1>4. QED
  BY <1>2, <1>3 DEF Tally, Names

LEMMA SummaryNext ==
    Markers /\ ComparableDatasets /\ SummaryInv /\ [Next]_vars => SummaryInv'
<1> SUFFICES ASSUME Markers, ComparableDatasets, SummaryInv, [Next]_vars PROVE SummaryInv'
  OBVIOUS
<1>1. EvalInv'
  BY EvalNext DEF SummaryInv
<1>2. CASE UNCHANGED vars
  <2>1. Tally' <=> Tally
    BY <1>2, TallyStays DEF vars, loop
  <2>2. FilesInv'
    <3>1. ASSUME NEW r \in Runners PROVE Written(r)' <=> Written(r)
      BY <1>2 DEF vars, disk, Written, Failing, Names, Conforms
    <3>2. QED
      BY <1>2, <3>1 DEF SummaryInv, vars, loop, disk, counts, FilesInv
  <2>3. SummariesTrue'
    BY <1>2, SummaryStays DEF SummaryInv, vars, disk, counts
  <2>4. QED
    BY <1>1, <1>2, <2>1, <2>2, <2>3 DEF SummaryInv, vars, Ended
<1>3. ASSUME NEW r \in Runners, NEW version \in Versions, NEW lines \in Datasets[r],
             Start(r, lines, version)
      PROVE  SummaryInv'
  <2>1. /\ report' = None /\ UNCHANGED <<files, finished, kills>> /\ pc # "writing"
        /\ results' = <<>> /\ seen' = <<>> /\ passed' = 0 /\ failed' = 0
    BY <1>3 DEF Start, Ended, disk
  <2>2. FilesInv'
    BY <2>1, FilesStay DEF SummaryInv
  <2>3. Tally'
    <3>1. DOMAIN seen' = {} /\ DOMAIN results' = {} /\ Len(seen') = 0
      BY <2>1
    <3>2. Bad' = {}
      BY <3>1 DEF Bad
    <3>3. Cardinality(Bad') = 0
      BY <3>2, FS_EmptySet
    <3>4. QED
      BY <2>1, <3>1, <3>3 DEF Tally, Names
  <2>4. QED
    BY <1>1, <2>1, <2>2, <2>3 DEF SummaryInv, SummariesTrue
<1>4. CASE NotPosted \/ Broken
  <2>1. pc = "posting" /\ pc' = "raised" /\ UNCHANGED <<files, finished, kills, report>>
    BY <1>4 DEF NotPosted, Broken, CanPost, Posting, Raise, disk, counts
  <2>2. FilesInv'
    BY <2>1, FilesStay DEF SummaryInv
  <2>3. report' = None /\ SummariesTrue'
    BY <2>1, RunnerSteps DEF Ended
  <2>4. QED
    BY <1>1, <2>1, <2>2, <2>3 DEF SummaryInv, Running
<1>5. ASSUME pc = "posting", UNCHANGED <<pc, files, finished, kills, report>>, Tally'
      PROVE  SummaryInv'
  <2>1. FilesInv'
    BY <1>5, FilesStay DEF SummaryInv
  <2>2. report' = None /\ SummariesTrue'
    BY <1>5, RunnerSteps DEF Ended
  <2>3. QED
    BY <1>1, <1>5, <2>1, <2>2 DEF SummaryInv
<1>6. ASSUME NEW status, status # 200, Posting, HttpFailure(status)
      PROVE  SummaryInv'
  <2>1. pc = "posting" /\ UNCHANGED <<pc, files, finished, kills, report>>
    BY <1>6 DEF Posting, HttpFailure, disk, counts
  <2>2. Tally'
    BY <1>6, PostedTally
  <2>3. QED
    BY <1>5, <2>1, <2>2
<1>7. CASE Unauthorized
  BY <1>6, <1>7 DEF Unauthorized, CanPost
<1>8. CASE Limited
  BY <1>6, <1>8 DEF Limited, CanPost
<1>9. CASE Refused
  BY <1>6, <1>9 DEF Refused, Admitted, CanPost
<1>10. CASE Judge
  <2>1. pc = "posting" /\ UNCHANGED <<pc, files, finished, kills, report>>
    BY <1>10 DEF Judge, Admitted, CanPost, Posting, disk, counts
  <2>2. Tally'
    BY <1>10, JudgedTally
  <2>3. QED
    BY <1>5, <2>1, <2>2
<1>11. CASE OpenResults
  <2>1. /\ pc = "posting" /\ pc' = "writing" /\ RunInv /\ Tally /\ FilesInv
        /\ files' = [files EXCEPT ![run.runner] = Torn]
        /\ UNCHANGED <<run, results, passed, failed, seen, finished, kills, report>>
    BY <1>11 DEF OpenResults, SummaryInv, EvalInv, Running, loop, counts
  <2>2. PICK r : r = run.runner /\ r \in Runners
    BY <2>1 DEF RunInv
  <2>3. /\ DOMAIN files' = Runners /\ files'[r] = Torn
        /\ \A s \in Runners \ {r} : files'[s] = files[s]
    BY <2>1, <2>2 DEF FilesInv
  <2>4. ASSUME NEW s \in Runners \ {r} PROVE Written(s)' <=> Written(s)
    <3>1. files'[s] = files[s] /\ finished' = finished
      BY <2>1, <2>3
    <3>2. QED
      BY <3>1 DEF Written, Failing, Names, Conforms
  <2>5. FilesInv'
    BY <2>1, <2>2, <2>3, <2>4 DEF FilesInv
  <2>6. Tally'
    BY <2>1, TallyStays
  <2>7. report' = None /\ SummariesTrue'
    BY <2>1, RunnerSteps DEF Ended
  <2>8. QED
    BY <1>1, <2>5, <2>6, <2>7 DEF SummaryInv
<1>12. CASE Exit
  <2>1. /\ pc = "writing" /\ Tally
        /\ UNCHANGED <<run, results, passed, failed, seen, report>>
    BY <1>12 DEF Exit, SummaryInv, Running
  <2>2. Tally'
    BY <2>1, TallyStays
  <2>3. report' = None /\ SummariesTrue'
    BY <2>1, RunnerSteps DEF Ended
  <2>4. QED
    BY <1>1, <1>12, <2>2, <2>3, PayloadTrue DEF SummaryInv
<1>13. CASE Kill
  <2>1. /\ ~Ended /\ kills' = kills + 1 /\ pc' = "killed"
        /\ UNCHANGED <<files, finished, report>>
    BY <1>13 DEF Kill, disk
  <2>2. kills \in Nat /\ kills' \in Nat /\ kills' > 0
    BY <2>1 DEF SummaryInv, FilesInv
  <2>3. ASSUME NEW r \in Runners PROVE Written(r)' <=> Written(r)
    BY <2>1 DEF Written, Failing, Names, Conforms
  <2>4. FilesInv'
    BY <2>1, <2>2, <2>3 DEF SummaryInv, FilesInv
  <2>5. report' = None /\ SummariesTrue'
    BY <2>1, RunnerSteps
  <2>6. QED
    BY <1>1, <2>1, <2>4, <2>5 DEF SummaryInv, Running
<1>14. CASE MakeReport
  <2>1. /\ Ended /\ UNCHANGED <<pc, run, results, passed, failed, seen, files, finished, kills>>
        /\ report' = (IF \E r \in Runners : files[r] = Torn
                      THEN [raised |-> TRUE]
                      ELSE [raised |-> FALSE,
                            summary |-> [r \in Runners |-> SummaryLine(files[r])]])
    BY <1>14 DEF MakeReport, loop, disk, counts
  <2>2. FilesInv'
    BY <2>1, FilesStay DEF SummaryInv, Ended
  <2>3. pc' \in Running => Tally'
    <3>1. Tally' <=> Tally
      BY <2>1, TallyStays
    <3>2. QED
      BY <2>1, <3>1 DEF SummaryInv
  <2>4. SummariesTrue'
    <3>1. \A r \in Runners : Failing(r)' = Failing(r)
      BY <2>1 DEF Failing, Conforms
    <3>2. CASE \E r \in Runners : files[r] = Torn
      <4>1. kills' > 0
        <5>1. PICK r \in Runners : files[r] = Torn
          BY <3>2
        <5>2. FilesInv /\ pc # "writing" /\ kills' = kills
          BY <2>1 DEF SummaryInv, Ended
        <5>3. QED
          BY <5>1, <5>2 DEF FilesInv, Markers
      <4>2. report'.raised = TRUE
        BY <2>1, <3>2
      <4>3. QED
        BY <4>1, <4>2 DEF SummariesTrue
    <3>3. CASE \A r \in Runners : files[r] # Torn
      <4>1. report'.raised = FALSE
            /\ report'.summary = [r \in Runners |-> SummaryLine(files[r])]
        BY <2>1, <3>3
      <4>2. ASSUME NEW r \in Runners
            PROVE  report'.summary[r] =
                     IF finished[r] = None THEN None
                     ELSE [total_cases |-> Len(finished[r].run.cases),
                           passed |-> Len(finished[r].run.cases) - Cardinality(Failing(r)),
                           failed |-> Cardinality(Failing(r)),
                           failing |-> Failing(r)]
        BY <3>3, <4>1, LineTrue DEF SummaryInv
      <4>3. finished' = finished
        BY <2>1
      <4>4. QED
        BY <3>1, <4>1, <4>2, <4>3 DEF SummariesTrue
    <3>4. QED
      BY <3>2, <3>3
  <2>5. QED
    BY <1>1, <2>1, <2>2, <2>3, <2>4 DEF SummaryInv, Ended
<1>15. QED
  BY <1>2, <1>3, <1>4, <1>7, <1>8, <1>9, <1>10, <1>11, <1>12, <1>13, <1>14 DEF Next

LEMMA SummaryInit == Init => SummaryInv
<1>1. Init => FilesInv
  BY DEF Init, FilesInv
<1>2. QED
  BY <1>1, EvalInit DEF Init, SummaryInv, Running, SummariesTrue

\* The report names for every runner the cases that did not conform in its last
\* complete run, counts them, and is missing only after a kill.
THEOREM SummariesFollow == Markers /\ ComparableDatasets => (Spec => []SummariesTrue)
<1> SUFFICES ASSUME Markers, ComparableDatasets PROVE Spec => []SummariesTrue
  OBVIOUS
<1>1. SummaryInv /\ [Next]_vars => SummaryInv'
  BY SummaryNext
<1>2. SummaryInv => SummariesTrue
  BY DEF SummaryInv
<1>3. QED
  BY <1>1, <1>2, SummaryInit, PTL DEF Spec

-----------------------------------------------------------------------------
(***************************************************************************)
(* The figures of the report.                                              *)
(***************************************************************************)

\* A list of rows that passed normalize_telemetry_row.
Normalized(rows) ==
    /\ Len(rows) \in Nat /\ DOMAIN rows = 1..Len(rows)
    /\ rows = [i \in 1..Len(rows) |-> rows[i]]
    /\ \A i \in DOMAIN rows :
         /\ rows[i].latency_ms \in Nat /\ rows[i].estimated_cost_usd \in Nat
         /\ rows[i].route \in Range(Sorted)

Latencies(rows, S) == [i \in S |-> rows[i].latency_ms]
Costs(rows, S) == [i \in S |-> rows[i].estimated_cost_usd]

\* Percentile p of n values.
Point(values, n, p) ==
    LET index == p * (n - 1)
        lower == Nth(values, index \div 100 + 1)
        upper == Nth(values, (index + 99) \div 100 + 1)
    IN  IF n = 0 THEN 0 ELSE 100 * lower + (upper - lower) * (index % 100)

\* What aggregate_metrics computes, for the rows at some places of a list.
Figures(rows, S) ==
    LET n == Cardinality(S)
        cost == SumFunctionOnSet(Costs(rows, S), S)
        errors == Cardinality(Errors(rows) \cap S)
    IN [request_count |-> n,
        latency_p50_ms |-> Point(Latencies(rows, S), n, 50),
        latency_p95_ms |-> Point(Latencies(rows, S), n, 95),
        estimated_total_cost_usd |-> cost,
        estimated_average_cost_usd |-> Fraction(cost, n),
        error_rate |-> Fraction(errors, n),
        schema_valid_rate |-> Fraction(Cardinality(Valid(rows) \cap S), n),
        error_count |-> errors,
        unknown_error_count |-> Cardinality(Unknown(rows) \cap S)]

LEMMA FiguresOfList ==
    ASSUME NEW rows, Normalized(rows)
    PROVE  AggregateMetrics(rows) = Figures(rows, DOMAIN rows)
<1>1. PICK S, n : S = DOMAIN rows /\ n = Len(rows)
  OBVIOUS
<1>2. S = 1..n /\ n \in Nat
  BY <1>1 DEF Normalized
<1>3. Cardinality(S) = n
  <2>1. 1 \in Int /\ n \in Int
    BY <1>2
  <2>2. Cardinality(1..n) = IF 1 > n THEN 0 ELSE n - 1 + 1
    BY <2>1, FS_Interval
  <2>3. QED
    BY <1>2, <2>2
<1>4. PICK values : values = [i \in S |-> rows[i].latency_ms]
  OBVIOUS
<1>5. Len(values) = n /\ (values = <<>> <=> n = 0)
  <2>1. DOMAIN values = 1..n
    BY <1>2, <1>4
  <2>2. Len(values) = n
    BY <1>2, <1>4
  <2>3. values = <<>> => n = 0
    BY <1>2, <2>1
  <2>4. n = 0 => values = <<>>
    BY <1>2, <1>4
  <2>5. QED
    BY <2>2, <2>3, <2>4
<1>6. \A p : Percentile(values, p) = Point(values, n, p)
  BY <1>5 DEF Percentile, Point
<1>7. /\ Errors(rows) \cap S = Errors(rows)
      /\ Unknown(rows) \cap S = Unknown(rows)
      /\ Valid(rows) \cap S = Valid(rows)
  BY <1>1 DEF Errors, Unknown, Valid
<1>8. Total(rows, "estimated_cost_usd") = SumFunctionOnSet(Costs(rows, S), S)
  BY <1>1 DEF Total, Costs
<1>9. Latencies(rows, S) = values
  BY <1>4 DEF Latencies
<1>10. QED
  BY <1>1, <1>3, <1>4, <1>6, <1>7, <1>8, <1>9 DEF AggregateMetrics, Figures

\* A percentile depends on the values, not on where they stand.
LEMMA NthAlong ==
    ASSUME NEW S, IsFiniteSet(S), NEW T, NEW h, OneToOne(h, S, T),
           NEW f, NEW g, DOMAIN f = S, DOMAIN g = T, \A i \in S : f[i] = g[h[i]],
           NEW n
    PROVE  Nth(f, n) = Nth(g, n)
<1>1. Range(f) = Range(g)
  BY DEF Range, OneToOne
<1>2. ASSUME NEW v
      PROVE  /\ Cardinality({i \in S : f[i] < v}) = Cardinality({i \in T : g[i] < v})
             /\ Cardinality({i \in S : f[i] <= v}) = Cardinality({i \in T : g[i] <= v})
  <2>1. PICK A, B, C, D : /\ A = {i \in S : f[i] < v} /\ B = {i \in T : g[i] < v}
                          /\ C = {i \in S : f[i] <= v} /\ D = {i \in T : g[i] <= v}
    OBVIOUS
  <2>2. OneToOne(h, A, B) /\ OneToOne(h, C, D)
    BY <2>1 DEF OneToOne
  <2>3. IsFiniteSet(A) /\ IsFiniteSet(C)
    BY <2>1, FS_Subset
  <2>4. Cardinality(A) = Cardinality(B) /\ Cardinality(C) = Cardinality(D)
    BY <2>2, <2>3, SameSize
  <2>5. QED
    BY <2>1, <2>4
<1>3. QED
  BY <1>1, <1>2 DEF Nth

\* Nor does any other figure.
LEMMA FiguresAlong ==
    ASSUME NEW rows, NEW S, S \subseteq DOMAIN rows, IsFiniteSet(S),
           NEW others, NEW T, T \subseteq DOMAIN others,
           NEW h, OneToOne(h, S, T), \A i \in S : rows[i] = others[h[i]],
           \A i \in S : rows[i].estimated_cost_usd \in Int
    PROVE  Figures(rows, S) = Figures(others, T)
<1>1. Cardinality(S) = Cardinality(T)
  BY SameSize
<1>2. ASSUME NEW A, NEW B, A \subseteq S, OneToOne(h, A, B)
      PROVE  Cardinality(A) = Cardinality(B)
  BY <1>2, FS_Subset, SameSize
<1>3. /\ OneToOne(h, Errors(rows) \cap S, Errors(others) \cap T)
      /\ OneToOne(h, Unknown(rows) \cap S, Unknown(others) \cap T)
      /\ OneToOne(h, Valid(rows) \cap S, Valid(others) \cap T)
  <2>1. \A i \in S : /\ i \in Errors(rows) <=> h[i] \in Errors(others)
                     /\ i \in Unknown(rows) <=> h[i] \in Unknown(others)
                     /\ i \in Valid(rows) <=> h[i] \in Valid(others)
    BY DEF Errors, Unknown, Valid, OneToOne
  <2>2. QED
    BY <2>1 DEF OneToOne
<1>4. /\ Cardinality(Errors(rows) \cap S) = Cardinality(Errors(others) \cap T)
      /\ Cardinality(Unknown(rows) \cap S) = Cardinality(Unknown(others) \cap T)
      /\ Cardinality(Valid(rows) \cap S) = Cardinality(Valid(others) \cap T)
  BY <1>2, <1>3
<1>5. SumFunctionOnSet(Costs(rows, S), S) = SumFunctionOnSet(Costs(others, T), T)
  <2>1. PICK f, g : f = Costs(rows, S) /\ g = Costs(others, T)
    OBVIOUS
  <2>2. \A i \in S : f[i] \in Int /\ f[i] = g[h[i]]
    BY <2>1 DEF Costs, OneToOne
  <2>3. QED
    BY <2>1, <2>2, SumAlong
<1>6. \A n : Nth(Latencies(rows, S), n) = Nth(Latencies(others, T), n)
  <2>1. PICK f, g : f = Latencies(rows, S) /\ g = Latencies(others, T)
    OBVIOUS
  <2>2. DOMAIN f = S /\ DOMAIN g = T /\ \A i \in S : f[i] = g[h[i]]
    BY <2>1 DEF Latencies, OneToOne
  <2>3. QED
    BY <2>1, <2>2, NthAlong
<1>7. \A n, p : Point(Latencies(rows, S), n, p) = Point(Latencies(others, T), n, p)
  BY <1>6 DEF Point
<1>8. QED
  BY <1>1, <1>4, <1>5, <1>7 DEF Figures

\* A group has the figures of its places.
LEMMA FiguresKept ==
    ASSUME NEW rows, Normalized(rows), NEW S, S \subseteq DOMAIN rows
    PROVE  /\ IsFiniteSet(S)
           /\ Normalized(Keep(rows, S))
           /\ AggregateMetrics(Keep(rows, S)) = Figures(rows, S)
<1>1. IsFiniteSet(S) /\ S \in SUBSET Int
  <2>1. Len(rows) \in Int /\ 1 \in Int /\ DOMAIN rows = 1..Len(rows)
    BY DEF Normalized
  <2>2. IsFiniteSet(DOMAIN rows)
    BY <2>1, FS_Interval
  <2>3. QED
    BY <2>1, <2>2, FS_Subset
<1>2. PICK kept, h, n : kept = Keep(rows, S) /\ h = Listed(S) /\ n = Cardinality(S)
  OBVIOUS
<1>3. /\ Len(kept) = n /\ n \in Nat /\ DOMAIN kept = 1..n
      /\ OneToOne(h, 1..n, S)
      /\ \A i \in 1..n : kept[i] = rows[h[i]]
  BY <1>1, <1>2, KeepAt
<1>4. \A i \in 1..n : h[i] \in DOMAIN rows
  BY <1>3 DEF OneToOne
<1>5. Normalized(kept)
  <2>1. kept = [i \in 1..n |-> kept[i]]
    BY <1>1, <1>2, KeepAt
  <2>2. QED
    BY <1>3, <1>4, <2>1 DEF Normalized
<1>6. IsFiniteSet(1..n)
  BY <1>3, FS_Interval
<1>7. \A i \in 1..n : kept[i].estimated_cost_usd \in Int
  BY <1>3, <1>5 DEF Normalized
<1>8. Figures(kept, 1..n) = Figures(rows, S)
  BY <1>3, <1>6, <1>7, FiguresAlong
<1>9. QED
  BY <1>1, <1>2, <1>3, <1>5, <1>8, FiguresOfList

RoutesIn(rows) == {rows[i].route : i \in DOMAIN rows}

LEMMA FewRoutes ==
    ASSUME NEW rows, Normalized(rows)
    PROVE  IsFiniteSet(RoutesIn(rows))
<1>1. IsFiniteSet(DOMAIN rows)
  BY FiguresKept
<1>2. PICK f : f = [i \in DOMAIN rows |-> rows[i].route]
  OBVIOUS
<1>3. f \in Surjection(DOMAIN rows, RoutesIn(rows))
  BY <1>2 DEF Surjection, RoutesIn
<1>4. QED
  BY <1>1, <1>3, FS_Surjection

\* Every route of the rows is in the order of routes, and no other.
LEMMA RoutesOf ==
    ASSUME NEW rows, Normalized(rows)
    PROVE  /\ Len(RouteOrder(rows)) \in Nat
           /\ DOMAIN RouteOrder(rows) = 1..Len(RouteOrder(rows))
           /\ Range(RouteOrder(rows)) = RoutesIn(rows)
           /\ RouteOrder(rows) = <<>> <=> rows = <<>>
<1>1. PICK list, firsts : /\ list = [i \in DOMAIN rows |-> rows[i].route]
                          /\ firsts = {i \in DOMAIN rows : \A j \in 1..(i - 1) :
                                         rows[j].route # rows[i].route}
  OBVIOUS
<1>2. PICK N \in Nat : DOMAIN rows = 1..N /\ Len(rows) = N
  BY DEF Normalized
<1>3. firsts \in SUBSET Int /\ IsFiniteSet(firsts) /\ firsts \subseteq DOMAIN rows
  BY <1>1, <1>2, FiguresKept
<1>4. PICK order, h, n : order = Keep(list, firsts) /\ h = Listed(firsts) /\ n = Cardinality(firsts)
  OBVIOUS
<1>5. /\ Len(order) = n /\ n \in Nat /\ DOMAIN order = 1..n
      /\ order = [i \in 1..n |-> list[h[i]]]
      /\ OneToOne(h, 1..n, firsts)
      /\ \A i \in 1..n : order[i] = list[h[i]]
  BY <1>3, <1>4, KeepAt
<1>6. RouteOrder(rows) = order
  BY <1>1, <1>4 DEF RouteOrder
<1>7. \A i \in DOMAIN rows : \E j \in firsts : rows[j].route = rows[i].route
  <2>1. ASSUME NEW i \in DOMAIN rows PROVE \E j \in firsts : rows[j].route = rows[i].route
    <3>1. PICK U : U = {j \in DOMAIN rows : rows[j].route = rows[i].route}
      OBVIOUS
    <3>2. U \subseteq Nat /\ U # {}
      BY <1>2, <2>1, <3>1
    <3>3. PICK j \in U : \A k \in U : j <= k
      BY <3>2, LeastNumber
    <3>4. \A k \in 1..(j - 1) : k \in DOMAIN rows /\ k \notin U
      BY <1>2, <3>1, <3>3
    <3>5. j \in firsts
      BY <1>1, <3>1, <3>3, <3>4
    <3>6. QED
      BY <3>1, <3>3, <3>5
  <2>2. QED
    BY <2>1
<1>8. Range(order) = {list[j] : j \in firsts}
  BY <1>5 DEF Range, OneToOne
<1>9. Range(order) = RoutesIn(rows)
  <2>1. \A j \in firsts : list[j] = rows[j].route
    BY <1>1, <1>3
  <2>2. QED
    BY <1>3, <1>7, <1>8, <2>1 DEF RoutesIn
<1>10. order = <<>> <=> rows = <<>>
  <2>1. order = <<>> => n = 0
    BY <1>5
  <2>2. rows = <<>> => N = 0
    BY <1>2
  <2>3. n = 0 => order = <<>>
    BY <1>5
  <2>4. N = 0 => rows = <<>>
    BY <1>2 DEF Normalized
  <2>5. n = 0 <=> N = 0
    <3>1. n = 0 <=> DOMAIN order = {}
      BY <1>5
    <3>2. N = 0 <=> DOMAIN rows = {}
      BY <1>2
    <3>3. DOMAIN order = {} <=> Range(order) = {}
      BY DEF Range
    <3>4. QED
      BY <1>9, <3>1, <3>2, <3>3 DEF RoutesIn
  <2>6. QED
    BY <2>1, <2>2, <2>3, <2>4, <2>5
<1>11. QED
  BY <1>5, <1>6, <1>9, <1>10

\* The places of a route's rows, those of its group.
Mine(rows, route) == {i \in DOMAIN rows : rows[i].route = route}

\* A route has the figures of its places, and a route that does not occur has
\* those of no places.
LEMMA TableOf ==
    ASSUME NEW rows, Normalized(rows)
    PROVE  /\ DOMAIN RouteAggregates(rows) = RoutesIn(rows)
           /\ \A r \in DOMAIN RouteAggregates(rows) :
                RouteAggregates(rows)[r] = Figures(rows, Mine(rows, r))
           /\ \A r : OrEmpty(RouteAggregates(rows), r) = Figures(rows, Mine(rows, r))
<1>1. \A r : /\ AggregateMetrics(GroupByRoute(rows, r)) = Figures(rows, Mine(rows, r))
             /\ Mine(rows, r) \subseteq DOMAIN rows
  <2>1. \A r : Mine(rows, r) \subseteq DOMAIN rows /\ GroupByRoute(rows, r) = Keep(rows, Mine(rows, r))
    BY DEF Mine, GroupByRoute
  <2>2. QED
    BY <2>1, FiguresKept
<1>2. PICK table, routes : /\ table = RouteAggregates(rows)
                           /\ routes = RoutesIn(rows)
  OBVIOUS
<1>3. table = [r \in routes |-> AggregateMetrics(GroupByRoute(rows, r))]
  BY <1>2, RoutesOf DEF RouteAggregates
<1>4. ASSUME NEW r, r \notin routes PROVE AggregateMetrics(<<>>) = Figures(rows, Mine(rows, r))
  <2>1. Mine(rows, r) = {}
    BY <1>2, <1>4 DEF Mine, RoutesIn
  <2>2. PICK none : none = <<>>
    OBVIOUS
  <2>3. Normalized(none) /\ DOMAIN none = {}
    BY <2>2 DEF Normalized
  <2>4. AggregateMetrics(none) = Figures(none, {})
    BY <2>3, FiguresOfList
  <2>5. OneToOne(none, {}, {}) /\ IsFiniteSet({})
    BY FS_EmptySet DEF OneToOne
  <2>6. Figures(none, {}) = Figures(rows, {})
    BY <2>5, FiguresAlong
  <2>7. QED
    BY <2>1, <2>2, <2>4, <2>6
<1>5. QED
  BY <1>1, <1>2, <1>3, <1>4 DEF OrEmpty

\* What a figure is for the routes of P, and for all rows.
LEMMA RoutesAccount ==
    ASSUME NEW rows, Normalized(rows), NEW P, IsFiniteSet(P),
           RoutesIn(rows) \subseteq P,
           NEW field \in {"request_count", "estimated_total_cost_usd", "error_count",
                          "unknown_error_count"},
           NEW parts, \A r \in P : parts[r] = Figures(rows, Mine(rows, r))[field]
    PROVE  /\ SumFunctionOnSet(parts, P) = AggregateMetrics(rows)[field]
           /\ \A r \in P : parts[r] \in Int
<1>1. PICK S, key : S = DOMAIN rows /\ key = [i \in S |-> rows[i].route]
  OBVIOUS
<1>2. IsFiniteSet(S) /\ (\A i \in S : key[i] \in P) /\ \A r : Mine(rows, r) = Having(key, S, r)
  BY <1>1, FiguresKept DEF Mine, Having, RoutesIn
<1>3. \A r : Having(key, S, r) \in SUBSET S
  BY DEF Having
<1>4. AggregateMetrics(rows) = Figures(rows, S)
  BY <1>1, FiguresOfList
<1>5. ASSUME NEW T \in SUBSET S, \A r \in P : parts[r] = Cardinality(T \cap Mine(rows, r))
      PROVE  /\ SumFunctionOnSet(parts, P) = Cardinality(T)
             /\ \A r \in P : parts[r] \in Int
  <2>1. IsFiniteSet(T) /\ \A i \in T : key[i] \in P
    BY <1>2, FS_Subset
  <2>2. \A r \in P : T \cap Mine(rows, r) = Having(key, T, r)
    BY <1>2 DEF Having
  <2>3. \A r \in P : Having(key, T, r) \in SUBSET T
    BY DEF Having
  <2>4. \A r \in P : parts[r] = Cardinality(Having(key, T, r))
    BY <1>5, <2>2
  <2>5. \A r \in P : Cardinality(Having(key, T, r)) \in Nat
    BY <2>1, <2>3, FS_Subset, FS_CardinalityType
  <2>6. QED
    BY <2>1, <2>4, <2>5, CountByKey
<1>6. CASE field = "request_count"
  <2>1. \A r \in P : parts[r] = Cardinality(S \cap Mine(rows, r))
    <3>1. \A r \in P : S \cap Mine(rows, r) = Mine(rows, r)
      BY <1>2, <1>3
    <3>2. QED
      BY <1>6, <3>1 DEF Figures
  <2>2. AggregateMetrics(rows)[field] = Cardinality(S)
    BY <1>4, <1>6 DEF Figures
  <2>3. S \in SUBSET S
    OBVIOUS
  <2>4. QED
    BY <1>5, <2>1, <2>2, <2>3
<1>7. CASE field = "error_count"
  <2>1. \A r \in P : parts[r] = Cardinality(Errors(rows) \cap Mine(rows, r))
    BY <1>7 DEF Figures
  <2>2. Errors(rows) \in SUBSET S /\ Errors(rows) \cap S = Errors(rows)
    BY <1>1 DEF Errors
  <2>3. AggregateMetrics(rows)[field] = Cardinality(Errors(rows))
    BY <1>4, <1>7, <2>2 DEF Figures
  <2>4. QED
    BY <1>5, <2>1, <2>2, <2>3
<1>8. CASE field = "unknown_error_count"
  <2>1. \A r \in P : parts[r] = Cardinality(Unknown(rows) \cap Mine(rows, r))
    BY <1>8 DEF Figures
  <2>2. Unknown(rows) \in SUBSET S /\ Unknown(rows) \cap S = Unknown(rows)
    BY <1>1 DEF Unknown, Errors
  <2>3. Figures(rows, S)[field] = Cardinality(Unknown(rows))
    BY <1>8, <2>2 DEF Figures
  <2>4. QED
    BY <1>4, <1>5, <2>1, <2>2, <2>3
<1>9. CASE field = "estimated_total_cost_usd"
  <2>1. PICK f : f = Costs(rows, S)
    OBVIOUS
  <2>2. \A i \in S : f[i] \in Int
    BY <1>1, <2>1 DEF Costs, Normalized
  <2>3. \A r \in P : parts[r] = SumFunctionOnSet(f, Having(key, S, r)) /\ parts[r] \in Int
    <3>1. ASSUME NEW r \in P
          PROVE  parts[r] = SumFunctionOnSet(f, Having(key, S, r)) /\ parts[r] \in Int
      <4>1. PICK T, g : T = Having(key, S, r) /\ g = Costs(rows, T)
        OBVIOUS
      <4>2. T \in SUBSET S /\ IsFiniteSet(T)
        BY <1>2, <1>3, <4>1, FS_Subset
      <4>3. \A i \in T : g[i] \in Int /\ g[i] = f[i]
        BY <2>1, <2>2, <4>1, <4>2 DEF Costs
      <4>4. SumFunctionOnSet(g, T) = SumFunctionOnSet(f, T) /\ SumFunctionOnSet(g, T) \in Int
        BY <4>2, <4>3, SumSame, SumTake
      <4>5. parts[r] = SumFunctionOnSet(g, T)
        BY <1>2, <1>9, <4>1 DEF Figures
      <4>6. QED
        BY <4>1, <4>4, <4>5
    <3>2. QED
      BY <3>1
  <2>4. SumFunctionOnSet(parts, P) = SumFunctionOnSet(f, S)
    BY <1>2, <2>2, <2>3, SumByKey
  <2>5. AggregateMetrics(rows)[field] = SumFunctionOnSet(f, S)
    BY <1>4, <1>9, <2>1 DEF Figures
  <2>6. QED
    BY <2>3, <2>4, <2>5
<1>10. QED
  BY <1>6, <1>7, <1>8, <1>9

(***************************************************************************)
(* The report is made of the lines of the logs.                            *)
(***************************************************************************)

\* Absent is a value of its own, no table and no list.
Unset == Absent # [x \in DOMAIN Absent |-> Absent[x]]

ReportInv ==
    /\ before = Absent \/ before \in Seq(Lines)
    /\ after \in Seq(Lines)
    /\ markdown = Absent \/ \E missing \in Coverage : markdown = Output(missing)

LEMMA LoadedNormalized ==
    ASSUME NEW lines \in Seq(Lines)
    PROVE  Normalized(LoadTelemetry(lines).rows)
<1>1. PICK decoded, S :
         /\ S = {j \in DOMAIN lines : lines[j].kind # "blank"}
         /\ decoded = [i \in S |-> Decoded(lines[i])]
  OBVIOUS
<1>2. PICK T : T = DOMAIN decoded \ ({i \in DOMAIN decoded : decoded[i] = Malformed}
                                     \cup {i \in DOMAIN decoded : decoded[i] = Raised})
  OBVIOUS
<1>3. LoadTelemetry(lines).rows = Keep(decoded, T)
  BY <1>1, <1>2 DEF LoadTelemetry
<1>4. T \in SUBSET Int /\ IsFiniteSet(T) /\ T \subseteq DOMAIN lines
  <2>1. 1 \in Int /\ Len(lines) \in Int /\ DOMAIN lines = 1..Len(lines)
    OBVIOUS
  <2>2. IsFiniteSet(DOMAIN lines) /\ DOMAIN lines \subseteq Int
    BY <2>1, FS_Interval
  <2>3. T \subseteq DOMAIN lines
    BY <1>1, <1>2
  <2>4. QED
    BY <2>2, <2>3, FS_Subset
<1>5. ASSUME NEW i \in T
      PROVE  /\ decoded[i].latency_ms \in Nat /\ decoded[i].estimated_cost_usd \in Nat
             /\ decoded[i].route \in Range(Sorted)
  <2>1. PICK line \in Lines : /\ line = lines[i] /\ line.kind # "blank"
                              /\ decoded[i] = Decoded(line)
                              /\ Decoded(line) \notin {Malformed, Raised}
    BY <1>1, <1>2, <1>4
  <2>2. line.kind = "object" /\ decoded[i] = NormalizeRow(line.row) /\ Decodable(line.row)
    BY <2>1, ReportAssumption DEF Decoded
  <2>3. PICK raw : raw = line.row
    OBVIOUS
  <2>4. NormalizeRow(raw) \notin {Malformed, Raised}
    BY <2>1, <2>2, <2>3
  <2>5. /\ RequiredNormalized \subseteq DOMAIN raw
        /\ raw.route.type \in StringTypes /\ raw.route.value # ""
        /\ CoerceFloat(raw.latency_ms) # Absent /\ ~(CoerceFloat(raw.latency_ms) < 0)
        /\ CoerceFloat(raw.estimated_cost_usd) # Absent
        /\ ~(CoerceFloat(raw.estimated_cost_usd) < 0)
    BY <2>4 DEF NormalizeRow
  <2>6. /\ NormalizeRow(raw).route = raw.route.value
        /\ NormalizeRow(raw).latency_ms = CoerceFloat(raw.latency_ms)
        /\ NormalizeRow(raw).estimated_cost_usd = CoerceFloat(raw.estimated_cost_usd)
    BY <2>4 DEF NormalizeRow
  <2>7. {"route", "latency_ms", "estimated_cost_usd"} \subseteq DOMAIN raw
    BY <2>5 DEF RequiredNormalized
  <2>8. raw.route.value \in Range(Sorted)
    BY <2>2, <2>3, <2>5, <2>7 DEF Decodable
  <2>9. /\ CoerceFloat(raw.latency_ms) \in Int
        /\ CoerceFloat(raw.estimated_cost_usd) \in Int
    BY <2>2, <2>3, <2>5, <2>7 DEF Decodable, CoerceFloat
  <2>10. \A x \in Int : ~(x < 0) => x \in Nat
    OBVIOUS
  <2>11. PICK row : row = NormalizeRow(raw)
    OBVIOUS
  <2>12. row.latency_ms \in Nat /\ row.estimated_cost_usd \in Nat
    BY <2>5, <2>6, <2>9, <2>10, <2>11
  <2>13. QED
    BY <2>2, <2>3, <2>6, <2>8, <2>11, <2>12
<1>6. PICK kept, h, n : kept = Keep(decoded, T) /\ h = Listed(T) /\ n = Cardinality(T)
  OBVIOUS
<1>7. /\ Len(kept) = n /\ n \in Nat /\ DOMAIN kept = 1..n
      /\ kept = [i \in 1..n |-> decoded[h[i]]]
      /\ \A i \in 1..n : h[i] \in T
  BY <1>4, <1>6, KeepAt DEF OneToOne
<1>8. Normalized(kept)
  BY <1>5, <1>7 DEF Normalized
<1>9. QED
  BY <1>3, <1>6, <1>8

\* What the report shows.
LEMMA Shown ==
    ASSUME Unset, ReportInv, Made
    PROVE  LET rows == Loaded
               table == RouteAggregates(rows)
               past == LoadTelemetry(before).rows
           IN
           /\ Normalized(rows)
           /\ markdown.routes = table
           /\ markdown.overall = AggregateMetrics(rows)
           /\ rows # <<>> => markdown.headline = [cost  |-> HighestCostRoute(RouteOrder(rows), table),
                                     error |-> HighestErrorRoute(RouteOrder(rows), table)]
           /\ markdown.by_cost = Ranked(RouteOrder(rows), KeyOf(table, "estimated_total_cost_usd"))
           /\ markdown.by_error = Ranked(RouteOrder(rows), KeyOf(table, "error_count"))
           /\ before # Absent =>
                /\ Normalized(past)
                /\ RouteAggregates(past) # Absent
                /\ markdown.delta = DeltaTable(RouteAggregates(past), table)
                /\ markdown.overall_delta = CompareAggregates(AggregateMetrics(past),
                                                              AggregateMetrics(rows))
           /\ \E malformed, missing :
                markdown.recommendations =
                  Recommendations(rows, table, malformed, missing,
                                  IF before = Absent THEN Absent ELSE RouteAggregates(past))
<1>1. PICK missing \in Coverage : markdown = Output(missing)
  BY DEF ReportInv, Made
<1>2. PICK a, b : /\ a = LoadTelemetry(after)
                  /\ b = IF before = Absent THEN Absent ELSE LoadTelemetry(before)
  OBVIOUS
<1>3. markdown = Render(b, a, missing)
  <2>1. markdown = IF a.raised \/ (b # Absent /\ b.raised) THEN [raised |-> TRUE]
                   ELSE Render(b, a, missing)
    BY <1>1, <1>2 DEF Output
  <2>2. ~markdown.raised
    BY DEF Made
  <2>3. QED
    BY <2>1, <2>2
<1>4. PICK rows, table : rows = Loaded /\ table = RouteAggregates(rows)
  OBVIOUS
<1>5. a.rows = rows /\ Normalized(rows)
  BY <1>2, <1>4, LoadedNormalized DEF ReportInv, Loaded
<1>6. RouteOrder(rows) = <<>> <=> rows = <<>>
  BY <1>5, RoutesOf
<1>7. before # Absent => LoadTelemetry(before) # Absent
  BY DEF Unset, LoadTelemetry
<1>8. \A list : RouteAggregates(list) # Absent
  BY DEF Unset, RouteAggregates
<1>9. PICK past : past = LoadTelemetry(before).rows
  OBVIOUS
<1>10. before # Absent => Normalized(past) /\ b # Absent /\ b.rows = past
  BY <1>2, <1>7, <1>9, LoadedNormalized DEF ReportInv
<1>11. before = Absent => b = Absent
  BY <1>2
<1>12. PICK order : order = RouteOrder(rows)
  OBVIOUS
<1>13. /\ markdown.routes = table
       /\ markdown.overall = AggregateMetrics(rows)
       /\ markdown.headline = IF order = <<>> THEN Absent
                              ELSE [cost |-> HighestCostRoute(order, table),
                                    error |-> HighestErrorRoute(order, table)]
       /\ markdown.by_cost = Ranked(order, KeyOf(table, "estimated_total_cost_usd"))
       /\ markdown.by_error = Ranked(order, KeyOf(table, "error_count"))
  BY <1>3, <1>4, <1>5, <1>12 DEF Render
<1>14. before # Absent =>
          /\ markdown.delta = DeltaTable(RouteAggregates(past), table)
          /\ markdown.overall_delta = CompareAggregates(AggregateMetrics(past),
                                                        AggregateMetrics(rows))
  BY <1>3, <1>4, <1>5, <1>10 DEF Render
<1>15. \E malformed, absent :
          markdown.recommendations =
            Recommendations(rows, table, malformed, absent,
                            IF before = Absent THEN Absent ELSE RouteAggregates(past))
  <2>1. PICK malformed : malformed = (IF b = Absent THEN 0 ELSE b.malformed) + a.malformed
    OBVIOUS
  <2>2. markdown.recommendations =
            Recommendations(rows, table, malformed, missing,
                            IF b = Absent THEN Absent ELSE RouteAggregates(b.rows))
    BY <1>3, <1>4, <1>5, <2>1 DEF Render
  <2>3. QED
    BY <1>10, <1>11, <2>2
<1>16. QED
  BY <1>4, <1>5, <1>6, <1>8, <1>9, <1>10, <1>12, <1>13, <1>14, <1>15

LEMMA ReportKeeps == ReportInv /\ [ReportNext]_<<logs, markdown>> => ReportInv'
<1> SUFFICES ASSUME ReportInv, [ReportNext]_<<logs, markdown>> PROVE ReportInv'
  OBVIOUS
<1>1. ASSUME NEW line \in Lines, LogLine(line) PROVE ReportInv'
  BY <1>1 DEF ReportInv, LogLine
<1>2. ASSUME Snapshot PROVE ReportInv'
  BY <1>2 DEF ReportInv, Snapshot
<1>3. ASSUME NEW missing \in Coverage, Main(missing) PROVE ReportInv'
  <2>1. before' = before /\ after' = after /\ markdown' = Output(missing)
    BY <1>3 DEF Main, logs
  <2>2. Output(missing)' = Output(missing)
    BY <2>1 DEF Output
  <2>3. QED
    BY <2>1, <2>2 DEF ReportInv
<1>4. ASSUME UNCHANGED <<logs, markdown>> PROVE ReportInv'
  <2>1. \A missing : Output(missing)' = Output(missing)
    BY <1>4 DEF Output, logs
  <2>2. QED
    BY <1>4, <2>1 DEF ReportInv, logs
<1>5. QED
  BY <1>1, <1>2, <1>3, <1>4 DEF ReportNext

LEMMA ReportHolds == ReportSpec => []ReportInv
<1>1. ReportInit => ReportInv
  BY DEF ReportInit, ReportInv
<1>2. QED
  BY <1>1, ReportKeeps, PTL DEF ReportSpec

\* The deltas of a column add up.
LEMMA DeltasAccount ==
    ASSUME NEW rows, Normalized(rows), NEW past, Normalized(past),
           NEW field \in {"request_count", "estimated_total_cost_usd"}, NEW column,
           NEW table, table = DeltaTable(RouteAggregates(past), RouteAggregates(rows)),
           \A r \in DOMAIN table : table[r][column] =
              OrEmpty(RouteAggregates(rows), r)[field] - OrEmpty(RouteAggregates(past), r)[field]
    PROVE  TotalOver(table, column) = AggregateMetrics(rows)[field] - AggregateMetrics(past)[field]
<1>1. PICK P : P = DOMAIN table
  OBVIOUS
<1>2. /\ RoutesIn(rows) \subseteq P
      /\ RoutesIn(past) \subseteq P
      /\ P = RoutesIn(rows) \cup RoutesIn(past)
  BY <1>1, TableOf DEF DeltaTable, AllRoutes
<1>3. IsFiniteSet(P)
  BY <1>2, FewRoutes, FS_Union
<1>4. PICK now, then, d :
         /\ now = [r \in P |-> Figures(rows, Mine(rows, r))[field]]
         /\ then = [r \in P |-> Figures(past, Mine(past, r))[field]]
         /\ d = [r \in P |-> table[r][column]]
  OBVIOUS
<1>5. /\ SumFunctionOnSet(now, P) = AggregateMetrics(rows)[field]
      /\ \A r \in P : now[r] \in Int
  <2>1. \A r \in P : now[r] = Figures(rows, Mine(rows, r))[field]
    BY <1>4
  <2>2. field \in {"request_count", "estimated_total_cost_usd", "error_count",
                  "unknown_error_count"}
    OBVIOUS
  <2>3. RoutesIn(rows) \subseteq P
    BY <1>2
  <2>4. QED
    BY <1>3, <2>1, <2>2, <2>3, RoutesAccount
<1>6. /\ SumFunctionOnSet(then, P) = AggregateMetrics(past)[field]
      /\ \A r \in P : then[r] \in Int
  <2>1. \A r \in P : then[r] = Figures(past, Mine(past, r))[field]
    BY <1>4
  <2>2. field \in {"request_count", "estimated_total_cost_usd", "error_count",
                  "unknown_error_count"}
    OBVIOUS
  <2>3. RoutesIn(past) \subseteq P
    BY <1>2
  <2>4. QED
    BY <1>3, <2>1, <2>2, <2>3, RoutesAccount
<1>7. \A r \in P : d[r] = now[r] - then[r]
  <2>1. \A r : /\ OrEmpty(RouteAggregates(rows), r) = Figures(rows, Mine(rows, r))
               /\ OrEmpty(RouteAggregates(past), r) = Figures(past, Mine(past, r))
    BY TableOf
  <2>2. QED
    BY <1>1, <1>4, <2>1
<1>8. SumFunctionOnSet(d, P) = SumFunctionOnSet(now, P) - SumFunctionOnSet(then, P)
  BY <1>3, <1>5, <1>6, <1>7, SumMinus
<1>9. QED
  BY <1>1, <1>4, <1>5, <1>6, <1>8 DEF TotalOver

LEMMA PartitionShown == Unset /\ ReportInv => RoutesPartition
<1> SUFFICES ASSUME Unset, ReportInv, Made PROVE RoutesPartition
  BY DEF RoutesPartition
<1>1. PICK rows, past, table : /\ rows = Loaded /\ past = LoadTelemetry(before).rows
                               /\ table = RouteAggregates(rows)
  OBVIOUS
<1>2. Normalized(rows) /\ markdown.routes = table /\ markdown.overall = AggregateMetrics(rows)
  BY <1>1, Shown
<1>3. before # Absent =>
        /\ Normalized(past)
        /\ markdown.delta = DeltaTable(RouteAggregates(past), table)
        /\ markdown.overall_delta = CompareAggregates(AggregateMetrics(past),
                                                      AggregateMetrics(rows))
  BY <1>1, Shown
<1>4. ASSUME NEW field \in {"request_count", "estimated_total_cost_usd", "error_count",
                            "unknown_error_count"}
      PROVE  TotalOver(markdown.routes, field) = markdown.overall[field]
  <2>1. PICK P, parts : P = DOMAIN table /\ parts = [r \in P |-> table[r][field]]
    OBVIOUS
  <2>2. P = RoutesIn(rows) /\ IsFiniteSet(P)
    BY <1>1, <1>2, <2>1, TableOf, FewRoutes
  <2>3. \A r \in P : parts[r] = Figures(rows, Mine(rows, r))[field]
    BY <1>1, <1>2, <2>1, TableOf
  <2>4. SumFunctionOnSet(parts, P) = AggregateMetrics(rows)[field]
    BY <1>2, <2>2, <2>3, RoutesAccount
  <2>5. QED
    BY <1>2, <2>1, <2>4 DEF TotalOver
<1>5. ASSUME before # Absent,
             NEW column \in {"request_count_delta", "estimated_total_cost_usd_delta"}
      PROVE  TotalOver(markdown.delta, column) = markdown.overall_delta[column]
  <2>1. PICK field : field = IF column = "request_count_delta" THEN "request_count"
                             ELSE "estimated_total_cost_usd"
    OBVIOUS
  <2>2. \A b, a : CompareAggregates(b, a)[column] = a[field] - b[field]
    BY <2>1 DEF CompareAggregates
  <2>3. \A r \in DOMAIN markdown.delta : markdown.delta[r][column] =
           OrEmpty(table, r)[field] - OrEmpty(RouteAggregates(past), r)[field]
    BY <1>3, <1>5, <2>2 DEF DeltaTable
  <2>4. TotalOver(markdown.delta, column)
           = AggregateMetrics(rows)[field] - AggregateMetrics(past)[field]
    BY <1>1, <1>2, <1>3, <1>5, <2>1, <2>3, DeltasAccount
  <2>5. QED
    BY <1>3, <1>5, <2>2, <2>4
<1>6. QED
  BY <1>4, <1>5 DEF RoutesPartition

(***************************************************************************)
(* Percentiles.                                                            *)
(***************************************************************************)

LEMMA Division ==
    ASSUME NEW index \in Nat
    PROVE  LET q == index \div 100
               r == index % 100
           IN  /\ q \in Nat /\ r \in 0..99 /\ index = 100 * q + r
               /\ (index + 99) \div 100 = IF r = 0 THEN q ELSE q + 1
OBVIOUS

Ahead(f, j, i) == f[j] < f[i] \/ (f[j] = f[i] /\ j < i)
AheadOf(f, i) == {j \in DOMAIN f : Ahead(f, j, i)}

LEMMA PlaceIs == \A f, i : Place(f, i) = Cardinality(AheadOf(f, i))
BY DEF Place, AheadOf, Ahead

\* The places of values in order are numbered from 0, without gaps.
LEMMA PlacesInOrder ==
    ASSUME NEW f, DOMAIN f \in SUBSET Int, IsFiniteSet(DOMAIN f),
           \A i \in DOMAIN f : f[i] \in Int
    PROVE  /\ \A i \in DOMAIN f : Place(f, i) \in 0..(Cardinality(DOMAIN f) - 1)
           /\ \A i, j \in DOMAIN f : Place(f, i) <= Place(f, j) => f[i] <= f[j]
           /\ \A i, j \in DOMAIN f : Place(f, i) = Place(f, j) => i = j
           /\ \A n \in 0..(Cardinality(DOMAIN f) - 1) : \E i \in DOMAIN f : Place(f, i) = n
<1>1. PICK S, n : S = DOMAIN f /\ n = Cardinality(S)
  OBVIOUS
<1>2. S \in SUBSET Int /\ IsFiniteSet(S) /\ n \in Nat
  BY <1>1, FS_CardinalityType
<1>3. \A i \in S : AheadOf(f, i) \in SUBSET S /\ i \notin AheadOf(f, i)
  BY <1>1 DEF AheadOf, Ahead
<1>4. \A i \in S : IsFiniteSet(AheadOf(f, i)) /\ Place(f, i) \in Nat /\ Place(f, i) < n
  <2>1. ASSUME NEW i \in S
        PROVE  IsFiniteSet(AheadOf(f, i)) /\ Place(f, i) \in Nat /\ Place(f, i) < n
    <3>1. PICK A : A = AheadOf(f, i)
      OBVIOUS
    <3>2. A \in SUBSET S /\ A # S
      BY <1>3, <3>1
    <3>3. IsFiniteSet(A) /\ Cardinality(A) <= n /\ Cardinality(A) # n
      BY <1>1, <1>2, <3>2, FS_Subset
    <3>4. Cardinality(A) \in Nat
      BY <3>3, FS_CardinalityType
    <3>5. QED
      BY <1>2, <3>1, <3>3, <3>4, PlaceIs
  <2>2. QED
    BY <2>1
<1>5. ASSUME NEW i \in S, NEW j \in S, Ahead(f, j, i) PROVE Place(f, j) < Place(f, i)
  <2>1. PICK A, B : A = AheadOf(f, i) /\ B = AheadOf(f, j)
    OBVIOUS
  <2>2. B \in SUBSET A
    BY <1>1, <1>2, <1>5, <2>1 DEF AheadOf, Ahead
  <2>3. j \in A /\ j \notin B
    BY <1>1, <1>3, <1>5, <2>1 DEF AheadOf
  <2>4. IsFiniteSet(A) /\ IsFiniteSet(B)
    BY <1>4, <2>1
  <2>5. Cardinality(B) <= Cardinality(A) /\ Cardinality(B) # Cardinality(A)
    BY <2>2, <2>3, <2>4, FS_Subset
  <2>6. Cardinality(A) \in Nat /\ Cardinality(B) \in Nat
    BY <2>4, FS_CardinalityType
  <2>7. QED
    BY <2>1, <2>5, <2>6, PlaceIs
<1>6. \A i \in S : \A j \in S : i # j => Ahead(f, i, j) \/ Ahead(f, j, i)
  BY <1>1, <1>2 DEF Ahead
<1>7. ASSUME NEW i \in S, NEW j \in S, Place(f, i) <= Place(f, j) PROVE f[i] <= f[j]
  <2>1. ~Ahead(f, j, i)
    BY <1>4, <1>5, <1>7
  <2>2. QED
    BY <1>1, <2>1 DEF Ahead
<1>8. ASSUME NEW k \in 0..(n - 1) PROVE \E i \in S : Place(f, i) = k
  <2>1. PICK T, p : T = 0..(n - 1) /\ p = [i \in S |-> Place(f, i)]
    OBVIOUS
  <2>2. \A i \in S : Place(f, i) \in T
    BY <1>2, <1>4, <2>1
  <2>3. \A i \in S : \A j \in S : p[i] = p[j] => i = j
    BY <1>4, <1>5, <1>6, <2>1
  <2>4. p \in Injection(S, T)
    BY <2>1, <2>2, <2>3 DEF Injection, IsInjective
  <2>5. IsFiniteSet(T) /\ Cardinality(T) = n
    <3>1. 0 \in Int /\ n - 1 \in Int
      BY <1>2
    <3>2. IsFiniteSet(0..(n - 1)) /\ Cardinality(0..(n - 1)) = IF 0 > n - 1 THEN 0 ELSE n - 1 - 0 + 1
      BY <3>1, FS_Interval
    <3>3. QED
      BY <1>2, <2>1, <3>2
  <2>6. p \in Surjection(S, T)
    BY <1>1, <2>4, <2>5, FS_Injection
  <2>7. QED
    BY <1>8, <2>1, <2>6 DEF Surjection
<1>9. \A i \in S : \A j \in S : Place(f, i) = Place(f, j) => i = j
  BY <1>4, <1>5, <1>6
<1>10. QED
  BY <1>1, <1>2, <1>4, <1>7, <1>8, <1>9

\* The value with that many before it.
LEMMA NthIs ==
    ASSUME NEW f, DOMAIN f \in SUBSET Int, IsFiniteSet(DOMAIN f),
           \A i \in DOMAIN f : f[i] \in Int,
           NEW i \in DOMAIN f
    PROVE  Nth(f, Place(f, i) + 1) = f[i]
<1>1. PICK S, n, v : S = DOMAIN f /\ n = Place(f, i) + 1 /\ v = f[i]
  OBVIOUS
<1> DEFINE Below(w) == {j \in S : f[j] < w}
           UpToIt(w) == {j \in S : f[j] <= w}
           Fits(w) == Cardinality(Below(w)) < n /\ n <= Cardinality(UpToIt(w))
<1>2. \A w : /\ IsFiniteSet(Below(w)) /\ IsFiniteSet(UpToIt(w))
             /\ Cardinality(Below(w)) \in Nat /\ Cardinality(UpToIt(w)) \in Nat
  <2>1. \A w : Below(w) \in SUBSET S /\ UpToIt(w) \in SUBSET S
    OBVIOUS
  <2> HIDE DEF Below, UpToIt
  <2>2. QED
    BY <1>1, <2>1, FS_Subset, FS_CardinalityType
<1>3. PICK A : A = AheadOf(f, i)
  OBVIOUS
<1>4. A \in SUBSET S /\ i \notin A /\ Below(v) \in SUBSET A /\ A \cup {i} \in SUBSET UpToIt(v)
  BY <1>1, <1>3 DEF AheadOf, Ahead
<1>5. IsFiniteSet(A) /\ Cardinality(A) \in Nat /\ n = Cardinality(A) + 1
  BY <1>1, <1>3, <1>4, FS_Subset, FS_CardinalityType, PlaceIs
<1>6. Fits(v)
  <2>1. Cardinality(Below(v)) <= Cardinality(A)
    BY <1>4, <1>5, FS_Subset
  <2>2. Cardinality(A \cup {i}) = n
    BY <1>4, <1>5, FS_AddElement
  <2>3. Cardinality(A \cup {i}) <= Cardinality(UpToIt(v))
    BY <1>2, <1>4, FS_Subset
  <2> HIDE DEF Below, UpToIt
  <2>4. QED
    BY <1>2, <1>5, <2>1, <2>2, <2>3
<1>7. ASSUME NEW w \in Range(f), NEW u \in Range(f), Fits(w), Fits(u), w < u PROVE FALSE
  <2>1. UpToIt(w) \in SUBSET Below(u)
    BY <1>1, <1>7 DEF Range
  <2>2. Cardinality(UpToIt(w)) <= Cardinality(Below(u))
    BY <1>2, <2>1, FS_Subset
  <2> HIDE DEF Below, UpToIt
  <2>3. QED
    BY <1>2, <1>5, <1>7, <2>2
<1>8. v \in Range(f) /\ \A w \in Range(f) : w \in Int
  BY <1>1 DEF Range
<1>9. \A w \in Range(f) : Fits(w) => w = v
  <2> HIDE DEF Fits
  <2>1. QED
    BY <1>6, <1>7, <1>8
<1>10. Nth(f, n) = CHOOSE w \in Range(f) : Fits(w)
  BY <1>1 DEF Nth
<1>11. Nth(f, n) = v
  <2> HIDE DEF Fits
  <2>1. QED
    BY <1>6, <1>8, <1>9, <1>10
<1>12. QED
  BY <1>1, <1>11

\* A sum of one or two terms.
LEMMA SumOfOne ==
    ASSUME NEW g, NEW a, g[a] \in Int
    PROVE  SumFunctionOnSet(g, {a}) = g[a]
<1>1. SumFunctionOnSet(g, {}) = 0 /\ IsFiniteSet({})
  BY SumEmpty, FS_EmptySet
<1>2. SumFunctionOnSet(g, {} \cup {a}) = SumFunctionOnSet(g, {}) + g[a]
  <2>1. a \notin {} /\ \A y \in {} \cup {a} : g[y] \in Int
    OBVIOUS
  <2>2. QED
    BY <1>1, <2>1, SumInsert
<1>3. {} \cup {a} = {a}
  OBVIOUS
<1>4. QED
  BY <1>1, <1>2, <1>3

LEMMA SumOfTwo ==
    ASSUME NEW g, NEW a, NEW b, g[a] \in Int, g[b] \in Int, a # b
    PROVE  SumFunctionOnSet(g, {a, b}) = g[a] + g[b]
<1>1. IsFiniteSet({a}) /\ b \notin {a} /\ \A y \in {a} \cup {b} : g[y] \in Int
  BY FS_Singleton
<1>2. SumFunctionOnSet(g, {a} \cup {b}) = SumFunctionOnSet(g, {a}) + g[b]
  BY <1>1, SumInsert
<1>3. {a} \cup {b} = {a, b}
  OBVIOUS
<1>4. QED
  BY <1>2, <1>3, SumOfOne

\* The index of percentile p among n values has this whole part and this rest.
Split(n, p, q, r) == p * (n - 1) = 100 * q + r

\* The percentile is taken between the values at places a and b.
Between(f, n, p, a, b, q, r) ==
    /\ Split(n, p, q, r)
    /\ Place(f, a) = q /\ Place(f, b) = IF r = 0 THEN q ELSE q + 1
    /\ Point(f, n, p) = 100 * f[a] + (f[b] - f[a]) * r

FoundBetween(f, n, p) ==
    \E a, b \in DOMAIN f : \E q \in Nat, r \in 0..99 : Between(f, n, p, a, b, q, r)

LEMMA Neighbours ==
    ASSUME NEW f, DOMAIN f \in SUBSET Int, IsFiniteSet(DOMAIN f), DOMAIN f # {},
           \A i \in DOMAIN f : f[i] \in Int,
           NEW n, n = Cardinality(DOMAIN f)
    PROVE  /\ n \in Nat /\ n > 0
           /\ \A p \in 0..100 : FoundBetween(f, n, p)
<1>1. n \in Nat /\ n > 0
  BY FS_CardinalityType, FS_EmptySet
<1>2. ASSUME NEW p \in 0..100 PROVE FoundBetween(f, n, p)
  <2>1. PICK index : index = p * (n - 1)
    OBVIOUS
  <2>2. index \in Nat /\ index <= 100 * (n - 1)
    <3>1. PICK k \in Nat, m \in Nat : k = 100 - p /\ m = n - 1
      BY <1>1
    <3>2. p * m \in Nat /\ k * m \in Nat /\ p * m + k * m = 100 * m
      BY <3>1
    <3>3. QED
      BY <2>1, <3>1, <3>2
  <2>3. PICK q, r, u : q = index \div 100 /\ r = index % 100 /\ u = (index + 99) \div 100
    OBVIOUS
  <2>4. /\ q \in Nat /\ r \in 0..99 /\ index = 100 * q + r
        /\ u = IF r = 0 THEN q ELSE q + 1
    BY <2>2, <2>3, Division
  <2>5. q \in 0..(n - 1) /\ u \in 0..(n - 1)
    BY <1>1, <2>2, <2>4
  <2>6. PICK a \in DOMAIN f : Place(f, a) = q
    BY <2>5, PlacesInOrder
  <2>7. PICK b \in DOMAIN f : Place(f, b) = u
    BY <2>5, PlacesInOrder
  <2>8. Nth(f, q + 1) = f[a] /\ Nth(f, u + 1) = f[b]
    BY <2>6, <2>7, NthIs
  <2>9. Point(f, n, p) = 100 * Nth(f, q + 1) + (Nth(f, u + 1) - Nth(f, q + 1)) * r
    BY <1>1, <2>1, <2>3 DEF Point
  <2>10. Split(n, p, q, r)
    BY <2>1, <2>4 DEF Split
  <2>11. Between(f, n, p, a, b, q, r)
    BY <2>4, <2>6, <2>7, <2>8, <2>9, <2>10 DEF Between
  <2>12. QED
    BY <2>4, <2>11 DEF FoundBetween
<1>3. QED
  BY <1>1, <1>2

\* How much each of them counts, and that no other does.
Share(k, q, r) == IF k = q THEN 100 - r ELSE IF k = q + 1 THEN r ELSE 0

LEMMA Weights ==
    ASSUME NEW n, NEW p, NEW q \in Nat, NEW r \in 0..99, Split(n, p, q, r)
    PROVE  \A k \in Nat : Weight(k, n, p) = Share(k, q, r)
<1> SUFFICES ASSUME NEW k \in Nat PROVE Weight(k, n, p) = Share(k, q, r)
  OBVIOUS
<1>1. PICK off, d : off = Abs(p * (n - 1) - 100 * k) /\ d = 100 * q + r - 100 * k
  OBVIOUS
<1>2. d \in Int /\ off = IF d < 0 THEN -d ELSE d
  BY <1>1 DEF Abs, Split
<1>3. Weight(k, n, p) = IF off < 100 THEN 100 - off ELSE 0
  BY <1>1 DEF Weight
<1>4. QED
  BY <1>1, <1>2, <1>3 DEF Share

\* A percentile is the weighted sum of the values.
LEMMA Interpolated ==
    ASSUME NEW f, DOMAIN f \in SUBSET Int, IsFiniteSet(DOMAIN f), DOMAIN f # {},
           \A i \in DOMAIN f : f[i] \in Int,
           NEW n, n = Cardinality(DOMAIN f), NEW p \in 0..100, NEW S, S = DOMAIN f
    PROVE  SumFunctionOnSet([i \in S |-> Weight(Place(f, i), n, p) * f[i]], S) = Point(f, n, p)
<1>1. n \in Nat /\ n > 0 /\ FoundBetween(f, n, p)
  BY Neighbours
<1>2. PICK a \in DOMAIN f, b \in DOMAIN f, q \in Nat, r \in 0..99 :
         Between(f, n, p, a, b, q, r)
  BY <1>1 DEF FoundBetween
<1>3. PICK g : g = [i \in S |-> Weight(Place(f, i), n, p) * f[i]]
  OBVIOUS
<1>4. PICK w : w = [i \in S |-> Weight(Place(f, i), n, p)]
  OBVIOUS
<1>5. /\ \A i \in S : Place(f, i) \in Nat
      /\ \A i \in S : \A j \in S : Place(f, i) = Place(f, j) => i = j
  <2>1. /\ \A i \in S : Place(f, i) \in 0..(n - 1)
        /\ \A i \in S : \A j \in S : Place(f, i) = Place(f, j) => i = j
    BY <1>3, PlacesInOrder
  <2>2. QED
    BY <1>1, <2>1
<1>6. ASSUME NEW i \in S
      PROVE  /\ w[i] \in Nat
             /\ w[i] = IF Place(f, i) = q THEN 100 - r ELSE IF Place(f, i) = q + 1 THEN r ELSE 0
             /\ g[i] = w[i] * f[i] /\ f[i] \in Int
  <2>1. PICK k \in Nat : k = Place(f, i)
    BY <1>5
  <2>2. Weight(k, n, p) = Share(k, q, r)
    <3>1. Split(n, p, q, r)
      BY <1>2 DEF Between
    <3>2. QED
      BY <3>1, Weights
  <2>3. QED
    BY <1>3, <1>4, <2>1, <2>2 DEF Share
<1>7. \A i \in S : g[i] \in Int
  <2>1. \A x \in Nat : \A y \in Int : x * y \in Int
    OBVIOUS
  <2>2. QED
    BY <1>6, <2>1
<1>8. \A i \in S : w[i] = 0 => g[i] = 0
  <2>1. \A y \in Int : 0 * y = 0
    OBVIOUS
  <2>2. QED
    BY <1>6, <2>1
<1>9. IsFiniteSet(S)
  BY <1>3
<1>10. CASE r = 0
  <2>1. Place(f, a) = q /\ Place(f, b) = q /\ a \in S /\ b \in S
    BY <1>2, <1>3, <1>10 DEF Between
  <2>2. a = b
    BY <1>5, <2>1
  <2>3. \A i \in S \ {a} : w[i] = 0
    BY <1>5, <1>6, <1>10, <2>1
  <2>4. \A i \in S \ {a} : g[i] = 0
    BY <1>8, <2>3
  <2>5. {a} \in SUBSET S
    BY <2>1
  <2>6. SumFunctionOnSet(g, S) = SumFunctionOnSet(g, {a})
    BY <1>7, <1>9, <2>4, <2>5, SumSelected
  <2>7. SumFunctionOnSet(g, {a}) = g[a]
    BY <1>7, <2>1, SumOfOne
  <2>8. w[a] = 100 - r /\ g[a] = w[a] * f[a] /\ f[a] \in Int
    BY <1>6, <2>1
  <2>9. g[a] = 100 * f[a] /\ Point(f, n, p) = 100 * f[a]
    BY <1>2, <1>10, <2>2, <2>8 DEF Between
  <2>10. QED
    BY <1>3, <2>6, <2>7, <2>9
<1>11. CASE r # 0
  <2>1. Place(f, a) = q /\ Place(f, b) = q + 1 /\ a \in S /\ b \in S
    BY <1>2, <1>3, <1>11 DEF Between
  <2>2. a # b
    BY <2>1
  <2>3. \A i \in S \ {a, b} : w[i] = 0
    <3>1. \A i \in S \ {a, b} : Place(f, i) # q /\ Place(f, i) # q + 1
      BY <1>5, <2>1
    <3>2. QED
      BY <1>6, <3>1
  <2>4. \A i \in S \ {a, b} : g[i] = 0
    BY <1>8, <2>3
  <2>5. {a, b} \in SUBSET S
    BY <2>1
  <2>6. SumFunctionOnSet(g, S) = SumFunctionOnSet(g, {a, b})
    BY <1>7, <1>9, <2>4, <2>5, SumSelected
  <2>7. SumFunctionOnSet(g, {a, b}) = g[a] + g[b]
    <3>1. g[a] \in Int
      BY <1>7, <2>1
    <3>2. g[b] \in Int
      BY <1>7, <2>1
    <3>3. QED
      BY <2>2, <3>1, <3>2, SumOfTwo
  <2>8. g[a] = (100 - r) * f[a] /\ g[b] = r * f[b] /\ f[a] \in Int /\ f[b] \in Int
    <3>1. w[a] = 100 - r /\ g[a] = w[a] * f[a] /\ f[a] \in Int
      BY <1>6, <2>1
    <3>2. w[b] = r /\ g[b] = w[b] * f[b] /\ f[b] \in Int
      <4>1. q # q + 1
        OBVIOUS
      <4>2. QED
        BY <1>6, <2>1, <4>1
    <3>3. QED
      BY <3>1, <3>2
  <2>9. \A x \in Int : \A y \in Int : (100 - r) * x + r * y = 100 * x + (y - x) * r
    OBVIOUS
  <2>10. QED
    BY <1>2, <1>3, <2>6, <2>7, <2>8, <2>9 DEF Between
<1>12. QED
  BY <1>10, <1>11

\* Percentiles lie between values that occur, and grow with p.
LEMMA PercentilesOrdered ==
    ASSUME NEW f, DOMAIN f \in SUBSET Int, IsFiniteSet(DOMAIN f), DOMAIN f # {},
           \A i \in DOMAIN f : f[i] \in Int,
           NEW n, n = Cardinality(DOMAIN f)
    PROVE  /\ Point(f, n, 50) <= Point(f, n, 95)
           /\ \E i \in DOMAIN f : 100 * f[i] <= Point(f, n, 50)
           /\ \E i \in DOMAIN f : Point(f, n, 95) <= 100 * f[i]
<1>1. n \in Nat /\ n > 0 /\ FoundBetween(f, n, 50) /\ FoundBetween(f, n, 95)
  BY Neighbours
<1>2. PICK a \in DOMAIN f, b \in DOMAIN f, q \in Nat, r \in 0..99 :
         Between(f, n, 50, a, b, q, r)
  BY <1>1 DEF FoundBetween
<1>3. PICK c \in DOMAIN f, d \in DOMAIN f, s \in Nat, t \in 0..99 :
         Between(f, n, 95, c, d, s, t)
  BY <1>1 DEF FoundBetween
<1>4. /\ \A i, j \in DOMAIN f : Place(f, i) <= Place(f, j) => f[i] <= f[j]
      /\ \A i, j \in DOMAIN f : Place(f, i) = Place(f, j) => i = j
  BY PlacesInOrder
<1>5. PICK fa \in Int, fb \in Int, fc \in Int, fd \in Int :
         fa = f[a] /\ fb = f[b] /\ fc = f[c] /\ fd = f[d]
  OBVIOUS
<1>6. fa <= fb /\ fc <= fd
  <2>1. Place(f, a) <= Place(f, b) /\ Place(f, c) <= Place(f, d)
    BY <1>2, <1>3 DEF Between
  <2>2. QED
    BY <1>4, <1>5, <2>1
<1>7. \A x \in Int, y \in Int : \A z \in 0..99 :
         x <= y => 100 * x <= 100 * x + (y - x) * z /\ 100 * x + (y - x) * z <= 100 * y
  <2>1. ASSUME NEW x \in Int, NEW y \in Int, NEW z \in 0..99, x <= y
        PROVE  100 * x <= 100 * x + (y - x) * z /\ 100 * x + (y - x) * z <= 100 * y
    <3>1. PICK e \in Nat : e = y - x
      BY <2>1
    <3>2. PICK m \in Nat : m = 100 - z
      OBVIOUS
    <3>3. e * z \in Nat /\ e * m \in Nat
      OBVIOUS
    <3>4. e * m = 100 * e - e * z
      BY <3>2
    <3>5. QED
      BY <3>1, <3>3, <3>4
  <2>2. QED
    BY <2>1
<1>8. /\ 100 * fa <= Point(f, n, 50) /\ Point(f, n, 50) <= 100 * fb
      /\ 100 * fc <= Point(f, n, 95) /\ Point(f, n, 95) <= 100 * fd
      /\ Point(f, n, 50) \in Int /\ Point(f, n, 95) \in Int
  <2>1. /\ 100 * fa <= 100 * fa + (fb - fa) * r /\ 100 * fa + (fb - fa) * r <= 100 * fb
        /\ 100 * fc <= 100 * fc + (fd - fc) * t /\ 100 * fc + (fd - fc) * t <= 100 * fd
    BY <1>6, <1>7
  <2>2. 100 * fa + (fb - fa) * r \in Int /\ 100 * fc + (fd - fc) * t \in Int
    OBVIOUS
  <2>3. /\ Point(f, n, 50) = 100 * fa + (fb - fa) * r
        /\ Point(f, n, 95) = 100 * fc + (fd - fc) * t
    BY <1>2, <1>3, <1>5 DEF Between
  <2>4. QED
    BY <2>1, <2>2, <2>3
<1>9. 100 * q + r <= 100 * s + t
  BY <1>1, <1>2, <1>3 DEF Between, Split
<1>10. CASE s > q \/ r = 0
  <2>1. Place(f, b) <= Place(f, c)
    BY <1>2, <1>3, <1>9, <1>10 DEF Between
  <2>2. fb <= fc
    BY <1>4, <1>5, <2>1
  <2>3. QED
    BY <1>5, <1>8, <2>2
<1>11. CASE ~(s > q \/ r = 0)
  <2>1. s = q /\ r <= t /\ t # 0
    BY <1>9, <1>11
  <2>2. Place(f, a) = Place(f, c) /\ Place(f, b) = Place(f, d)
    BY <1>2, <1>3, <1>11, <2>1 DEF Between
  <2>3. a = c /\ b = d
    BY <1>4, <2>2
  <2>4. PICK e \in Nat : e = fb - fa
    BY <1>6
  <2>5. PICK m \in Nat : t = r + m
    BY <2>1
  <2>6. e * m \in Nat /\ e * t = e * r + e * m
    BY <2>5
  <2>7. e * r <= e * t
    BY <2>6
  <2>8. Point(f, n, 50) = 100 * fa + e * r /\ Point(f, n, 95) = 100 * fa + e * t
    BY <1>2, <1>3, <1>5, <2>3, <2>4 DEF Between
  <2>9. QED
    BY <1>5, <1>8, <2>7, <2>8
<1>12. QED
  BY <1>5, <1>8, <1>10, <1>11

LEMMA PercentilesShown == Unset /\ ReportInv => PercentilesInterpolate
<1> SUFFICES ASSUME Unset, ReportInv, Made PROVE PercentilesInterpolate
  BY DEF PercentilesInterpolate
<1> DEFINE rows == Loaded
<1>1. Normalized(rows) /\ markdown.routes = RouteAggregates(rows)
  BY Shown
<1>3. ASSUME NEW route \in DOMAIN markdown.routes
      PROVE  LET mine == {i \in DOMAIN rows : rows[i].route = route}
                 latency == [i \in mine |-> rows[i].latency_ms]
                 Line(p) == SumFunctionOnSet(
                     [i \in mine |-> Weight(Place(latency, i), Cardinality(mine), p) * latency[i]],
                     mine)
                 metrics == markdown.routes[route]
             IN  /\ metrics.latency_p50_ms = Line(50)
                 /\ metrics.latency_p95_ms = Line(95)
                 /\ metrics.latency_p50_ms <= metrics.latency_p95_ms
                 /\ \E i \in mine : 100 * latency[i] <= metrics.latency_p50_ms
                 /\ \E i \in mine : metrics.latency_p95_ms <= 100 * latency[i]
  <2>1. PICK mine, f, n : /\ mine = {i \in DOMAIN rows : rows[i].route = route}
                          /\ f = [i \in mine |-> rows[i].latency_ms]
                          /\ n = Cardinality(mine)
    OBVIOUS
  <2>2. mine = Mine(rows, route) /\ f = Latencies(rows, mine) /\ DOMAIN f = mine
    BY <2>1 DEF Mine, Latencies
  <2>3. markdown.routes[route] = Figures(rows, mine) /\ route \in RoutesIn(rows)
    BY <1>1, <1>3, <2>2, TableOf
  <2>4. mine # {}
    BY <2>1, <2>3 DEF RoutesIn
  <2>5. IsFiniteSet(mine) /\ mine \in SUBSET Int /\ \A i \in mine : f[i] \in Int
    <3>1. mine \subseteq DOMAIN rows
      BY <2>1
    <3>2. IsFiniteSet(mine)
      BY <1>1, <3>1, FiguresKept
    <3>3. DOMAIN rows \subseteq Int /\ \A i \in mine : rows[i].latency_ms \in Int
      BY <1>1, <3>1 DEF Normalized
    <3>4. QED
      BY <2>1, <3>1, <3>2, <3>3
  <2>6. ASSUME NEW p \in 0..100
        PROVE  SumFunctionOnSet([i \in mine |-> Weight(Place(f, i), n, p) * f[i]], mine)
                 = Point(f, n, p)
    <3>1. n = Cardinality(DOMAIN f) /\ mine = DOMAIN f
      BY <2>1, <2>2
    <3>2. DOMAIN f \in SUBSET Int /\ IsFiniteSet(DOMAIN f) /\ DOMAIN f # {}
      BY <2>2, <2>4, <2>5
    <3>3. \A i \in DOMAIN f : f[i] \in Int
      BY <2>2, <2>5
    <3>4. QED
      BY <3>1, <3>2, <3>3, Interpolated
  <2>7. /\ Point(f, n, 50) <= Point(f, n, 95)
        /\ \E i \in mine : 100 * f[i] <= Point(f, n, 50)
        /\ \E i \in mine : Point(f, n, 95) <= 100 * f[i]
    BY <2>1, <2>2, <2>4, <2>5, PercentilesOrdered
  <2>8. PICK metrics : metrics = markdown.routes[route]
    OBVIOUS
  <2>9. metrics.latency_p50_ms = Point(f, n, 50) /\ metrics.latency_p95_ms = Point(f, n, 95)
    <3>1. /\ Figures(rows, mine).latency_p50_ms = Point(Latencies(rows, mine), Cardinality(mine), 50)
          /\ Figures(rows, mine).latency_p95_ms = Point(Latencies(rows, mine), Cardinality(mine), 95)
      BY DEF Figures
    <3>2. QED
      BY <2>1, <2>2, <2>3, <2>8, <3>1
  <2>10. /\ metrics.latency_p50_ms
              = SumFunctionOnSet([i \in mine |-> Weight(Place(f, i), n, 50) * f[i]], mine)
         /\ metrics.latency_p95_ms
              = SumFunctionOnSet([i \in mine |-> Weight(Place(f, i), n, 95) * f[i]], mine)
    <3>1. 50 \in 0..100 /\ 95 \in 0..100
      OBVIOUS
    <3>2. QED
      BY <2>6, <2>9, <3>1
  <2>11. /\ metrics.latency_p50_ms <= metrics.latency_p95_ms
         /\ \E i \in mine : 100 * f[i] <= metrics.latency_p50_ms
         /\ \E i \in mine : metrics.latency_p95_ms <= 100 * f[i]
    BY <2>7, <2>9
  <2>12. n = Cardinality(mine)
    BY <2>1
  <2>13. QED
    BY <2>1, <2>8, <2>10, <2>11, <2>12, ZenonT(60)
<1>4. QED
  BY <1>3 DEF PercentilesInterpolate

(***************************************************************************)
(* Rankings.                                                               *)
(***************************************************************************)

\* The keys of a list of routes, so that the largest comes first.
Downward(routes, key) == [i \in DOMAIN routes |-> -key[routes[i]]]

\* max() and the first of sorted() are the same route, and none has a larger key.
LEMMA LargestIs ==
    ASSUME NEW routes, NEW n \in Nat, n > 0, DOMAIN routes = 1..n, NEW key,
           \A i \in DOMAIN routes : key[routes[i]] \in Int
    PROVE  /\ FirstLargest(routes, key) \in Range(routes)
           /\ FirstLargest(routes, key) = Ranked(routes, key)[1]
           /\ \A r \in Range(routes) : key[r] <= key[FirstLargest(routes, key)]
<1>1. PICK S, f : S = 1..n /\ f = Downward(routes, key)
  OBVIOUS
<1>2. DOMAIN f = S /\ DOMAIN routes = S /\ S \in SUBSET Int /\ 1 \in S
  BY <1>1 DEF Downward
<1>3. IsFiniteSet(S) /\ Cardinality(S) = n
  <2>1. 1 \in Int /\ n \in Int
    OBVIOUS
  <2>2. IsFiniteSet(1..n) /\ Cardinality(1..n) = IF 1 > n THEN 0 ELSE n - 1 + 1
    BY <2>1, FS_Interval
  <2>3. QED
    BY <1>1, <2>2
<1>4. \A i \in S : f[i] \in Int /\ f[i] = -key[routes[i]] /\ key[routes[i]] \in Int
  BY <1>1, <1>2 DEF Downward
<1>5. /\ \A i, j \in S : Place(f, i) = Place(f, j) => i = j
      /\ \E i \in S : Place(f, i) = 0
  <2>1. /\ \A i, j \in S : Place(f, i) = Place(f, j) => i = j
        /\ \A k \in 0..(n - 1) : \E i \in S : Place(f, i) = k
    BY <1>2, <1>3, <1>4, PlacesInOrder
  <2>2. 0 \in 0..(n - 1)
    OBVIOUS
  <2>3. QED
    BY <2>1, <2>2
<1>6. PICK best \in S : Place(f, best) = 0
  BY <1>5
<1> DEFINE Leads(i) == /\ \A j \in DOMAIN routes : key[routes[j]] <= key[routes[i]]
                       /\ \A j \in 1..(i - 1) : key[routes[j]] < key[routes[i]]
           Before(j, i) == \/ key[routes[j]] > key[routes[i]]
                           \/ key[routes[j]] = key[routes[i]] /\ j < i
           First(i) == Cardinality({j \in DOMAIN routes : Before(j, i)}) + 1 = 1
<1>7. \A i \in S : AheadOf(f, i) = {j \in DOMAIN routes : Before(j, i)}
  <2>1. \A i \in S : \A j \in S : Ahead(f, j, i) <=> Before(j, i)
    BY <1>4 DEF Ahead
  <2>2. QED
    BY <1>2, <2>1 DEF AheadOf
<1>8. \A i \in S : Place(f, i) \in Nat /\ (Place(f, i) = 0 <=> AheadOf(f, i) = {})
  <2>1. ASSUME NEW i \in S PROVE Place(f, i) \in Nat /\ (Place(f, i) = 0 <=> AheadOf(f, i) = {})
    <3>1. PICK A : A = AheadOf(f, i)
      OBVIOUS
    <3>2. A \in SUBSET S
      BY <1>2, <3>1 DEF AheadOf
    <3>3. IsFiniteSet(A)
      BY <1>3, <3>2, FS_Subset
    <3>4. Cardinality(A) \in Nat /\ (Cardinality(A) = 0 <=> A = {})
      BY <3>3, FS_CardinalityType, FS_EmptySet
    <3>5. QED
      BY <3>1, <3>4, PlaceIs
  <2>2. QED
    BY <2>1
<1>9. \A i \in S : First(i) <=> Place(f, i) = 0
  <2>1. ASSUME NEW i \in S PROVE First(i) <=> Place(f, i) = 0
    <3>1. Place(f, i) = Cardinality({j \in DOMAIN routes : Before(j, i)})
      BY <1>7, PlaceIs
    <3>2. PICK c \in Nat : c = Place(f, i)
      BY <1>8
    <3>3. c + 1 = 1 <=> c = 0
      OBVIOUS
    <3> HIDE DEF Before
    <3>4. QED
      BY <3>1, <3>2, <3>3
  <2>2. QED
    BY <2>1
<1>10. \A i \in S : Leads(i) <=> Place(f, i) = 0
  <2>1. ASSUME NEW i \in S PROVE Leads(i) <=> \A j \in S : ~Before(j, i)
    <3>1. \A j \in S : key[routes[j]] \in Int
      BY <1>4
    <3>2. \A j \in 1..(i - 1) : j \in S /\ j < i
      BY <1>1, <2>1
    <3>3. \A j \in S : j < i => j \in 1..(i - 1)
      BY <1>1, <2>1
    <3>4. ASSUME Leads(i), NEW j \in S PROVE ~Before(j, i)
      BY <1>2, <2>1, <3>1, <3>3, <3>4
    <3>5. ASSUME \A j \in S : ~Before(j, i) PROVE Leads(i)
      BY <1>2, <2>1, <3>1, <3>2, <3>5
    <3>6. QED
      BY <3>4, <3>5
  <2>2. \A i \in S : (\A j \in S : ~Before(j, i)) <=> AheadOf(f, i) = {}
    <3>1. \A i \in S : AheadOf(f, i) = {j \in S : Before(j, i)}
      BY <1>2, <1>7
    <3> HIDE DEF Before
    <3>2. QED
      BY <3>1
  <2> HIDE DEF Leads, Before
  <2>3. QED
    BY <1>8, <2>1, <2>2
<1>11. FirstLargest(routes, key) = routes[best] /\ Leads(best)
  <2>1. FirstLargest(routes, key) = routes[CHOOSE i \in S : Leads(i)]
    BY <1>2 DEF FirstLargest
  <2> HIDE DEF Leads
  <2>2. \A i \in S : Leads(i) <=> i = best
    BY <1>5, <1>6, <1>10
  <2>3. (CHOOSE i \in S : Leads(i)) = best
    BY <2>2
  <2>4. QED
    BY <2>1, <2>2, <2>3
<1>12. Ranked(routes, key)[1] = routes[best]
  <2>1. Ranked(routes, key)[1] = routes[CHOOSE i \in S : First(i)]
    BY <1>2 DEF Ranked
  <2> HIDE DEF First
  <2>2. \A i \in S : First(i) <=> i = best
    BY <1>5, <1>6, <1>9
  <2>3. (CHOOSE i \in S : First(i)) = best
    BY <2>2
  <2>4. QED
    BY <2>1, <2>3
<1>13. QED
  BY <1>2, <1>11, <1>12 DEF Range

\* The routes are ranked by numbers.
LEMMA KeysAre ==
    ASSUME NEW rows, Normalized(rows),
           NEW field \in {"estimated_total_cost_usd", "error_count"}
    PROVE  /\ DOMAIN KeyOf(RouteAggregates(rows), field) = RoutesIn(rows)
           /\ \A r \in RoutesIn(rows) :
                /\ RouteAggregates(rows)[r][field] \in Int
                /\ KeyOf(RouteAggregates(rows), field)[r] = RouteAggregates(rows)[r][field]
<1>1. PICK table, P : table = RouteAggregates(rows) /\ P = RoutesIn(rows)
  OBVIOUS
<1>2. DOMAIN table = P /\ \A r \in P : table[r] = Figures(rows, Mine(rows, r))
  BY <1>1, TableOf
<1>3. PICK parts : parts = [r \in P |-> table[r][field]]
  OBVIOUS
<1>4. \A r \in P : parts[r] = Figures(rows, Mine(rows, r))[field]
  BY <1>2, <1>3
<1>5. IsFiniteSet(P) /\ RoutesIn(rows) \subseteq P
  BY <1>1, FewRoutes
<1>6. field \in {"request_count", "estimated_total_cost_usd", "error_count",
                 "unknown_error_count"}
  OBVIOUS
<1>7. \A r \in P : parts[r] \in Int
  BY <1>4, <1>5, <1>6, RoutesAccount
<1>8. KeyOf(table, field) = parts
  BY <1>2, <1>3 DEF KeyOf
<1>9. QED
  BY <1>1, <1>3, <1>7, <1>8

\* The route the report names first.
LEMMA Leader ==
    ASSUME NEW rows, Normalized(rows), rows # <<>>,
           NEW field \in {"estimated_total_cost_usd", "error_count"},
           NEW leader, leader = FirstLargest(RouteOrder(rows), KeyOf(RouteAggregates(rows), field))
    PROVE  /\ leader \in RoutesIn(rows)
           /\ leader = Ranked(RouteOrder(rows), KeyOf(RouteAggregates(rows), field))[1]
           /\ \A r \in RoutesIn(rows) :
                /\ RouteAggregates(rows)[r][field] \in Int
                /\ RouteAggregates(rows)[r][field] <= RouteAggregates(rows)[leader][field]
<1>1. PICK order, key, n : /\ order = RouteOrder(rows) /\ n = Len(order)
                           /\ key = KeyOf(RouteAggregates(rows), field)
  OBVIOUS
<1>2. /\ n \in Nat /\ DOMAIN order = 1..n /\ Range(order) = RoutesIn(rows) /\ order # <<>>
  BY <1>1, RoutesOf
<1>3. \A r \in RoutesIn(rows) : /\ RouteAggregates(rows)[r][field] \in Int
                                /\ key[r] = RouteAggregates(rows)[r][field]
  BY <1>1, KeysAre
<1>4. n > 0
  <2>1. DOMAIN rows # {}
    <3>1. DOMAIN rows = {} => rows = <<>>
      BY DEF Normalized
    <3>2. QED
      BY <3>1
  <2>2. Range(order) # {}
    BY <1>2, <2>1 DEF RoutesIn
  <2>3. DOMAIN order # {}
    BY <2>2 DEF Range
  <2>4. QED
    BY <1>2, <2>3
<1>5. \A i \in DOMAIN order : key[order[i]] \in Int
  BY <1>2, <1>3 DEF Range
<1>6. /\ FirstLargest(order, key) \in Range(order)
      /\ FirstLargest(order, key) = Ranked(order, key)[1]
      /\ \A r \in Range(order) : key[r] <= key[FirstLargest(order, key)]
  BY <1>2, <1>4, <1>5, LargestIs
<1>7. leader = FirstLargest(order, key)
  BY <1>1
<1>8. QED
  BY <1>1, <1>2, <1>3, <1>6, <1>7

(***************************************************************************)
(* The order of the rows.                                                  *)
(***************************************************************************)

\* Rows in any other order, not only with two of them swapped, have the same
\* figures, overall and by route (aggregate_metrics, build_route_aggregates).
THEOREM SameFigures ==
    ASSUME NEW rows, Normalized(rows), NEW others, Normalized(others), NEW h,
           OneToOne(h, DOMAIN rows, DOMAIN others),
           \A i \in DOMAIN rows : rows[i] = others[h[i]]
    PROVE  /\ AggregateMetrics(rows) = AggregateMetrics(others)
           /\ RouteAggregates(rows) = RouteAggregates(others)
           /\ RoutesIn(rows) = RoutesIn(others)
<1>1. ASSUME NEW S, NEW T, S \subseteq DOMAIN rows, T \subseteq DOMAIN others, OneToOne(h, S, T)
      PROVE  Figures(rows, S) = Figures(others, T)
  <2>1. IsFiniteSet(S)
    BY <1>1, FiguresKept
  <2>2. \A i \in S : rows[i].estimated_cost_usd \in Int /\ rows[i] = others[h[i]]
    BY <1>1 DEF Normalized
  <2>3. QED
    BY <1>1, <2>1, <2>2, FiguresAlong
<1>2. AggregateMetrics(rows) = AggregateMetrics(others)
  <2>1. /\ AggregateMetrics(rows) = Figures(rows, DOMAIN rows)
        /\ AggregateMetrics(others) = Figures(others, DOMAIN others)
    BY FiguresOfList
  <2>2. QED
    BY <1>1, <2>1
<1>3. RoutesIn(rows) = RoutesIn(others)
  BY DEF RoutesIn, OneToOne
<1>4. \A r : Figures(rows, Mine(rows, r)) = Figures(others, Mine(others, r))
  <2>1. ASSUME NEW r PROVE Figures(rows, Mine(rows, r)) = Figures(others, Mine(others, r))
    <3>1. PICK S, T : S = Mine(rows, r) /\ T = Mine(others, r)
      OBVIOUS
    <3>2. S \subseteq DOMAIN rows /\ T \subseteq DOMAIN others
      BY <3>1 DEF Mine
    <3>3. OneToOne(h, S, T)
      BY <3>1 DEF OneToOne, Mine
    <3>4. Figures(rows, S) = Figures(others, T)
      BY <1>1, <3>2, <3>3
    <3>5. QED
      BY <3>1, <3>4
  <2>2. QED
    BY <2>1
<1>5. RouteAggregates(rows) = RouteAggregates(others)
  <2>1. PICK t, u, P : /\ t = RouteAggregates(rows) /\ u = RouteAggregates(others)
                       /\ P = RoutesIn(rows)
    OBVIOUS
  <2>2. DOMAIN t = P /\ DOMAIN u = P
    BY <1>3, <2>1, TableOf
  <2>3. t = [r \in DOMAIN t |-> t[r]] /\ u = [r \in DOMAIN u |-> u[r]]
    BY <2>1 DEF RouteAggregates
  <2>4. \A r \in P : t[r] = u[r]
    BY <1>4, <2>1, <2>2, TableOf
  <2>5. t = u
    BY <2>2, <2>3, <2>4
  <2>6. QED
    BY <2>1, <2>5
<1>6. QED
  BY <1>2, <1>3, <1>5

LEMMA SwappedRows ==
    ASSUME NEW rows, Normalized(rows), NEW i \in DOMAIN rows, NEW j \in DOMAIN rows, i # j
    PROVE  /\ Normalized(Swapped(rows, i, j))
           /\ Swapped(rows, i, j) # <<>> /\ rows # <<>>
           /\ \E h : /\ OneToOne(h, DOMAIN rows, DOMAIN Swapped(rows, i, j))
                     /\ \A k \in DOMAIN rows : rows[k] = Swapped(rows, i, j)[h[k]]
<1>1. PICK again, n : again = Swapped(rows, i, j) /\ n = Len(rows)
  OBVIOUS
<1>2. n \in Nat /\ DOMAIN rows = 1..n
  BY <1>1 DEF Normalized
<1>3. again = [k \in 1..n |-> IF k = j THEN rows[i] ELSE IF k = i THEN rows[j] ELSE rows[k]]
  BY <1>1, <1>2 DEF Swapped
<1>4. DOMAIN again = 1..n /\ Len(again) = n
  BY <1>2, <1>3
<1>5. Normalized(again)
  <2>1. again = [k \in 1..n |-> again[k]]
    BY <1>3
  <2>2. \A k \in 1..n : \E m \in 1..n : again[k] = rows[m]
    BY <1>2, <1>3
  <2>3. \A m \in 1..n : /\ rows[m].latency_ms \in Nat /\ rows[m].estimated_cost_usd \in Nat
                        /\ rows[m].route \in Range(Sorted)
    BY <1>2 DEF Normalized
  <2>4. \A k \in 1..n : /\ again[k].latency_ms \in Nat /\ again[k].estimated_cost_usd \in Nat
                        /\ again[k].route \in Range(Sorted)
    BY <2>2, <2>3
  <2>5. QED
    BY <1>2, <1>4, <2>1, <2>4 DEF Normalized
<1>6. PICK h : h = [k \in 1..n |-> IF k = i THEN j ELSE IF k = j THEN i ELSE k]
  OBVIOUS
<1>7. OneToOne(h, 1..n, 1..n)
  <2>1. \A k \in 1..n : h[k] \in 1..n /\ h[h[k]] = k
    BY <1>2, <1>6
  <2>2. QED
    BY <2>1 DEF OneToOne
<1>8. \A k \in 1..n : rows[k] = again[h[k]]
  BY <1>2, <1>3, <1>6
<1>9. again # <<>> /\ rows # <<>>
  <2>1. DOMAIN again # {} /\ DOMAIN rows # {}
    BY <1>2, <1>4
  <2>2. QED
    BY <2>1
<1>10. QED
  BY <1>1, <1>2, <1>4, <1>5, <1>7, <1>8, <1>9

LEMMA OrderShown == Unset /\ ReportInv => OrderIrrelevant
<1> SUFFICES ASSUME Unset, ReportInv, Made PROVE OrderIrrelevant
  BY DEF OrderIrrelevant
<1> DEFINE rows == Loaded
           table == RouteAggregates(rows)
           past == LoadTelemetry(before).rows
<1>1. /\ Normalized(rows) /\ markdown.routes = table
      /\ markdown.overall = AggregateMetrics(rows)
      /\ rows # <<>> => markdown.headline = [cost |-> HighestCostRoute(RouteOrder(rows), table),
                                             error |-> HighestErrorRoute(RouteOrder(rows), table)]
      /\ before # Absent => markdown.delta = DeltaTable(RouteAggregates(past), table)
  BY Shown
<1> HIDE DEF rows, table, past
<1>2. table = RouteAggregates(rows)
  BY DEF table
<1>3. ASSUME NEW i \in DOMAIN rows, NEW j \in DOMAIN rows, i < j
      PROVE  LET again == Swapped(rows, i, j)
                 order == RouteOrder(again)
                 by_route == RouteAggregates(again)
             IN  /\ AggregateMetrics(again) = markdown.overall
                 /\ by_route = markdown.routes
                 /\ before # Absent =>
                      DeltaTable(RouteAggregates(past), by_route) = markdown.delta
                 /\ by_route[HighestCostRoute(order, by_route)]["estimated_total_cost_usd"]
                      = markdown.routes[markdown.headline.cost]["estimated_total_cost_usd"]
                 /\ by_route[HighestErrorRoute(order, by_route)]["error_count"]
                      = markdown.routes[markdown.headline.error]["error_count"]
  <2>1. PICK again, order, by_route : /\ again = Swapped(rows, i, j)
                                      /\ order = RouteOrder(again)
                                      /\ by_route = RouteAggregates(again)
    OBVIOUS
  <2>2. i # j
    BY <1>1, <1>3 DEF Normalized
  <2>3. Normalized(again) /\ again # <<>> /\ rows # <<>>
    BY <1>1, <2>1, <2>2, SwappedRows
  <2>4. PICK h : OneToOne(h, DOMAIN rows, DOMAIN again) /\ \A k \in DOMAIN rows : rows[k] = again[h[k]]
    BY <1>1, <2>1, <2>2, SwappedRows
  <2>5. /\ AggregateMetrics(again) = AggregateMetrics(rows)
        /\ by_route = table
        /\ RoutesIn(again) = RoutesIn(rows)
    BY <1>1, <1>2, <2>1, <2>3, <2>4, SameFigures
  <2>6. ASSUME NEW field \in {"estimated_total_cost_usd", "error_count"}, NEW x, NEW y,
               x = FirstLargest(order, KeyOf(by_route, field)),
               y = FirstLargest(RouteOrder(rows), KeyOf(table, field))
        PROVE  table[x][field] = table[y][field]
    <3>1. x \in RoutesIn(again) /\ \A r \in RoutesIn(again) :
             table[r][field] \in Int /\ table[r][field] <= table[x][field]
      <4>1. x = FirstLargest(RouteOrder(again), KeyOf(RouteAggregates(again), field))
        BY <2>1, <2>6
      <4>2. x \in RoutesIn(again) /\ \A r \in RoutesIn(again) :
               /\ RouteAggregates(again)[r][field] \in Int
               /\ RouteAggregates(again)[r][field] <= RouteAggregates(again)[x][field]
        BY <2>3, <4>1, Leader
      <4>3. QED
        BY <2>1, <2>5, <4>2
    <3>2. y \in RoutesIn(rows) /\ \A r \in RoutesIn(rows) :
             table[r][field] \in Int /\ table[r][field] <= table[y][field]
      BY <1>1, <1>2, <2>3, <2>6, Leader
    <3>3. table[x][field] <= table[y][field] /\ table[y][field] <= table[x][field]
      BY <2>5, <3>1, <3>2
    <3>4. table[x][field] \in Int /\ table[y][field] \in Int
      BY <3>1, <3>2
    <3>5. QED
      BY <3>3, <3>4
  <2>7. markdown.headline.cost = HighestCostRoute(RouteOrder(rows), table)
        /\ markdown.headline.error = HighestErrorRoute(RouteOrder(rows), table)
    BY <1>1, <2>3
  <2>8. by_route[HighestCostRoute(order, by_route)]["estimated_total_cost_usd"]
          = markdown.routes[markdown.headline.cost]["estimated_total_cost_usd"]
    <3>1. PICK x, y : /\ x = HighestCostRoute(order, by_route)
                      /\ y = HighestCostRoute(RouteOrder(rows), table)
      OBVIOUS
    <3>2. table[x]["estimated_total_cost_usd"] = table[y]["estimated_total_cost_usd"]
      BY <2>6, <3>1 DEF HighestCostRoute
    <3>3. QED
      BY <1>1, <2>5, <2>7, <3>1, <3>2
  <2>9. by_route[HighestErrorRoute(order, by_route)]["error_count"]
          = markdown.routes[markdown.headline.error]["error_count"]
    <3>1. PICK x, y : /\ x = HighestErrorRoute(order, by_route)
                      /\ y = HighestErrorRoute(RouteOrder(rows), table)
      OBVIOUS
    <3>2. table[x]["error_count"] = table[y]["error_count"]
      BY <2>6, <3>1 DEF HighestErrorRoute
    <3>3. QED
      BY <1>1, <2>5, <2>7, <3>1, <3>2
  <2>10. QED
    BY <1>1, <2>1, <2>5, <2>8, <2>9
<1>4. QED
  BY <1>3 DEF OrderIrrelevant, rows, past

(***************************************************************************)
(* The advice.                                                             *)
(***************************************************************************)

Item(advice, route) == [advice |-> advice, route |-> route]

\* The elements of two lists, one after the other, and of a list of one or none.
LEMMA RangeOfBoth ==
    ASSUME NEW X, NEW s \in Seq(X), NEW t \in Seq(X)
    PROVE  s \o t \in Seq(X) /\ Range(s \o t) = Range(s) \cup Range(t)
<1>1. PICK u, m, n : u = s \o t /\ m = Len(s) /\ n = Len(t)
  OBVIOUS
<1>2. /\ u \in Seq(X) /\ Len(u) = m + n
      /\ \A i \in 1..(m + n) : u[i] = IF i <= m THEN s[i] ELSE t[i - m]
  BY <1>1, ConcatProperties
<1>3. m \in Nat /\ n \in Nat /\ DOMAIN s = 1..m /\ DOMAIN t = 1..n /\ DOMAIN u = 1..(m + n)
  BY <1>1, <1>2, LenProperties
<1>4. \A i \in DOMAIN s : i \in DOMAIN u /\ u[i] = s[i]
  BY <1>2, <1>3
<1>5. \A i \in DOMAIN t : m + i \in DOMAIN u /\ u[m + i] = t[i]
  BY <1>2, <1>3
<1>6. \A i \in DOMAIN u : i \in DOMAIN s \/ (i - m \in DOMAIN t /\ u[i] = t[i - m])
  BY <1>2, <1>3
<1>7. Range(u) = Range(s) \cup Range(t)
  BY <1>4, <1>5, <1>6 DEF Range
<1>8. QED
  BY <1>1, <1>2, <1>7

LEMMA RangeOfFew ==
    /\ \A x : Range(<<x>>) = {x}
    /\ Range(<<>>) = {}
<1>1. ASSUME NEW x PROVE Range(<<x>>) = {x}
  <2>1. PICK s : s = <<x>>
    OBVIOUS
  <2>2. DOMAIN s = {1} /\ s[1] = x
    BY <2>1
  <2>3. QED
    BY <2>1, <2>2 DEF Range
<1>2. Range(<<>>) = {}
  <2>1. PICK s : s = <<>>
    OBVIOUS
  <2>2. DOMAIN s = {}
    BY <2>1
  <2>3. QED
    BY <2>1, <2>2 DEF Range
<1>3. QED
  BY <1>1, <1>2

\* A list of one element, or of none.
OneOrNone(t, x) == t = <<x>> \/ t = <<>>

LEMMA FewInside ==
    ASSUME NEW X, NEW x \in X, NEW t, OneOrNone(t, x)
    PROVE  t \in Seq(X)
<1>1. <<>> \in Seq(X)
  BY EmptySeq
<1>2. <<x>> \in Seq(X)
  OBVIOUS
<1>3. QED
  BY <1>1, <1>2 DEF OneOrNone

\* The routes named by pieces of advice of one kind.
Named(recommendations, advice) ==
    {recommendations[i].route :
        i \in {j \in DOMAIN recommendations : recommendations[j].advice = advice}}

LEMMA NamedIs ==
    \A list, advice : Named(list, advice) = {x.route : x \in {y \in Range(list) : y.advice = advice}}
BY DEF Named, Range

LEMMA NamedOnly ==
    ASSUME NEW list, NEW advice, NEW T, T \subseteq Range(list), NEW x, \A y \in T : y = x,
           \A y \in Range(list) : y.advice = advice <=> y \in T
    PROVE  \A r : r \in Named(list, advice) <=> x \in T /\ r = x.route
BY NamedIs

\* Each piece of advice is given on its condition.
GivenOn(list, rows, order, a, b, costly, failing, movement) ==
    /\ Named(list, "prioritize") = IF order # <<>> THEN {costly} ELSE {}
    /\ Named(list, "investigate")
         = IF order # <<>> /\ a[failing].error_count > 0 THEN {failing} ELSE {}
    /\ Named(list, "tighten taxonomy") = IF UnknownDominates(rows) THEN {Absent} ELSE {}
    /\ Named(list, "review")
         = IF b # Absent /\ order # <<>> /\ movement # Absent THEN {movement} ELSE {}

LEMMA Advised ==
    ASSUME NEW rows, NEW a, NEW malformed, NEW missing, NEW b,
           NEW list, list = Recommendations(rows, a, malformed, missing, b),
           NEW order, order = RouteOrder(rows),
           NEW costly, costly = HighestCostRoute(order, a),
           NEW failing, failing = HighestErrorRoute(order, a),
           NEW movement, movement = LargestMovement(b, a)
    PROVE  GivenOn(list, rows, order, a, b, costly, failing, movement)
<1>1. PICK t1, t2, t3, t4, t5, t6 :
         /\ t1 = Advise(order # <<>>, "prioritize", costly)
         /\ t2 = Advise(order # <<>> /\ a[failing].error_count > 0, "investigate", failing)
         /\ t3 = Advise(malformed > 0, "fix telemetry", Absent)
         /\ t4 = Advise(UnknownDominates(rows), "tighten taxonomy", Absent)
         /\ t5 = Advise(missing # {}, "coverage", Absent)
         /\ t6 = Advise(b # Absent /\ order # <<>> /\ movement # Absent, "review", movement)
  OBVIOUS
<1>2. PICK x1, x2, x3, x4, x5, x6 :
         /\ x1 = Item("prioritize", costly) /\ x2 = Item("investigate", failing)
         /\ x3 = Item("fix telemetry", Absent) /\ x4 = Item("tighten taxonomy", Absent)
         /\ x5 = Item("coverage", Absent) /\ x6 = Item("review", movement)
  OBVIOUS
<1>3. /\ t1 = IF order # <<>> THEN <<x1>> ELSE <<>>
      /\ t2 = IF order # <<>> /\ a[failing].error_count > 0 THEN <<x2>> ELSE <<>>
      /\ t4 = IF UnknownDominates(rows) THEN <<x4>> ELSE <<>>
      /\ t6 = IF b # Absent /\ order # <<>> /\ movement # Absent THEN <<x6>> ELSE <<>>
  BY <1>1, <1>2 DEF Advise, Item
<1>4. t3 = <<x3>> \/ t3 = <<>>
  BY <1>1, <1>2 DEF Advise, Item
<1>5. t5 = <<x5>> \/ t5 = <<>>
  BY <1>1, <1>2 DEF Advise, Item
<1>6. /\ OneOrNone(t1, x1) /\ OneOrNone(t2, x2) /\ OneOrNone(t3, x3)
      /\ OneOrNone(t4, x4) /\ OneOrNone(t5, x5) /\ OneOrNone(t6, x6)
  BY <1>3, <1>4, <1>5 DEF OneOrNone
<1>7. PICK X : x1 \in X /\ x2 \in X /\ x3 \in X /\ x4 \in X /\ x5 \in X /\ x6 \in X
  <2>1. PICK Y : Y = {x1, x2, x3, x4, x5, x6}
    OBVIOUS
  <2>2. x1 \in Y /\ x2 \in Y /\ x3 \in Y /\ x4 \in Y /\ x5 \in Y /\ x6 \in Y
    BY <2>1
  <2>3. QED
    BY <2>2
<1>8. /\ t1 \in Seq(X) /\ t2 \in Seq(X) /\ t3 \in Seq(X)
      /\ t4 \in Seq(X) /\ t5 \in Seq(X) /\ t6 \in Seq(X)
  BY <1>6, <1>7, FewInside
<1>9. PICK s2, s3, s4, s5, s6 : /\ s2 = t1 \o t2 /\ s3 = s2 \o t3 /\ s4 = s3 \o t4
                                /\ s5 = s4 \o t5 /\ s6 = s5 \o t6
  OBVIOUS
<1>10. Range(s6) = Range(t1) \cup Range(t2) \cup Range(t3) \cup Range(t4) \cup Range(t5) \cup Range(t6)
  <2>1. s2 \in Seq(X) /\ Range(s2) = Range(t1) \cup Range(t2)
    BY <1>8, <1>9, RangeOfBoth
  <2>2. s3 \in Seq(X) /\ Range(s3) = Range(s2) \cup Range(t3)
    <3>1. s2 \o t3 \in Seq(X) /\ Range(s2 \o t3) = Range(s2) \cup Range(t3)
      BY <1>8, <2>1, RangeOfBoth
    <3>2. QED
      BY <1>9, <3>1
  <2>3. s4 \in Seq(X) /\ Range(s4) = Range(s3) \cup Range(t4)
    <3>1. s3 \o t4 \in Seq(X) /\ Range(s3 \o t4) = Range(s3) \cup Range(t4)
      BY <1>8, <2>2, RangeOfBoth
    <3>2. QED
      BY <1>9, <3>1
  <2>4. s5 \in Seq(X) /\ Range(s5) = Range(s4) \cup Range(t5)
    <3>1. s4 \o t5 \in Seq(X) /\ Range(s4 \o t5) = Range(s4) \cup Range(t5)
      BY <1>8, <2>3, RangeOfBoth
    <3>2. QED
      BY <1>9, <3>1
  <2>5. Range(s6) = Range(s5) \cup Range(t6)
    <3>1. Range(s5 \o t6) = Range(s5) \cup Range(t6)
      BY <1>8, <2>4, RangeOfBoth
    <3>2. QED
      BY <1>9, <3>1
  <2>6. QED
    BY <2>1, <2>2, <2>3, <2>4, <2>5
<1>11. PICK x0 : x0 = Item("no signal", Absent)
  OBVIOUS
<1>12. Range(list) = Range(s6) \/ Range(list) = Range(s6) \cup {x0}
  <2>1. list = IF s6 = <<>> THEN Advise(TRUE, "no signal", Absent) ELSE s6
    BY <1>1, <1>9 DEF Recommendations
  <2>2. Advise(TRUE, "no signal", Absent) = <<x0>>
    BY <1>11 DEF Advise, Item
  <2>3. s6 = <<>> => Range(list) = Range(s6) \cup {x0}
    BY <2>1, <2>2, RangeOfFew
  <2>4. QED
    BY <2>1, <2>3
<1>13. /\ x0.advice = "no signal" /\ x3.advice = "fix telemetry" /\ x5.advice = "coverage"
       /\ x1.advice = "prioritize" /\ x1.route = costly
       /\ x2.advice = "investigate" /\ x2.route = failing
       /\ x4.advice = "tighten taxonomy" /\ x4.route = Absent
       /\ x6.advice = "review" /\ x6.route = movement
  BY <1>2, <1>11 DEF Item
<1>14. \A i \in {x0} \cup Range(t3) \cup Range(t5) :
          i.advice \in {"no signal", "fix telemetry", "coverage"}
  <2>1. Range(t3) \subseteq {x3} /\ Range(t5) \subseteq {x5}
    BY <1>4, <1>5, RangeOfFew
  <2>2. QED
    BY <1>13, <2>1
<1>15. /\ Range(t1) = IF order # <<>> THEN {x1} ELSE {}
       /\ Range(t2) = IF order # <<>> /\ a[failing].error_count > 0 THEN {x2} ELSE {}
       /\ Range(t4) = IF UnknownDominates(rows) THEN {x4} ELSE {}
       /\ Range(t6) = IF b # Absent /\ order # <<>> /\ movement # Absent THEN {x6} ELSE {}
  BY <1>3, RangeOfFew
<1>16. /\ Range(t1) \subseteq {x1} /\ Range(t2) \subseteq {x2}
       /\ Range(t4) \subseteq {x4} /\ Range(t6) \subseteq {x6}
  BY <1>15
<1>17. /\ \A y \in Range(t1) : y = x1 /\ y.advice = "prioritize"
       /\ \A y \in Range(t2) : y = x2 /\ y.advice = "investigate"
       /\ \A y \in Range(t4) : y = x4 /\ y.advice = "tighten taxonomy"
       /\ \A y \in Range(t6) : y = x6 /\ y.advice = "review"
  BY <1>13, <1>16
<1>18. PICK rest : rest = {x0} \cup Range(t3) \cup Range(t5)
  OBVIOUS
<1>19. \A y \in rest : y.advice \notin {"prioritize", "investigate", "tighten taxonomy", "review"}
  <2>1. \A y \in rest : y.advice \in {"no signal", "fix telemetry", "coverage"}
    BY <1>14, <1>18
  <2>2. QED
    BY <2>1
<1>20. /\ \A y \in Range(list) : \/ y \in Range(t1) \/ y \in Range(t2)
                                \/ y \in Range(t4) \/ y \in Range(t6) \/ y \in rest
       /\ Range(t1) \subseteq Range(list) /\ Range(t2) \subseteq Range(list)
       /\ Range(t4) \subseteq Range(list) /\ Range(t6) \subseteq Range(list)
  BY <1>10, <1>12, <1>18
<1>21. /\ \A y \in Range(list) : y.advice = "prioritize" <=> y \in Range(t1)
       /\ \A y \in Range(list) : y.advice = "investigate" <=> y \in Range(t2)
       /\ \A y \in Range(list) : y.advice = "tighten taxonomy" <=> y \in Range(t4)
       /\ \A y \in Range(list) : y.advice = "review" <=> y \in Range(t6)
  BY <1>17, <1>19, <1>20
<1>22. \A r : r \in Named(list, "prioritize") <=> x1 \in Range(t1) /\ r = costly
  <2>1. \A r : r \in Named(list, "prioritize") <=> x1 \in Range(t1) /\ r = x1.route
    <3>1. PICK advice, T : advice = "prioritize" /\ T = Range(t1)
      OBVIOUS
    <3>2. T \subseteq Range(list) /\ \A y \in T : y = x1
      BY <1>17, <1>20, <3>1
    <3>3. \A y \in Range(list) : y.advice = advice <=> y \in T
      BY <1>21, <3>1
    <3>4. \A r : r \in Named(list, advice) <=> x1 \in T /\ r = x1.route
      BY <3>2, <3>3, NamedOnly
    <3>5. QED
      BY <3>1, <3>4
  <2>2. QED
    BY <1>13, <2>1
<1>23. \A r : r \in Named(list, "investigate") <=> x2 \in Range(t2) /\ r = failing
  <2>1. \A r : r \in Named(list, "investigate") <=> x2 \in Range(t2) /\ r = x2.route
    <3>1. PICK advice, T : advice = "investigate" /\ T = Range(t2)
      OBVIOUS
    <3>2. T \subseteq Range(list) /\ \A y \in T : y = x2
      BY <1>17, <1>20, <3>1
    <3>3. \A y \in Range(list) : y.advice = advice <=> y \in T
      BY <1>21, <3>1
    <3>4. \A r : r \in Named(list, advice) <=> x2 \in T /\ r = x2.route
      BY <3>2, <3>3, NamedOnly
    <3>5. QED
      BY <3>1, <3>4
  <2>2. QED
    BY <1>13, <2>1
<1>24. \A r : r \in Named(list, "tighten taxonomy") <=> x4 \in Range(t4) /\ r = Absent
  <2>1. \A r : r \in Named(list, "tighten taxonomy") <=> x4 \in Range(t4) /\ r = x4.route
    <3>1. PICK advice, T : advice = "tighten taxonomy" /\ T = Range(t4)
      OBVIOUS
    <3>2. T \subseteq Range(list) /\ \A y \in T : y = x4
      BY <1>17, <1>20, <3>1
    <3>3. \A y \in Range(list) : y.advice = advice <=> y \in T
      BY <1>21, <3>1
    <3>4. \A r : r \in Named(list, advice) <=> x4 \in T /\ r = x4.route
      BY <3>2, <3>3, NamedOnly
    <3>5. QED
      BY <3>1, <3>4
  <2>2. QED
    BY <1>13, <2>1
<1>25. \A r : r \in Named(list, "review") <=> x6 \in Range(t6) /\ r = movement
  <2>1. \A r : r \in Named(list, "review") <=> x6 \in Range(t6) /\ r = x6.route
    <3>1. PICK advice, T : advice = "review" /\ T = Range(t6)
      OBVIOUS
    <3>2. T \subseteq Range(list) /\ \A y \in T : y = x6
      BY <1>17, <1>20, <3>1
    <3>3. \A y \in Range(list) : y.advice = advice <=> y \in T
      BY <1>21, <3>1
    <3>4. \A r : r \in Named(list, advice) <=> x6 \in T /\ r = x6.route
      BY <3>2, <3>3, NamedOnly
    <3>5. QED
      BY <3>1, <3>4
  <2>2. QED
    BY <1>13, <2>1
<1>26. QED
  BY <1>15, <1>22, <1>23, <1>24, <1>25 DEF GivenOn

\* The errors of a route, as its group has them and as the rows have them.
LEMMA ErrorsOf ==
    ASSUME NEW rows, Normalized(rows), NEW r \in RoutesIn(rows)
    PROVE  /\ RouteAggregates(rows)[r].error_count
                = Cardinality({i \in Errors(rows) : rows[i].route = r})
           /\ IsFiniteSet({i \in Errors(rows) : rows[i].route = r})
<1>1. PICK T : T = {i \in Errors(rows) : rows[i].route = r}
  OBVIOUS
<1>2. T = Errors(rows) \cap Mine(rows, r) /\ T \subseteq DOMAIN rows
  BY <1>1 DEF Errors, Mine
<1>3. RouteAggregates(rows)[r] = Figures(rows, Mine(rows, r))
  BY TableOf
<1>4. RouteAggregates(rows)[r].error_count = Cardinality(T)
  BY <1>2, <1>3 DEF Figures
<1>5. IsFiniteSet(T)
  BY <1>2, FiguresKept
<1>6. QED
  BY <1>1, <1>4, <1>5

\* How far the cost of each route has moved.
Moved(delta) == [r \in DOMAIN delta |-> Abs(delta[r].estimated_total_cost_usd_delta)]

\* The loop over the sorted routes finds the one that moved most, if any moved.
LEMMA MovementIs ==
    ASSUME NEW rows, Normalized(rows), rows # <<>>, NEW past, Normalized(past),
           NEW b, b = RouteAggregates(past), NEW a, a = RouteAggregates(rows),
           NEW delta, delta = DeltaTable(b, a), NEW movement, movement = LargestMovement(b, a)
    PROVE  /\ \A r \in DOMAIN delta : Moved(delta)[r] \in Nat
           /\ movement # Absent =>
                /\ movement \in DOMAIN delta /\ Moved(delta)[movement] # 0
                /\ \A r \in DOMAIN delta : Moved(delta)[r] <= Moved(delta)[movement]
           /\ movement = Absent => \A r \in DOMAIN delta : Moved(delta)[r] = 0
<1>1. PICK P, moved : P = DOMAIN delta /\ moved = Moved(delta)
  OBVIOUS
<1>2. P = RoutesIn(rows) \cup RoutesIn(past)
  <2>1. DOMAIN a = RoutesIn(rows) /\ DOMAIN b = RoutesIn(past)
    BY TableOf
  <2>2. QED
    BY <1>1, <2>1 DEF DeltaTable, AllRoutes
<1>3. IsFiniteSet(P) /\ RoutesIn(rows) \subseteq P /\ RoutesIn(past) \subseteq P
  BY <1>2, FewRoutes, FS_Union
<1>4. P \subseteq Range(Sorted)
  BY <1>2 DEF RoutesIn, Normalized
<1>5. PICK f, g : /\ f = [r \in P |-> OrEmpty(a, r).estimated_total_cost_usd]
                  /\ g = [r \in P |-> OrEmpty(b, r).estimated_total_cost_usd]
  OBVIOUS
<1>6. \A r \in P : f[r] \in Int /\ g[r] \in Int
  <2>1. PICK field : field = "estimated_total_cost_usd"
    OBVIOUS
  <2>2. field \in {"request_count", "estimated_total_cost_usd", "error_count",
                   "unknown_error_count"}
    BY <2>1
  <2>3. /\ \A r \in P : f[r] = Figures(rows, Mine(rows, r))[field]
        /\ \A r \in P : g[r] = Figures(past, Mine(past, r))[field]
    BY <1>5, <2>1, TableOf
  <2>4. \A r \in P : f[r] \in Int
    <3>1. \A r \in P : f[r] = Figures(rows, Mine(rows, r))[field]
      BY <2>3
    <3>2. IsFiniteSet(P) /\ RoutesIn(rows) \subseteq P
      BY <1>3
    <3>3. QED
      BY <2>2, <3>1, <3>2, RoutesAccount
  <2>5. \A r \in P : g[r] \in Int
    <3>1. \A r \in P : g[r] = Figures(past, Mine(past, r))[field]
      BY <2>3
    <3>2. IsFiniteSet(P) /\ RoutesIn(past) \subseteq P
      BY <1>3
    <3>3. QED
      BY <2>2, <3>1, <3>2, RoutesAccount
  <2>6. QED
    BY <2>4, <2>5
<1>7. \A r \in P : delta[r].estimated_total_cost_usd_delta = f[r] - g[r]
  BY <1>1, <1>5 DEF DeltaTable, CompareAggregates
<1>8. \A r \in P : moved[r] \in Nat /\ moved[r] = Abs(delta[r].estimated_total_cost_usd_delta)
  BY <1>1, <1>6, <1>7 DEF Moved, Abs
<1>9. PICK places : places = {n \in DOMAIN Sorted : Sorted[n] \in P}
  OBVIOUS
<1>10. IsFiniteSet(places) /\ places \in SUBSET Int /\ places \subseteq DOMAIN Sorted
  <2>1. Len(Sorted) \in Nat /\ DOMAIN Sorted = 1..Len(Sorted)
    BY ReportAssumption, LenProperties
  <2>2. IsFiniteSet(1..Len(Sorted))
    BY <2>1, FS_Interval
  <2>3. places \subseteq 1..Len(Sorted)
    BY <1>9, <2>1
  <2>4. IsFiniteSet(places)
    BY <2>2, <2>3, FS_Subset
  <2>5. \A x \in 1..Len(Sorted) : x \in Int
    BY <2>1
  <2>6. QED
    BY <1>9, <2>3, <2>4, <2>5
<1>11. PICK routes, h, n : routes = Keep(Sorted, places) /\ h = Listed(places) /\ n = Cardinality(places)
  OBVIOUS
<1>12. /\ n \in Nat /\ DOMAIN routes = 1..n
       /\ OneToOne(h, 1..n, places)
       /\ \A i \in 1..n : routes[i] = Sorted[h[i]]
  BY <1>10, <1>11, KeepAt
<1>13. Range(routes) = P
  <2>1. \A i \in 1..n : routes[i] \in P
    BY <1>9, <1>12 DEF OneToOne
  <2>2. \A r \in P : \E i \in 1..n : routes[i] = r
    <3>1. ASSUME NEW r \in P PROVE \E i \in 1..n : routes[i] = r
      <4>1. PICK m \in DOMAIN Sorted : Sorted[m] = r
        BY <1>4 DEF Range
      <4>2. m \in places
        BY <1>9, <4>1
      <4>3. PICK i \in 1..n : h[i] = m
        BY <1>12, <4>2 DEF OneToOne
      <4>4. QED
        BY <1>12, <4>1, <4>3
    <3>2. QED
      BY <3>1
  <2>3. QED
    BY <1>12, <2>1, <2>2 DEF Range
<1>14. P # {} /\ n > 0 /\ routes # <<>>
  <2>1. DOMAIN rows # {}
    <3>1. DOMAIN rows = {} => rows = <<>>
      BY DEF Normalized
    <3>2. QED
      BY <3>1
  <2>2. P # {}
    BY <1>2, <2>1 DEF RoutesIn
  <2>3. DOMAIN routes # {}
    BY <1>13, <2>2 DEF Range
  <2>4. routes # <<>>
    BY <2>3
  <2>5. QED
    BY <1>12, <2>2, <2>3, <2>4
<1>15. PICK largest : largest = FirstLargest(routes, moved)
  OBVIOUS
<1>16. largest \in P /\ \A r \in P : moved[r] <= moved[largest]
  <2>1. \A i \in DOMAIN routes : moved[routes[i]] \in Int
    BY <1>8, <1>13 DEF Range
  <2>2. QED
    BY <1>12, <1>13, <1>14, <1>15, <2>1, LargestIs
<1>17. movement = IF moved[largest] = 0 THEN Absent ELSE largest
  <2>1. LargestMovement(b, a) = IF routes = <<>> \/ moved[largest] = 0 THEN Absent ELSE largest
    BY <1>1, <1>9, <1>11, <1>15 DEF LargestMovement, Moved
  <2>2. QED
    BY <1>14, <2>1
<1>18. largest # Absent
  BY <1>4, <1>16, ReportAssumption
<1>19. QED
  BY <1>1, <1>8, <1>16, <1>17, <1>18

\* More than half, or more than the others.
LEMMA MoreThanHalf ==
    ASSUME NEW rows, Normalized(rows)
    PROVE  UnknownDominates(rows)
             <=> Cardinality(Unknown(rows)) > Cardinality(Errors(rows) \ Unknown(rows))
<1>1. PICK E, U : E = Errors(rows) /\ U = Unknown(rows)
  OBVIOUS
<1>2. U \subseteq E /\ E \subseteq DOMAIN rows
  BY <1>1 DEF Errors, Unknown
<1>3. IsFiniteSet(E) /\ IsFiniteSet(U)
  BY <1>2, FiguresKept, FS_Subset
<1>4. Cardinality(E) \in Nat /\ Cardinality(U) \in Nat
  BY <1>3, FS_CardinalityType
<1>5. Cardinality(E \ U) = Cardinality(E) - Cardinality(U)
  <2>1. E \cap U = U
    BY <1>2
  <2>2. Cardinality(E \ U) = Cardinality(E) - Cardinality(E \cap U)
    BY <1>3, FS_Difference
  <2>3. QED
    BY <2>1, <2>2
<1>6. E = {} => Cardinality(E) = 0 /\ Cardinality(U) = 0
  BY <1>2, FS_EmptySet
<1>7. UnknownDominates(rows) <=> E # {} /\ 2 * Cardinality(U) > Cardinality(E)
  BY <1>1 DEF UnknownDominates
<1>8. PICK e \in Nat, u \in Nat : e = Cardinality(E) /\ u = Cardinality(U)
  BY <1>4
<1>9. 2 * u > e <=> u > e - u
  OBVIOUS
<1>10. QED
  BY <1>1, <1>5, <1>6, <1>7, <1>8, <1>9

LEMMA AdviceShown == Unset /\ ReportInv => AdviceGrounded
<1> SUFFICES ASSUME Unset, ReportInv, Made PROVE AdviceGrounded
  BY DEF AdviceGrounded
<1> DEFINE rows == Loaded
           table == RouteAggregates(rows)
           past == LoadTelemetry(before).rows
           order == RouteOrder(rows)
           errors(route) == Cardinality({i \in Errors(rows) : rows[i].route = route})
           moved(route) == Abs(markdown.delta[route].estimated_total_cost_usd_delta)
<1>1. PICK list, b, malformed, missing :
         /\ list = markdown.recommendations
         /\ list = Recommendations(rows, table, malformed, missing, b)
         /\ b = IF before = Absent THEN Absent ELSE RouteAggregates(past)
  BY Shown
<1>2. /\ Normalized(rows) /\ markdown.routes = table
      /\ rows # <<>> => markdown.headline = [cost |-> HighestCostRoute(order, table),
                                             error |-> HighestErrorRoute(order, table)]
      /\ markdown.by_cost = Ranked(order, KeyOf(table, "estimated_total_cost_usd"))
      /\ markdown.by_error = Ranked(order, KeyOf(table, "error_count"))
      /\ before # Absent => /\ Normalized(past) /\ RouteAggregates(past) # Absent
                            /\ markdown.delta = DeltaTable(RouteAggregates(past), table)
  BY Shown
<1>3. \A advice : Given(advice) = Named(list, advice)
  BY <1>1 DEF Given, Named
<1>4. table = RouteAggregates(rows) /\ order = RouteOrder(rows)
  OBVIOUS
<1>5. order = <<>> <=> rows = <<>>
  BY <1>2, RoutesOf
<1> HIDE DEF rows, table, past, order
<1>6. PICK costly, failing, movement :
         /\ costly = HighestCostRoute(order, table)
         /\ failing = HighestErrorRoute(order, table)
         /\ movement = LargestMovement(b, table)
  OBVIOUS
<1>7. /\ Given("prioritize") = IF order # <<>> THEN {costly} ELSE {}
      /\ Given("investigate")
           = IF order # <<>> /\ table[failing].error_count > 0 THEN {failing} ELSE {}
      /\ Given("tighten taxonomy") = IF UnknownDominates(rows) THEN {Absent} ELSE {}
      /\ Given("review")
           = IF b # Absent /\ order # <<>> /\ movement # Absent THEN {movement} ELSE {}
  <2>1. list = Recommendations(rows, table, malformed, missing, b) /\ order = RouteOrder(rows)
    BY <1>1, <1>4
  <2>2. GivenOn(list, rows, order, table, b, costly, failing, movement)
    BY <1>6, <2>1, Advised
  <2>3. QED
    BY <1>3, <2>2 DEF GivenOn
<1>8. rows # <<>> => costly \in RoutesIn(rows) /\ costly = markdown.by_cost[1]
  <2>1. SUFFICES ASSUME rows # <<>>
                 PROVE  costly \in RoutesIn(rows) /\ costly = markdown.by_cost[1]
    OBVIOUS
  <2>2. PICK field : field = "estimated_total_cost_usd"
    OBVIOUS
  <2>3. costly = FirstLargest(RouteOrder(rows), KeyOf(RouteAggregates(rows), field))
    BY <1>4, <1>6, <2>2 DEF HighestCostRoute
  <2>4. field \in {"estimated_total_cost_usd", "error_count"}
    BY <2>2
  <2>5. /\ costly \in RoutesIn(rows)
        /\ costly = Ranked(RouteOrder(rows), KeyOf(RouteAggregates(rows), field))[1]
    BY <1>2, <2>1, <2>3, <2>4, Leader
  <2>6. QED
    BY <1>2, <1>4, <2>2, <2>5
<1>9. rows # <<>> =>
         /\ failing \in RoutesIn(rows) /\ failing = markdown.by_error[1]
         /\ \A r \in RoutesIn(rows) : table[r].error_count \in Int
                                      /\ table[r].error_count <= table[failing].error_count
  <2>1. SUFFICES ASSUME rows # <<>>
                 PROVE  /\ failing \in RoutesIn(rows) /\ failing = markdown.by_error[1]
                        /\ \A r \in RoutesIn(rows) :
                             table[r].error_count \in Int
                             /\ table[r].error_count <= table[failing].error_count
    OBVIOUS
  <2>2. PICK field : field = "error_count"
    OBVIOUS
  <2>3. failing = FirstLargest(RouteOrder(rows), KeyOf(RouteAggregates(rows), field))
    BY <1>4, <1>6, <2>2 DEF HighestErrorRoute
  <2>4. field \in {"estimated_total_cost_usd", "error_count"}
    BY <2>2
  <2>5. /\ failing \in RoutesIn(rows)
        /\ failing = Ranked(RouteOrder(rows), KeyOf(RouteAggregates(rows), field))[1]
        /\ \A r \in RoutesIn(rows) :
              /\ RouteAggregates(rows)[r][field] \in Int
              /\ RouteAggregates(rows)[r][field] <= RouteAggregates(rows)[failing][field]
    BY <1>2, <2>1, <2>3, <2>4, Leader
  <2>6. QED
    BY <1>2, <1>4, <2>2, <2>5
<1>10. \A r \in RoutesIn(rows) : table[r].error_count = errors(r)
  BY <1>2, <1>4, ErrorsOf
<1>11. \A r \in RoutesIn(rows) : errors(r) > 0 <=> \E i \in Errors(rows) : rows[i].route = r
  <2>1. ASSUME NEW r \in RoutesIn(rows)
        PROVE  errors(r) > 0 <=> \E i \in Errors(rows) : rows[i].route = r
    <3>1. PICK T : T = {i \in Errors(rows) : rows[i].route = r}
      OBVIOUS
    <3>2. IsFiniteSet(T)
      BY <1>2, <3>1, ErrorsOf
    <3>3. Cardinality(T) \in Nat /\ (Cardinality(T) = 0 <=> T = {})
      BY <3>2, FS_CardinalityType, FS_EmptySet
    <3>4. errors(r) = Cardinality(T)
      BY <3>1
    <3> HIDE DEF errors
    <3>5. QED
      BY <3>1, <3>3, <3>4
  <2>2. QED
    BY <2>1
<1> HIDE DEF errors
<1>12. (Given("investigate") # {}) <=> (Errors(rows) # {})
  <2>1. \A i \in Errors(rows) : rows[i].route \in RoutesIn(rows) /\ rows # <<>>
    <3>1. \A i \in Errors(rows) : i \in DOMAIN rows
      BY DEF Errors
    <3>2. rows = <<>> => DOMAIN rows = {}
      OBVIOUS
    <3>3. QED
      BY <3>1, <3>2 DEF RoutesIn
  <2>2. ASSUME Errors(rows) # {} PROVE Given("investigate") # {}
    <3>1. PICK i : i \in Errors(rows)
      BY <2>2
    <3>2. PICK r : r = rows[i].route /\ r \in RoutesIn(rows) /\ rows # <<>>
      BY <2>1, <3>1
    <3>3. table[r].error_count > 0
      BY <1>10, <1>11, <3>1, <3>2
    <3>4. table[r].error_count \in Int /\ table[failing].error_count \in Int
          /\ table[r].error_count <= table[failing].error_count
      BY <1>9, <3>2
    <3>5. table[failing].error_count > 0
      BY <3>3, <3>4
    <3>6. QED
      BY <1>5, <1>7, <3>2, <3>5
  <2>3. ASSUME Given("investigate") # {} PROVE Errors(rows) # {}
    <3>1. order # <<>> /\ table[failing].error_count > 0
      BY <1>7, <2>3
    <3>2. failing \in RoutesIn(rows)
      BY <1>5, <1>9, <3>1
    <3>3. QED
      BY <1>10, <1>11, <3>1, <3>2
  <2>4. QED
    BY <2>2, <2>3
<1>13. \A route \in Given("investigate"), other \in DOMAIN markdown.routes :
          errors(other) <= errors(route)
  <2>1. ASSUME NEW route \in Given("investigate"), NEW other \in DOMAIN markdown.routes
        PROVE  errors(other) <= errors(route)
    <3>1. route = failing /\ rows # <<>>
      BY <1>5, <1>7, <2>1
    <3>2. other \in RoutesIn(rows)
      BY <1>2, <1>4, <2>1, TableOf
    <3>3. table[other].error_count <= table[failing].error_count /\ failing \in RoutesIn(rows)
      BY <1>9, <3>1, <3>2
    <3>4. QED
      BY <1>10, <3>1, <3>2, <3>3
  <2>2. QED
    BY <2>1
<1>14. (Given("tighten taxonomy") # {})
         <=> (Cardinality(Unknown(rows)) > Cardinality(Errors(rows) \ Unknown(rows)))
  <2>1. Given("tighten taxonomy") # {} <=> UnknownDominates(rows)
    BY <1>7
  <2>2. QED
    BY <1>2, <2>1, MoreThanHalf
<1>15. before # Absent /\ rows # <<>> =>
          /\ \A route \in Given("review"), other \in DOMAIN markdown.delta :
               moved(other) <= moved(route)
          /\ (Given("review") = {}) <=> (\A route \in DOMAIN markdown.delta : moved(route) = 0)
  <2>1. SUFFICES ASSUME before # Absent, rows # <<>>
                 PROVE  /\ \A route \in Given("review"), other \in DOMAIN markdown.delta :
                             moved(other) <= moved(route)
                        /\ (Given("review") = {})
                             <=> (\A route \in DOMAIN markdown.delta : moved(route) = 0)
    OBVIOUS
  <2>2. PICK delta : delta = markdown.delta
    OBVIOUS
  <2>3. /\ b = RouteAggregates(past) /\ b # Absent /\ Normalized(past)
        /\ delta = DeltaTable(b, table)
    BY <1>1, <1>2, <2>1, <2>2
  <2>4. /\ \A r \in DOMAIN delta : Moved(delta)[r] \in Nat
        /\ movement # Absent =>
             /\ movement \in DOMAIN delta /\ Moved(delta)[movement] # 0
             /\ \A r \in DOMAIN delta : Moved(delta)[r] <= Moved(delta)[movement]
        /\ movement = Absent => \A r \in DOMAIN delta : Moved(delta)[r] = 0
    BY <1>2, <1>4, <1>6, <2>1, <2>3, MovementIs
  <2>5. \A r \in DOMAIN delta : moved(r) = Moved(delta)[r]
    BY <2>2 DEF Moved
  <2>6. Given("review") = IF movement # Absent THEN {movement} ELSE {}
    BY <1>5, <1>7, <2>1, <2>3
  <2> HIDE DEF moved
  <2>7. \A route \in Given("review"), other \in DOMAIN delta : moved(other) <= moved(route)
    BY <2>4, <2>5, <2>6
  <2>8. (Given("review") = {}) <=> (\A route \in DOMAIN delta : moved(route) = 0)
    BY <2>4, <2>5, <2>6
  <2>9. QED
    BY <2>2, <2>7, <2>8
<1>16. rows # <<>> =>
          /\ markdown.headline.cost = markdown.by_cost[1]
          /\ markdown.headline.error = markdown.by_error[1]
          /\ Given("prioritize") = {markdown.headline.cost}
          /\ Given("investigate") \subseteq {markdown.headline.error}
  <2>1. SUFFICES ASSUME rows # <<>>
                 PROVE  /\ markdown.headline.cost = markdown.by_cost[1]
                        /\ markdown.headline.error = markdown.by_error[1]
                        /\ Given("prioritize") = {markdown.headline.cost}
                        /\ Given("investigate") \subseteq {markdown.headline.error}
    OBVIOUS
  <2>2. markdown.headline.cost = costly /\ markdown.headline.error = failing
    BY <1>2, <1>6, <2>1
  <2>3. QED
    BY <1>5, <1>7, <1>8, <1>9, <2>1, <2>2
<1>17. QED
  BY <1>12, <1>13, <1>14, <1>15, <1>16 DEF AdviceGrounded, rows, errors

\* For any lines that json.loads can return, in logs of any length: the totals
\* of the routes account for the overall figures, and their deltas for the
\* overall deltas (aggregate_metrics, build_route_aggregates, compare_aggregates).
THEOREM RoutesAddUp == Unset => (ReportSpec => []RoutesPartition)
<1> SUFFICES ASSUME Unset PROVE ReportSpec => []RoutesPartition
  OBVIOUS
<1>1. ReportInv => RoutesPartition
  BY PartitionShown
<1>2. QED
  BY <1>1, ReportHolds, PTL

\* A percentile is the linear interpolation of the ranked values, between the
\* extremes, and the median does not exceed the 95th (percentile).
THEOREM PercentilesOnTheLine == Unset => (ReportSpec => []PercentilesInterpolate)
<1> SUFFICES ASSUME Unset PROVE ReportSpec => []PercentilesInterpolate
  OBVIOUS
<1>1. ReportInv => PercentilesInterpolate
  BY PercentilesShown
<1>2. QED
  BY <1>1, ReportHolds, PTL

\* No figure depends on the order in which the workers' rows were appended.
THEOREM OrderNeverMatters == Unset => (ReportSpec => []OrderIrrelevant)
<1> SUFFICES ASSUME Unset PROVE ReportSpec => []OrderIrrelevant
  OBVIOUS
<1>1. ReportInv => OrderIrrelevant
  BY OrderShown
<1>2. QED
  BY <1>1, ReportHolds, PTL

\* The advice on errors, their taxonomy and cost movements holds of the rows,
\* and all advice agrees with the summary and the rankings
\* (_build_recommendations, _pareto_lines).
THEOREM AdviceHolds == Unset => (ReportSpec => []AdviceGrounded)
<1> SUFFICES ASSUME Unset PROVE ReportSpec => []AdviceGrounded
  OBVIOUS
<1>1. ReportInv => AdviceGrounded
  BY AdviceShown
<1>2. QED
  BY <1>1, ReportHolds, PTL
=============================================================================
