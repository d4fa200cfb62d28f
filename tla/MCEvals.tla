------------------------------- MODULE MCEvals -------------------------------
(* Lines of the datasets in evals/datasets and of damaged ones, and versions *)
(* of the application that keep the contract or break one part of it.        *)
EXTENDS Evals, TLC

Message(complex, simple, length) ==
    [complex |-> complex, simple |-> simple, length |-> length, valid |-> TRUE]
WhatIs  == Message(FALSE, TRUE, 12)    \* classify_001, answer_routed_001
Analyze == Message(TRUE, FALSE, 70)    \* classify_002, answer_routed_002
Python  == Message(FALSE, FALSE, 73)   \* classify_003
Both    == Message(TRUE, TRUE, 40)
Long    == Message(FALSE, TRUE, 201)
Empty   == [WhatIs EXCEPT !.length = 0, !.valid = FALSE]

Turn(history, strategy, fits) ==
    [history |-> history, context_strategy |-> strategy, tokens |-> 9, fits |-> fits,
     valid |-> TRUE]

Case(input, expected) == [input |-> input, expected |-> expected]

Classified(complexity, tier, escalation) ==
    [complexity |-> complexity, recommended_tier |-> tier, needs_escalation |-> escalation]
Simple  == Classified("simple", "cheap", FALSE)
Medium  == Classified("medium", "cheap", FALSE)
Complex == Classified("complex", "expensive", TRUE)
Decided(tier) == [routing_decision |-> tier, min_answer_length |-> 1]
Expected(index, strategy) ==
    [turn_index |-> index, context_strategy_applied |-> strategy, min_answer_length |-> 1]

ClassifyDatasets ==
    {<<Case(Analyze, Complex), None, Case(Python, Medium)>>,
     <<Case(Both, Complex), Case(Long, Complex), Case(WhatIs, Simple)>>,
     <<Case(Empty, Simple), Case(Analyze, Simple)>>,
     <<Case(WhatIs, Simple), Case(WhatIs, [complexity |-> "simple"])>>,
     <<Case(WhatIs, Simple), Case(WhatIs, None)>>,
     <<Case(WhatIs, Simple), NotJson>>,
     <<>>}

AnswerDatasets ==
    {<<Case(WhatIs, Decided("cheap")), Case(Analyze, Decided("expensive"))>>,
     <<Case(Analyze, [min_answer_length |-> 1]), Case(Empty, Decided("cheap")),
       Case(Python, Decided("cheap"))>>}

ConversationDatasets ==
    {<<Case(Turn(0, "full", TRUE), Expected(0, "full")),
       Case(Turn(2, "full", TRUE), Expected(2, "full"))>>,
     <<Case(Turn(12, "full", FALSE), Expected(12, "full")),
       Case(Turn(12, "sliding_window", TRUE), [context_strategy_applied |-> "full"])>>}

MCDatasets == [r \in RunnerNames |->
    CASE r = "classify"     -> ClassifyDatasets
      [] r = "answer"       -> AnswerDatasets
      [] r = "conversation" -> ConversationDatasets]

NoChange == [f \in {} |-> 0]
AsIs     == [raises |-> FALSE, drops |-> {}, sets |-> NoChange, size |-> 200]
Dropped  == [AsIs EXCEPT !.drops = {"recommended_tier", "selected_model", "turn_index"}]
Changed  == [AsIs EXCEPT !.sets = [routing_decision |-> "cheap",
                                   needs_escalation |-> FALSE, answer |-> 0]]
Grown    == [AsIs EXCEPT !.size = 501]
Bloated  == [AsIs EXCEPT !.size = 5001]
Crashing == [AsIs EXCEPT !.raises = TRUE]

MCVersions == {AsIs, Dropped, Changed, Grown, Bloated, Crashing}
MCEnvKeys == {RunnerKey, "another-key", None}
=============================================================================
