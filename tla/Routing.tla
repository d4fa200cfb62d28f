------------------------------- MODULE Routing -------------------------------
(***************************************************************************)
(* The pure part of the three routes: determine_complexity and the bodies  *)
(* a route answers with.  A message is what these look at: whether one of  *)
(* the complex and one of the simple keywords occurs in it, and its length *)
(* without the white space around it.                                      *)
(***************************************************************************)
EXTENDS Naturals

SIMPLE_LENGTH_THRESHOLD == 50
COMPLEX_LENGTH_THRESHOLD == 200

Complexities == {"simple", "medium", "complex"}
Tiers == {"cheap", "expensive"}

\* The complex side is tested first: a message with both kinds of keyword, or
\* a long one with a simple keyword, is complex.
Complexity(message) ==
    IF message.complex \/ message.length > COMPLEX_LENGTH_THRESHOLD THEN "complex"
    ELSE IF message.simple \/ message.length < SIMPLE_LENGTH_THRESHOLD THEN "simple"
    ELSE "medium"

RecommendedTier(message) ==
    IF Complexity(message) = "complex" THEN "expensive" ELSE "cheap"

DetermineComplexity(message) ==
    [complexity       |-> Complexity(message),
     recommended_tier |-> RecommendedTier(message),
     needs_escalation |-> Complexity(message) = "complex"]

-----------------------------------------------------------------------------
\* The bodies.  `call_llm` is what the gateway answers for each tier.
ClassifyBody(message) == DetermineComplexity(message)

AnswerBody(message, call_llm) ==
    LET result == call_llm[RecommendedTier(message)] IN
    [answer           |-> result.text,
     selected_model   |-> result.selected_model,
     routing_decision |-> RecommendedTier(message)]

\* The strategy is reported as it was asked for, the history is counted as it
\* was sent, and the tier does not depend on the message.
ConversationBody(turn, call_llm) ==
    [answer                   |-> call_llm["expensive"].text,
     turn_index               |-> turn.history,
     context_tokens_used      |-> turn.tokens,
     context_strategy_applied |-> turn.context_strategy]
=============================================================================
