------------------------------ MODULE MCGateway ------------------------------
(***************************************************************************)
(* Small instances of the gateway for TLC.                                 *)
(***************************************************************************)
EXTENDS GatewayProperties, TLC

CONSTANTS c1, c2

TwoCalls == {c1, c2}
PairSymmetry == Permutations(TwoCalls)

\* policies.py ships retry_attempts = 2 and the same models for both routes;
\* one route with a single retry keeps the two budgets apart.
ModelForTier == [cheap |-> "gpt-4o-mini", expensive |-> "gpt-4o"]
ShippedPolicies ==
    ("/answer-routed" :> [provider_name |-> "openai", retry_attempts |-> 2,
                          model_for_tier |-> ModelForTier]) @@
    ("/conversation-turn" :> [provider_name |-> "openai", retry_attempts |-> 1,
                              model_for_tier |-> ModelForTier])
\* The same retries for the three kinds of adapter; "local" keeps the defaults.
ThreeAdapters == {"openai", "anthropic", "local"}
AdapterPolicies ==
    [provider \in ThreeAdapters |-> [provider_name |-> provider, retry_attempts |-> 1,
                                     model_for_tier |-> [cheap |-> "gpt-4o-mini"]]]

\* A route moved to a model that the pricing snapshot does not know yet.
MixedPolicies ==
    ("/answer-routed" :> [provider_name |-> "openai", retry_attempts |-> 1,
                          model_for_tier |-> [cheap |-> "gpt-4o-mini",
                                              expensive |-> "gpt-next"]])
    @@ AdapterPolicies

OpenAI == {"openai"}

\* 1e-8 USD per token, from cost_model.py.
Prices == ("gpt-4o-mini" :> [input |-> 15, output |-> 60]) @@
          ("gpt-4o" :> [input |-> 250, output |-> 1000])

Request(route, tier, metadata, context) ==
    [route_name |-> route, model_tier |-> tier, metadata |-> metadata, context |-> context]

NoMetadata == [k \in {} |-> None]

\* What the two routes of the app pass, a library caller whose context and
\* metadata disagree on the tenant, and a call to a route without a policy.
Routed == Request("/answer-routed", "cheap", [routing_decision |-> "cheap"], None)
Conversation == Request("/conversation-turn", "expensive",
                        [conversation_id |-> "conv"], None)
TwoTenants == Request("/answer-routed", "cheap",
                      [routing_decision |-> "cheap", tenant_id |-> "globex"],
                      [tenant_id |-> "acme", caller_id |-> "svc"])
LegacyTenant == Request("/conversation-turn", "cheap", [tenant_id |-> "globex"], None)
NoSuchRoute == Request("/classify", "cheap", NoMetadata, None)
NoSuchTier == Request("/answer-routed", "medium", NoMetadata, None)
WithDeadline == Request("/answer-routed", "cheap",
                        [routing_decision |-> "cheap", deadline |-> Unserialisable], None)
DriftedCall == Request("/answer-routed", "expensive",
                       [routing_decision |-> "expensive"], None)

AdapterArguments == {Request(p, "cheap", NoMetadata, None) : p \in ThreeAdapters}
HealthyArguments == {TwoTenants, LegacyTenant, Conversation, NoSuchRoute}
MixedArguments == AdapterArguments \cup {Routed, WithDeadline, DriftedCall, NoSuchTier}
RoutedOnly == {Routed}

\* A complete answer, one without usage, and one that begins with a block that
\* is not text.
Full == [usage |-> [input_tokens |-> 3, output_tokens |-> 1], text |-> TRUE]
Unmetered == [usage |-> None, text |-> TRUE]
NotText == [usage |-> [input_tokens |-> 3, output_tokens |-> 1], text |-> FALSE]

MeteredOrNot == {Full, Unmetered}
TextOrNot == {Full, NotText}
OneAnswer == {Full}

SomeErrors == {"RateLimitError", "APITimeoutError", "BadRequestError"}
TransientOnly == {"RateLimitError"}
AllErrors == SDKErrors \cup {"ValueError"}

\* OTEL_SEMCONV_STABILITY_OPT_IN: unset; of another instrumentation only, then
\* of this one; with the first of two GenAI tokens in force.
NotSet == <<>>
LatestOnly == <<"http", "gen_ai_latest_experimental">>
Migrating == <<"http/dup", "gen_ai_latest_experimental/dup", "gen_ai_latest_experimental">>

NoFaults == {}
AllFaults == {"unopened", "torn"}
=============================================================================
