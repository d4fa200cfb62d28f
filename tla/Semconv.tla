------------------------------- MODULE Semconv -------------------------------
(***************************************************************************)
(* The attribute names of spans and metrics while OpenTelemetry renames    *)
(* them: resolve_attrs and the environment variable that steers it,        *)
(* OTEL_SEMCONV_STABILITY_OPT_IN, a comma-separated list shared with other *)
(* instrumentations.  An attribute set is a record.                        *)
(***************************************************************************)
EXTENDS Naturals, Sequences

CONSTANT OptInTokens   \* the tokens of the variable, without white space

ASSUME OptInAssumption == OptInTokens \in Seq(STRING)

Latest == "gen_ai_latest_experimental"
LatestDup == "gen_ai_latest_experimental/dup"

\* The first token that is about GenAI counts; "stable" stands for None.
OptInMode ==
    LET active == {i \in DOMAIN OptInTokens : OptInTokens[i] \in {Latest, LatestDup}}
    IN  IF active = {} THEN "stable"
        ELSE OptInTokens[CHOOSE i \in active : \A j \in active : i <= j]

\* A dict updated with another: {**base, **top}.  (Like ResolveAttrs a function
\* applied to its own argument, so that TLC evaluates the argument once.)
Over(top, base) ==
    LET updated[dict \in {base}] ==
            [name \in DOMAIN top \cup DOMAIN dict |->
                IF name \in DOMAIN top THEN top[name] ELSE dict[name]]
    IN  updated[base]

\* Old name -> new name.
PendingRenames == [gen_ai_system |-> "gen_ai_provider_name"]

RenamedIn(attrs) == DOMAIN attrs \cap DOMAIN PendingRenames
WithoutOld(attrs) == [name \in DOMAIN attrs \ RenamedIn(attrs) |-> attrs[name]]
NewNames(attrs) ==
    [name \in {PendingRenames[old] : old \in RenamedIn(attrs)} |->
        attrs[CHOOSE old \in RenamedIn(attrs) : PendingRenames[old] = name]]

\* mutant: the duplicating mode renames as well.
RenamesAlways(attrs) ==
    IF OptInMode = "stable" THEN attrs ELSE Over(NewNames(attrs), WithoutOld(attrs))

\* Without opt-in the attributes stay as they are; the duplicating mode adds
\* each new name beside the old one, the latest mode puts it in its place.
ResolveAttrs(attrs) ==
    LET resolved[a \in {attrs}] ==
            CASE OptInMode = "stable"  -> a
              [] OptInMode = LatestDup -> Over(NewNames(a), a)
              [] OptInMode = Latest    -> Over(NewNames(a), WithoutOld(a))
    IN  resolved[attrs]
=============================================================================
