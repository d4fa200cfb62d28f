------------------------------ MODULE MCReport ------------------------------
(***************************************************************************)
(* Up to four lines in both logs: rows of two routes, cheap and dear, fast *)
(* and slow, with errors known and unknown, some values as strings; and a  *)
(* line of each kind that is skipped, or that makes the report raise.      *)
(***************************************************************************)
EXTENDS Report

TwoRoutes == <<"/answer-routed", "/conversation-turn">>

Row(route, latency, cost, status, error) ==
    [route |-> route, latency_ms |-> latency, estimated_cost_usd |-> cost,
     status |-> status, schema_valid |-> Value("bool", TRUE), error_type |-> error]

Object(row) == [kind |-> "object", row |-> row]
Number(n) == Value("number", n)
Text(s) == Value("text", s)
Null == Value("null", Absent)

Fast == Row(Text("/answer-routed"), Number(1), Number(2), Text("success"), Null)
Slow == Row(Padded("text", "/answer-routed"), Padded("numeral", 4), Number(1),
            Text("success"), Null)
Dear == Row(Text("/conversation-turn"), Number(7), Value("numeral", 3),
            Text("success"), Null)
Unknowns == Row(Text("/conversation-turn"), Number(2), Number(0), Text("error"),
               Text("unknown"))
TimedOut == Row(Text("/answer-routed"), Number(3), Number(0), Text("error"),
                Text("timeout"))

SomeLines ==
    {Object(Fast), Object(Slow), Object(Dear), Object(Unknowns), Object(TimedOut),
     Object([Dear EXCEPT !.schema_valid = Text("yes")]),
     Object([Dear EXCEPT !.status = Value("array", <<>>)]),
     Object([Fast EXCEPT !.latency_ms = Number(-1)]),
     [kind |-> "not_json"], [kind |-> "blank"]}

SomeCoverage == {{}, {"Classify Eval"}}
=============================================================================
