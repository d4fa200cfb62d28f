--------------------------------- MODULE App ---------------------------------
(***************************************************************************)
(* The way of an HTTP request through the reference application: the two   *)
(* middlewares in the order Starlette runs them, the route handler and the *)
(* gateway behind it.  The limiter is module RateLimiter, the gateway is   *)
(* what GatewayContract promises.  Requests interleave between any two     *)
(* layers: call_next is an await.                                          *)
(***************************************************************************)
EXTENDS Naturals, Sequences, FiniteSets

CONSTANTS
    Requests,  \* requests, which are also the ids of the calls they lead to
    Keys,      \* what may be sent as X-API-Key
    AppKey,    \* APP_API_KEY
    NonAscii,  \* keys that compare_digest refuses to compare
    RPM, Window, MaxTime,   \* see RateLimiter
    Costs,     \* what a call may cost
    None

ASSUME KeyAssumption ==
    /\ AppKey \in Keys \ NonAscii /\ NonAscii \subseteq Keys
    /\ None \notin Requests \cup Keys \cup Nat
ASSUME RequestsAssumption == IsFiniteSet(Requests)

VARIABLES
    http,      \* of each request: key, path and body, or None
    layer,     \* how many middlewares have let it pass
    caller,    \* request.state.caller_id
    response,  \* the status code, or None
    now, windows, verdict, admitted, dropped,   \* of RateLimiter
    state, ledger                               \* of GatewayContract

limiter == <<now, windows, verdict, admitted, dropped>>
gateway == <<state, ledger>>
vars == <<http, layer, caller, response, limiter, gateway>>

Anonymous == "__anonymous__"
Limiter == INSTANCE RateLimiter WITH Callers <- Keys \cup {Anonymous}
Gateway == INSTANCE GatewayContract WITH Calls <- Requests

Exempt == {"/healthz"}
Routes == {"/classify-complexity", "/answer-routed", "/conversation-turn"}

\* What a route does with a body: refuses it (the schema), finds the context
\* too large, or goes on.
Bodies == {"valid", "invalid", "too_large"}

Inputs == [key : Keys, path : Routes \cup Exempt, body : Bodies]

Init ==
    /\ http = [r \in Requests |-> None]
    /\ layer = [r \in Requests |-> 0]
    /\ caller = [r \in Requests |-> Anonymous]
    /\ response = [r \in Requests |-> None]
    /\ Limiter!Init
    /\ Gateway!Init
-----------------------------------------------------------------------------
\* mutant: registered in the order in which they are meant to run.
RegisteredInOrder == <<"APIKeyMiddleware", "RateLimitMiddleware">>

\* app.add_middleware, in the order of the calls.
Middleware == <<"RateLimitMiddleware", "APIKeyMiddleware">>

\* Starlette runs the last one first.
Layer(r) == Middleware[Len(Middleware) - layer[r]]

Arrived(r) == http[r] # None /\ response[r] = None
At(r, name) == Arrived(r) /\ layer[r] < Len(Middleware) /\ Layer(r) = name
AtRoute(r) == Arrived(r) /\ layer[r] = Len(Middleware)

Respond(r, status) == response' = [response EXCEPT ![r] = status]
Pass(r) == layer' = [layer EXCEPT ![r] = @ + 1]

Receive(r, input) ==
    /\ http[r] = None
    /\ http' = [http EXCEPT ![r] = input]
    /\ UNCHANGED <<layer, caller, response, limiter, gateway>>

\* Both middlewares let the health endpoints pass untouched.
Skip(r) ==
    /\ Arrived(r) /\ layer[r] < Len(Middleware) /\ http[r].path \in Exempt
    /\ Pass(r)
    /\ UNCHANGED <<http, caller, response, limiter, gateway>>

\* authenticate compares with the one key there is; resolve_caller names the
\* caller by it.
Authenticated(r) ==
    /\ At(r, "APIKeyMiddleware") /\ http[r].path \notin Exempt
    /\ http[r].key = AppKey
    /\ caller' = [caller EXCEPT ![r] = http[r].key]
    /\ Pass(r)
    /\ UNCHANGED <<http, response, limiter, gateway>>

Unauthorized(r) ==
    /\ At(r, "APIKeyMiddleware") /\ http[r].path \notin Exempt
    /\ http[r].key \notin {AppKey} \cup NonAscii
    /\ Respond(r, 401)
    /\ UNCHANGED <<http, layer, caller, limiter, gateway>>

\* compare_digest raises TypeError for a string that is not ASCII; nothing
\* catches it.
KeyNotComparable(r) ==
    /\ At(r, "APIKeyMiddleware") /\ http[r].path \notin Exempt
    /\ http[r].key \in NonAscii
    /\ Respond(r, 500)
    /\ UNCHANGED <<http, layer, caller, limiter, gateway>>

WithinLimit(r) ==
    /\ At(r, "RateLimitMiddleware") /\ http[r].path \notin Exempt
    /\ \E k \in 0..Len(windows[caller[r]]) : Limiter!Admit(caller[r], k)
    /\ Pass(r)
    /\ UNCHANGED <<http, caller, response, gateway>>

TooManyRequests(r) ==
    /\ At(r, "RateLimitMiddleware") /\ http[r].path \notin Exempt
    /\ \E k \in 0..Len(windows[caller[r]]) : Limiter!Reject(caller[r], k)
    /\ Respond(r, 429)
    /\ UNCHANGED <<http, layer, caller, gateway>>
-----------------------------------------------------------------------------
\* Handlers that answer without the gateway: the health endpoints, the
\* classifier, a body that the schema rejects, a context over its budget.
LocalStatus(r) ==
    CASE http[r].path \in Exempt -> 200
      [] http[r].path \in Routes /\ http[r].body = "invalid" -> 422
      [] http[r].path = "/classify-complexity" /\ http[r].body # "invalid" -> 200
      [] http[r].path = "/conversation-turn" /\ http[r].body = "too_large" -> 400
      [] OTHER -> None

AnswerLocally(r) ==
    /\ AtRoute(r) /\ LocalStatus(r) # None
    /\ Respond(r, LocalStatus(r))
    /\ UNCHANGED <<http, layer, caller, limiter, gateway>>

\* mutant: the handler calls the gateway before it looks at the context.
CallEarly(r) ==
    /\ AtRoute(r) /\ http[r].path \in {"/answer-routed", "/conversation-turn"}
    /\ Gateway!Open(r) /\ state'[r] = "open"
    /\ UNCHANGED <<http, layer, caller, response, limiter>>

\* await call_llm: the routes have policies for their paths and tiers.
CallGateway(r) ==
    /\ AtRoute(r) /\ LocalStatus(r) = None
    /\ Gateway!Open(r) /\ state'[r] = "open"
    /\ UNCHANGED <<http, layer, caller, response, limiter>>

Answer(r) ==
    /\ AtRoute(r)
    /\ \E cost \in Costs : Gateway!Close(r, "success", cost)
    /\ Respond(r, 200)
    /\ UNCHANGED <<http, layer, caller, limiter>>

\* mutant: the exception is swallowed.
FailUnanswered(r) ==
    /\ AtRoute(r)
    /\ Gateway!Close(r, "error", 0)
    /\ UNCHANGED <<http, layer, caller, response, limiter>>

\* No handler catches what call_llm raises.
Fail(r) ==
    /\ AtRoute(r)
    /\ Gateway!Close(r, "error", 0)
    /\ Respond(r, 500)
    /\ UNCHANGED <<http, layer, caller, limiter>>

Clock == Limiter!Tick /\ UNCHANGED <<http, layer, caller, response, gateway>>

Handle(r) ==
    \/ Skip(r)
    \/ Authenticated(r) \/ Unauthorized(r) \/ KeyNotComparable(r)
    \/ WithinLimit(r) \/ TooManyRequests(r)
    \/ AnswerLocally(r) \/ CallGateway(r) \/ Answer(r) \/ Fail(r)

Next ==
    \/ Clock
    \/ \E r \in Requests : Handle(r) \/ \E input \in Inputs : Receive(r, input)

\* The event loop runs every task that is ready, and the gateway's calls end.
Fairness == \A r \in Requests : WF_vars(Handle(r))

Spec == Init /\ [][Next]_vars
FairSpec == Spec /\ Fairness
-----------------------------------------------------------------------------
\* main.py: "no rate-limit window is consumed for invalid keys".  The slots
\* ever given out are exactly the requests that had the right key and were not
\* turned away: one each, none for a probe or a wrong key.
Spent(r) == /\ http[r] # None /\ http[r].path \notin Exempt
            /\ layer[r] = Len(Middleware)

SlotsMatchRequests ==
    /\ Len(admitted[AppKey]) = Cardinality({r \in Requests : Spent(r)})
    /\ \A c \in Keys \cup {Anonymous} : c # AppKey => admitted[c] = <<>>

\* The ledger is that of the answers: every 200 and 500 of a gateway route has
\* one entry with its outcome, and no other response costs anything.
LedgerMatchesResponses ==
    \A r \in Requests :
        LET entries == {i \in DOMAIN ledger : ledger[i].request_id = r}
        IN  IF state[r] \in {"success", "error"}
            THEN /\ Cardinality(entries) = 1
                 /\ response[r] = IF state[r] = "success" THEN 200 ELSE 500
                 /\ \A i \in entries : ledger[i].status = state[r]
            ELSE entries = {} /\ (state[r] = "open" => response[r] = None)

\* README: only call_llm reaches a provider, and only for requests that were
\* let in: nobody's money is spent on a request that is turned away.
GatewayGuarded ==
    \A r \in Requests : state[r] # "waiting" =>
        /\ http[r].key = AppKey /\ Spent(r)
        /\ response[r] \in {None, 200, 500}
        /\ http[r].path = "/conversation-turn" => http[r].body = "valid"

\* Every request gets its response.
Answered == \A r \in Requests : (http[r] # None) ~> (response[r] # None)
=============================================================================
