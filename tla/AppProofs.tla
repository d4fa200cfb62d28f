------------------------------ MODULE AppProofs ------------------------------
(***************************************************************************)
(* Proofs about the application, for any requests, keys, limit and costs:  *)
(* what a request costs, and whom.                                         *)
(***************************************************************************)
EXTENDS App, FiniteSetTheorems, SequenceTheorems, TLAPS

Callers == Keys \cup {Anonymous}

TypeOK ==
    /\ http \in [Requests -> Inputs \cup {None}]
    /\ layer \in [Requests -> 0..2]
    /\ caller \in [Requests -> Callers]
    /\ response \in [Requests -> Nat \cup {None}]
    /\ now \in Nat
    /\ admitted \in [Callers -> Seq(Nat)]
    /\ state \in [Requests -> {"waiting", "open", "refused", "success", "error"}]
    /\ ledger \in Seq([request_id : Requests, status : {"success", "error"},
                       cost : Costs \cup {0}])

\* The last middleware registered is the first to see a request.
LEMMA Order ==
    ASSUME NEW r \in Requests, layer[r] \in 0..2
    PROVE  /\ Len(Middleware) = 2
           /\ At(r, "APIKeyMiddleware") => layer[r] = 0
           /\ At(r, "RateLimitMiddleware") => layer[r] = 1
BY DEF Middleware, At, Layer

\* What a handler answers by itself is a status code and depends on the
\* request only.
LEMMA LocalStatusType ==
    ASSUME NEW r
    PROVE  /\ LocalStatus(r) \in Nat \cup {None}
           /\ http'[r] = http[r] => LocalStatus(r)' = LocalStatus(r)
<1>1. LocalStatus(r) \in Nat \cup {None}
  BY DEF LocalStatus
<1>2. ASSUME http'[r] = http[r] PROVE LocalStatus(r)' = LocalStatus(r)
  BY <1>2 DEF LocalStatus
<1>3. QED
  BY <1>1, <1>2

(***************************************************************************)
(* What each step does to the request it is about; the others keep still.  *)
(***************************************************************************)

Others(r) ==
    \A q \in Requests \ {r} :
        /\ http'[q] = http[q] /\ layer'[q] = layer[q] /\ caller'[q] = caller[q]
        /\ response'[q] = response[q] /\ state'[q] = state[q]

LEMMA HandleOthers ==
    ASSUME TypeOK, NEW r \in Requests,
           Handle(r) \/ \E input \in Inputs : Receive(r, input)
    PROVE  Others(r)
<1> USE DEF TypeOK, Others, Respond, Pass, gateway, limiter
<1>1. CASE Skip(r) \/ Authenticated(r) \/ Unauthorized(r) \/ KeyNotComparable(r)
  BY <1>1 DEF Skip, Authenticated, Unauthorized, KeyNotComparable
<1>2. CASE WithinLimit(r) \/ TooManyRequests(r) \/ AnswerLocally(r)
  BY <1>2 DEF WithinLimit, TooManyRequests, AnswerLocally
<1>3. CASE CallGateway(r)
  BY <1>3 DEF CallGateway, Gateway!Open
<1>4. CASE Answer(r)
  <2>1. PICK cost \in Costs : Gateway!Close(r, "success", cost)
    BY <1>4 DEF Answer
  <2>2. QED
    BY <1>4, <2>1 DEF Answer, Gateway!Close
<1>5. CASE Fail(r)
  BY <1>5 DEF Fail, Gateway!Close
<1>6. CASE \E input \in Inputs : Receive(r, input)
  BY <1>6 DEF Receive
<1>7. QED
  BY <1>1, <1>2, <1>3, <1>4, <1>5, <1>6 DEF Handle

LEMMA TypeInit == Init => TypeOK
BY DEF Init, TypeOK, Limiter!Init, Gateway!Init, Callers

LEMMA TypeNext == TypeOK /\ [Next]_vars => TypeOK'
<1> SUFFICES ASSUME TypeOK, [Next]_vars PROVE TypeOK'
  OBVIOUS
<1> USE DEF TypeOK, gateway, limiter, Respond, Pass
<1>1. CASE UNCHANGED vars
  BY <1>1 DEF vars
<1>2. CASE Clock
  BY <1>2 DEF Clock, Limiter!Tick
<1>3. ASSUME NEW r \in Requests, NEW input \in Inputs, Receive(r, input) PROVE TypeOK'
  BY <1>3 DEF Receive
<1>4. ASSUME NEW r \in Requests, Skip(r) PROVE TypeOK'
  <2>1. layer[r] \in 0..1
    BY <1>4 DEF Skip, Middleware
  <2>2. layer' \in [Requests -> 0..2]
    BY <1>4, <2>1 DEF Skip
  <2>3. QED
    BY <1>4, <2>2 DEF Skip
<1>5. ASSUME NEW r \in Requests, Authenticated(r) PROVE TypeOK'
  <2>1. layer[r] = 0 /\ http[r].key \in Callers
    BY <1>5, Order, KeyAssumption DEF Authenticated, Callers
  <2>2. QED
    BY <1>5, <2>1 DEF Authenticated
<1>6. ASSUME NEW r \in Requests, Unauthorized(r) \/ KeyNotComparable(r) \/ AnswerLocally(r)
      PROVE  TypeOK'
  <2>1. PICK code \in Nat \cup {None} : response' = [response EXCEPT ![r] = code]
    BY <1>6, LocalStatusType DEF Unauthorized, KeyNotComparable, AnswerLocally
  <2>2. UNCHANGED <<http, layer, caller, now, admitted, state, ledger>>
    BY <1>6 DEF Unauthorized, KeyNotComparable, AnswerLocally
  <2>3. QED
    BY <2>1, <2>2
<1>7. ASSUME NEW r \in Requests, WithinLimit(r) PROVE TypeOK'
  <2>1. PICK k \in 0..Len(windows[caller[r]]) : Limiter!Admit(caller[r], k)
    BY <1>7 DEF WithinLimit
  <2>2. admitted' \in [Callers -> Seq(Nat)] /\ now' \in Nat
    BY <2>1 DEF Limiter!Admit
  <2>3. layer' \in [Requests -> 0..2]
    BY <1>7, Order DEF WithinLimit
  <2>4. QED
    BY <1>7, <2>2, <2>3 DEF WithinLimit
<1>8. ASSUME NEW r \in Requests, TooManyRequests(r) PROVE TypeOK'
  BY <1>8 DEF TooManyRequests, Limiter!Reject
<1>9. ASSUME NEW r \in Requests, CallGateway(r) PROVE TypeOK'
  BY <1>9 DEF CallGateway, Gateway!Open
<1>10. ASSUME NEW r \in Requests, NEW cost \in Costs, Gateway!Close(r, "success", cost),
              Respond(r, 200), UNCHANGED <<http, layer, caller, limiter>>
       PROVE  TypeOK'
  BY <1>10 DEF Gateway!Close
<1>11. ASSUME NEW r \in Requests, Fail(r) PROVE TypeOK'
  BY <1>11 DEF Fail, Gateway!Close
<1>12. QED
  BY <1>1, <1>2, <1>3, <1>4, <1>5, <1>6, <1>7, <1>8, <1>9, <1>10, <1>11
  DEF Next, Handle, Answer

(***************************************************************************)
(* Only requests that were let in reach the gateway.                       *)
(***************************************************************************)

GuardOK(r) ==
    /\ http[r] = None => layer[r] = 0 /\ state[r] = "waiting"
    /\ layer[r] > 0 /\ http[r].path \notin Exempt =>
         http[r].key = AppKey /\ caller[r] = AppKey
    /\ state[r] # "waiting" =>
         /\ layer[r] = 2 /\ http[r].path \notin Exempt
         /\ LocalStatus(r) = None
         /\ response[r] \in {None, 200, 500}
    /\ state[r] = "open" => response[r] = None

Guard == \A r \in Requests : GuardOK(r)

LEMMA GuardOthers ==
    ASSUME Guard, NEW r \in Requests, Others(r), GuardOK(r)'
    PROVE  Guard'
<1>1. \A q \in Requests \ {r} : GuardOK(q)'
  BY LocalStatusType DEF Guard, GuardOK, Others
<1>2. QED
  BY <1>1 DEF Guard

LEMMA GuardNext == TypeOK /\ Guard /\ [Next]_vars => Guard'
<1> SUFFICES ASSUME TypeOK, Guard, [Next]_vars PROVE Guard'
  OBVIOUS
<1>1. CASE UNCHANGED vars \/ Clock
  <2>1. UNCHANGED <<http, layer, caller, response, state>>
    BY <1>1 DEF vars, gateway, Clock
  <2>2. \A r \in Requests : GuardOK(r)'
    BY <2>1, LocalStatusType DEF Guard, GuardOK
  <2>3. QED
    BY <2>2 DEF Guard
<1>2. ASSUME NEW r \in Requests,
             Handle(r) \/ \E input \in Inputs : Receive(r, input)
      PROVE  Guard'
  <2> SUFFICES GuardOK(r)'
    BY <1>2, HandleOthers, GuardOthers
  <2>0. GuardOK(r) /\ layer[r] \in 0..2
    BY DEF Guard, TypeOK
  <2>1. CASE \E input \in Inputs : Receive(r, input)
    BY <2>0, <2>1 DEF Receive, GuardOK, gateway, TypeOK
  <2>2. CASE Skip(r)
    <3>1. http[r] # None /\ http[r].path \in Exempt /\ layer[r] < 2
          /\ UNCHANGED <<http, caller, response, state>> /\ layer' = [layer EXCEPT ![r] = @ + 1]
      BY <2>2, <2>0, Order DEF Skip, Arrived, Pass, gateway
    <3>2. QED
      BY <2>0, <3>1 DEF GuardOK, TypeOK
  <2>3. CASE Authenticated(r)
    <3>1. /\ http[r] # None /\ layer[r] = 0 /\ http[r].key = AppKey
          /\ UNCHANGED <<http, response, state>>
          /\ layer'[r] = 1 /\ caller'[r] = AppKey
      BY <2>3, <2>0, Order DEF Authenticated, At, Arrived, Pass, gateway, TypeOK
    <3>2. QED
      BY <2>0, <3>1 DEF GuardOK
  <2>4. CASE Unauthorized(r) \/ KeyNotComparable(r)
    <3>1. layer[r] = 0 /\ UNCHANGED <<http, layer, caller, state>>
      BY <2>4, <2>0, Order DEF Unauthorized, KeyNotComparable, gateway
    <3>2. QED
      BY <2>0, <3>1 DEF GuardOK
  <2>5. CASE WithinLimit(r)
    <3>1. /\ http[r] # None /\ layer[r] = 1 /\ layer'[r] = 2
          /\ UNCHANGED <<http, caller, response, state>>
      BY <2>5, <2>0, Order DEF WithinLimit, At, Arrived, Pass, gateway, TypeOK
    <3>2. QED
      BY <2>0, <3>1 DEF GuardOK
  <2>6. CASE TooManyRequests(r)
    <3>1. layer[r] = 1 /\ UNCHANGED <<http, layer, caller, state>>
      BY <2>6, <2>0, Order DEF TooManyRequests, gateway
    <3>2. QED
      BY <2>0, <3>1 DEF GuardOK
  <2>7. CASE AnswerLocally(r)
    <3>1. /\ LocalStatus(r) # None /\ layer[r] = 2 /\ http[r] # None
          /\ UNCHANGED <<http, layer, caller, state>>
      BY <2>7, <2>0, Order DEF AnswerLocally, AtRoute, Arrived, gateway
    <3>2. state[r] = "waiting"
      BY <2>0, <3>1 DEF GuardOK
    <3>3. QED
      BY <2>0, <3>1, <3>2 DEF GuardOK
  <2>8. CASE CallGateway(r)
    <3>1. /\ LocalStatus(r) = None /\ layer[r] = 2 /\ http[r] # None /\ response[r] = None
          /\ UNCHANGED <<http, layer, caller, response>>
      BY <2>8, <2>0, Order DEF CallGateway, AtRoute, Arrived
    <3>2. http[r].path \notin Exempt
      BY <3>1, KeyAssumption DEF LocalStatus
    <3>3. LocalStatus(r)' = None
      BY <3>1 DEF LocalStatus
    <3>4. QED
      BY <2>0, <3>1, <3>2, <3>3 DEF GuardOK
  <2>9. CASE Answer(r) \/ Fail(r)
    <3>1. /\ state[r] = "open" /\ state'[r] \in {"success", "error"}
          /\ response'[r] \in {200, 500}
          /\ UNCHANGED <<http, layer, caller>>
      <4>1. \E cost : Gateway!Close(r, "success", cost) \/ Gateway!Close(r, "error", cost)
        <5>1. CASE Answer(r)
          BY <5>1 DEF Answer
        <5>2. CASE Fail(r)
          BY <5>2 DEF Fail
        <5>3. QED
          BY <2>9, <5>1, <5>2
      <4>2. state[r] = "open" /\ state'[r] \in {"success", "error"}
        BY <4>1 DEF Gateway!Close, TypeOK
      <4>3. response'[r] \in {200, 500} /\ UNCHANGED <<http, layer, caller>>
        BY <2>9 DEF Answer, Fail, Respond, TypeOK
      <4>4. QED
        BY <4>2, <4>3
    <3>2. LocalStatus(r)' = LocalStatus(r)
      BY <3>1, LocalStatusType
    <3>3. QED
      BY <2>0, <3>1, <3>2 DEF GuardOK
  <2>10. QED
    BY <1>2, <2>1, <2>2, <2>3, <2>4, <2>5, <2>6, <2>7, <2>8, <2>9 DEF Handle
<1>3. QED
  BY <1>1, <1>2 DEF Next
\* Whatever arrives in whatever order, a call to the gateway belongs to a
\* request with the right key that has its slot and a body worth it.
THEOREM OnlyGuestsCall == Spec => []GatewayGuarded
<1>1. Init => Guard
  BY DEF Init, Guard, GuardOK, Gateway!Init
<1>2. ASSUME TypeOK, Guard PROVE GatewayGuarded
  <2> SUFFICES ASSUME NEW r \in Requests, state[r] # "waiting"
               PROVE  /\ http[r].key = AppKey /\ Spent(r)
                      /\ response[r] \in {None, 200, 500}
                      /\ http[r].path = "/conversation-turn" => http[r].body = "valid"
    BY DEF GatewayGuarded
  <2>1. /\ http[r] # None /\ layer[r] = 2 /\ http[r].path \notin Exempt
        /\ LocalStatus(r) = None /\ response[r] \in {None, 200, 500}
        /\ http[r].key = AppKey /\ http[r] \in Inputs
    BY <1>2 DEF Guard, GuardOK, TypeOK
  <2>2. http[r].path = "/conversation-turn" => http[r].body = "valid"
    BY <2>1, KeyAssumption DEF LocalStatus, Inputs, Bodies, Routes, Exempt
  <2>3. QED
    BY <2>1, <2>2 DEF Spent, Middleware
<1>3. QED
  BY <1>1, <1>2, TypeInit, TypeNext, GuardNext, PTL DEF Spec

(***************************************************************************)
(* Slots.  The key's history grows by one exactly when one more request    *)
(* has passed both middlewares; nobody else has a history.                 *)
(***************************************************************************)

SpentSet == {r \in Requests : Spent(r)}

LEMMA SpentFinite == IsFiniteSet(SpentSet) /\ Cardinality(SpentSet) \in Nat
BY RequestsAssumption, FS_Subset, FS_CardinalityType DEF SpentSet

\* A step that spends nothing and admits nobody.
LEMMA NothingSpent ==
    ASSUME SlotsMatchRequests, NEW r \in Requests, Others(r),
           Spent(r)' <=> Spent(r), UNCHANGED admitted
    PROVE  SlotsMatchRequests'
<1>1. \A q \in Requests : Spent(q)' <=> Spent(q)
  BY DEF Others, Spent
<1>2. {q \in Requests : Spent(q)}' = {q \in Requests : Spent(q)}
  BY <1>1
<1>3. QED
  BY <1>2 DEF SlotsMatchRequests

LEMMA SlotsNext == TypeOK /\ Guard /\ SlotsMatchRequests /\ [Next]_vars => SlotsMatchRequests'
<1> SUFFICES ASSUME TypeOK, Guard, SlotsMatchRequests, [Next]_vars PROVE SlotsMatchRequests'
  OBVIOUS
<1>1. CASE UNCHANGED vars \/ Clock
  <2>1. UNCHANGED <<http, layer, admitted>>
    BY <1>1 DEF vars, limiter, Clock, Limiter!Tick
  <2>2. QED
    BY <2>1 DEF SlotsMatchRequests, Spent
<1>2. ASSUME NEW r \in Requests,
             Handle(r) \/ \E input \in Inputs : Receive(r, input)
      PROVE  SlotsMatchRequests'
  <2>0. GuardOK(r) /\ layer[r] \in 0..2 /\ Others(r)
    BY <1>2, HandleOthers DEF Guard, TypeOK
  <2>1. CASE \E input \in Inputs : Receive(r, input)
    <3>1. layer[r] = 0 /\ UNCHANGED <<layer, admitted>>
      BY <2>0, <2>1 DEF Receive, GuardOK, limiter
    <3>2. QED
      BY <2>0, <3>1, NothingSpent DEF Spent, Middleware
  <2>2. CASE Skip(r)
    <3>1. http[r].path \in Exempt /\ UNCHANGED <<http, admitted>>
      BY <2>2 DEF Skip, limiter
    <3>2. QED
      BY <2>0, <3>1, NothingSpent DEF Spent
  <2>3. CASE Authenticated(r)
    <3>1. layer[r] = 0 /\ layer'[r] = 1 /\ UNCHANGED <<http, admitted>>
      BY <2>0, <2>3, Order DEF Authenticated, Pass, TypeOK, limiter
    <3>2. QED
      BY <2>0, <3>1, NothingSpent DEF Spent, Middleware
  <2>4. CASE \/ Unauthorized(r) \/ KeyNotComparable(r) \/ TooManyRequests(r)
             \/ AnswerLocally(r) \/ CallGateway(r) \/ Answer(r) \/ Fail(r)
    <3>1. UNCHANGED <<http, layer, admitted>>
      BY <2>4 DEF Unauthorized, KeyNotComparable, TooManyRequests, Limiter!Reject,
                  AnswerLocally, CallGateway, Answer, Fail, limiter
    <3>2. QED
      BY <2>0, <3>1, NothingSpent DEF Spent
  <2>5. CASE WithinLimit(r)
    <3>1. /\ http[r] # None /\ http[r].path \notin Exempt /\ layer[r] = 1
          /\ layer'[r] = 2 /\ caller[r] = AppKey /\ UNCHANGED http
      BY <2>0, <2>5, Order DEF WithinLimit, At, Arrived, Pass, GuardOK, TypeOK
    <3>2. PICK k \in 0..Len(windows[caller[r]]) : Limiter!Admit(caller[r], k)
      BY <2>5 DEF WithinLimit
    <3>3. AppKey \in Callers
      BY KeyAssumption DEF Callers
    <3>4. /\ Len(admitted'[AppKey]) = Len(admitted[AppKey]) + 1
          /\ \A c \in Callers : c # AppKey => admitted'[c] = admitted[c]
      BY <3>1, <3>2, <3>3 DEF Limiter!Admit, TypeOK
    <3>5. SpentSet' = SpentSet \cup {r} /\ r \notin SpentSet
      BY <2>0, <3>1 DEF SpentSet, Spent, Others, Middleware
    <3>6. Cardinality(SpentSet') = Cardinality(SpentSet) + 1
      BY <3>5, SpentFinite, FS_AddElement
    <3>7. QED
      BY <3>4, <3>6 DEF SlotsMatchRequests, SpentSet, Callers
  <2>6. QED
    BY <1>2, <2>1, <2>2, <2>3, <2>4, <2>5 DEF Handle
<1>3. QED
  BY <1>1, <1>2 DEF Next

\* Requests of any number and order: the one key has given out one slot for
\* each request that passed both middlewares, and no other caller any.
THEOREM OneSlotPerGuest == Spec => []SlotsMatchRequests
<1>1. Init => SlotsMatchRequests
  <2> SUFFICES ASSUME Init PROVE SlotsMatchRequests
    OBVIOUS
  <2>1. \A c \in Callers : admitted[c] = <<>>
    BY DEF Init, Limiter!Init, Callers
  <2>2. SpentSet = {}
    BY DEF Init, SpentSet, Spent
  <2>3. AppKey \in Callers
    BY KeyAssumption DEF Callers
  <2>4. Cardinality(SpentSet) = 0
    BY <2>2, FS_EmptySet
  <2>5. Len(admitted[AppKey]) = 0
    BY <2>1, <2>3
  <2>6. QED
    BY <2>1, <2>4, <2>5 DEF SlotsMatchRequests, SpentSet, Callers
<1>2. Init => Guard
  BY DEF Init, Guard, GuardOK, Gateway!Init
<1>3. QED
  BY <1>1, <1>2, TypeInit, TypeNext, GuardNext, SlotsNext, PTL DEF Spec
(***************************************************************************)
(* The ledger and the responses.                                           *)
(***************************************************************************)

Entries(r) == {i \in DOMAIN ledger : ledger[i].request_id = r}

LedgerOK(r) ==
    IF state[r] \in {"success", "error"}
    THEN /\ Cardinality(Entries(r)) = 1
         /\ response[r] = IF state[r] = "success" THEN 200 ELSE 500
         /\ \A i \in Entries(r) : ledger[i].status = state[r]
    ELSE Entries(r) = {} /\ (state[r] = "open" => response[r] = None)

LEMMA LedgerByRequest == LedgerMatchesResponses <=> \A r \in Requests : LedgerOK(r)
BY DEF LedgerMatchesResponses, LedgerOK, Entries

\* Closing a call adds one entry, to that call.
LEMMA CloseEntries ==
    ASSUME TypeOK, NEW r \in Requests, NEW status, NEW cost, Gateway!Close(r, status, cost)
    PROVE  /\ Entries(r)' = Entries(r) \cup {Len(ledger) + 1}
           /\ ledger'[Len(ledger) + 1].status = status
           /\ \A i \in DOMAIN ledger : ledger'[i] = ledger[i]
           /\ \A q \in Requests \ {r} : Entries(q)' = Entries(q)
<1> DEFINE entry == [request_id |-> r, status |-> status, cost |-> cost]
<1>1. ledger' = Append(ledger, entry)
  BY DEF Gateway!Close
<1>2. ledger \in Seq([request_id : Requests, status : {"success", "error"},
                      cost : Costs \cup {0}])
  BY DEF TypeOK
<1>3. entry.request_id = r /\ entry.status = status
  OBVIOUS
<1> HIDE DEF entry
<1>4. /\ Len(ledger) \in Nat /\ DOMAIN ledger = 1..Len(ledger)
      /\ DOMAIN ledger' = 1..(Len(ledger) + 1)
      /\ ledger'[Len(ledger) + 1] = entry
      /\ \A i \in 1..Len(ledger) : ledger'[i] = ledger[i]
  BY <1>1, <1>2
<1>5. QED
  BY <1>3, <1>4 DEF Entries

LEMMA LedgerClose ==
    ASSUME TypeOK, \A q \in Requests : LedgerOK(q), NEW r \in Requests, Others(r),
           NEW status \in {"success", "error"}, NEW cost, Gateway!Close(r, status, cost),
           response'[r] = IF status = "success" THEN 200 ELSE 500
    PROVE  \A q \in Requests : LedgerOK(q)'
<1>1. /\ state[r] = "open" /\ state'[r] = status /\ Entries(r) = {}
  <2>1. state[r] = "open" /\ state'[r] = status
    BY DEF Gateway!Close, TypeOK
  <2>2. QED
    BY <2>1 DEF LedgerOK
<1>2. Entries(r)' = {Len(ledger) + 1} /\ ledger'[Len(ledger) + 1].status = status
  BY <1>1, CloseEntries
<1>3. Cardinality(Entries(r)') = 1
  <2>1. Cardinality({Len(ledger) + 1}) = 1
    BY FS_Singleton
  <2>2. QED
    BY <1>2, <2>1
<1>4. LedgerOK(r)'
  BY <1>1, <1>2, <1>3 DEF LedgerOK
<1>5. ASSUME NEW q \in Requests \ {r} PROVE LedgerOK(q)'
  <2>1. /\ Entries(q)' = Entries(q) /\ state'[q] = state[q] /\ response'[q] = response[q]
        /\ \A i \in DOMAIN ledger : ledger'[i] = ledger[i]
    BY CloseEntries DEF Others
  <2>2. \A i \in Entries(q) : ledger'[i] = ledger[i]
    BY <2>1 DEF Entries
  <2>3. QED
    BY <2>1, <2>2 DEF LedgerOK
<1>6. QED
  BY <1>4, <1>5

\* A step that closes nothing keeps the ledger, and answers only a request
\* whose call, if it has one, is not over.
LEMMA LedgerKept ==
    ASSUME \A q \in Requests : LedgerOK(q), NEW r \in Requests, Others(r), UNCHANGED ledger,
           \/ state'[r] = state[r] /\ response'[r] = response[r]
           \/ state[r] = "waiting" /\ state'[r] = "waiting"
           \/ state[r] = "waiting" /\ state'[r] = "open" /\ response'[r] = None
    PROVE  \A q \in Requests : LedgerOK(q)'
<1>1. \A q \in Requests : Entries(q)' = Entries(q)
  BY DEF Entries
<1>2. QED
  BY <1>1 DEF LedgerOK, Others

LEMMA LedgerNext ==
    TypeOK /\ Guard /\ LedgerMatchesResponses /\ [Next]_vars => LedgerMatchesResponses'
<1> SUFFICES ASSUME TypeOK, Guard, \A q \in Requests : LedgerOK(q), [Next]_vars
             PROVE  \A q \in Requests : LedgerOK(q)'
  BY DEF LedgerMatchesResponses, LedgerOK, Entries
<1>1. CASE UNCHANGED vars \/ Clock
  <2>1. UNCHANGED <<state, response, ledger>>
    BY <1>1 DEF vars, gateway, Clock
  <2>2. QED
    BY <2>1 DEF LedgerOK, Entries
<1>2. ASSUME NEW r \in Requests,
             Handle(r) \/ \E input \in Inputs : Receive(r, input)
      PROVE  \A q \in Requests : LedgerOK(q)'
  <2>0. GuardOK(r) /\ layer[r] \in 0..2 /\ Others(r)
    BY <1>2, HandleOthers DEF Guard, TypeOK
  <2>1. CASE \/ Skip(r) \/ Authenticated(r) \/ WithinLimit(r)
             \/ \E input \in Inputs : Receive(r, input)
    <3>1. UNCHANGED <<state, response, ledger>>
      BY <2>1 DEF Skip, Authenticated, WithinLimit, Receive, gateway
    <3>2. QED
      BY <2>0, <3>1, LedgerKept
  <2>2. CASE Unauthorized(r) \/ KeyNotComparable(r) \/ TooManyRequests(r) \/ AnswerLocally(r)
    <3>1. UNCHANGED <<state, ledger>>
      BY <2>2 DEF Unauthorized, KeyNotComparable, TooManyRequests, AnswerLocally, gateway
    <3>2. state[r] = "waiting"
      BY <2>0, <2>2, Order DEF Unauthorized, KeyNotComparable, TooManyRequests,
                               AnswerLocally, GuardOK
    <3>3. QED
      BY <2>0, <3>1, <3>2, LedgerKept
  <2>3. CASE CallGateway(r)
    <3>1. /\ state[r] = "waiting" /\ state'[r] = "open" /\ response'[r] = None
          /\ UNCHANGED ledger
      BY <2>3 DEF CallGateway, Gateway!Open, AtRoute, Arrived
    <3>2. QED
      BY <2>0, <3>1, LedgerKept
  <2>4. CASE Answer(r)
    <3>1. PICK cost \in Costs : Gateway!Close(r, "success", cost)
      BY <2>4 DEF Answer
    <3>2. response'[r] = 200
      BY <2>4 DEF Answer, Respond, TypeOK
    <3>3. QED
      BY <2>0, <3>1, <3>2, LedgerClose
  <2>5. CASE Fail(r)
    <3>1. Gateway!Close(r, "error", 0) /\ response'[r] = 500
      BY <2>5 DEF Fail, Respond, TypeOK
    <3>2. QED
      BY <2>0, <3>1, LedgerClose
  <2>6. QED
    BY <1>2, <2>1, <2>2, <2>3, <2>4, <2>5 DEF Handle
<1>3. QED
  BY <1>1, <1>2 DEF Next

\* Each answered or failed call has one entry in the ledger, with the outcome
\* its client was told, and no other request has any.
THEOREM LedgerTrue == Spec => []LedgerMatchesResponses
<1>1. Init => LedgerMatchesResponses
  BY DEF Init, Gateway!Init, LedgerMatchesResponses
<1>2. Init => Guard
  BY DEF Init, Guard, GuardOK, Gateway!Init
<1>3. QED
  BY <1>1, <1>2, TypeInit, TypeNext, GuardNext, LedgerNext, PTL DEF Spec
=============================================================================
