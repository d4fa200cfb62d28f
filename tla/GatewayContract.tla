--------------------------- MODULE GatewayContract ---------------------------
(***************************************************************************)
(* What the gateway promises: a call that it accepts is closed once, and   *)
(* the instant it closes the ledger holds exactly one entry for it, with   *)
(* the status its caller sees and the money it cost.  There is no state in *)
(* which a caller has its answer and the ledger has not, nor the reverse.  *)
(***************************************************************************)
EXTENDS Naturals, Sequences

CONSTANTS Calls, Costs    \* Costs: what an answered call may cost

VARIABLES
    state,     \* of each call: waiting, open, success, error or refused
    ledger     \* the entries, in the order the calls closed

Init ==
    /\ state = [c \in Calls |-> "waiting"]
    /\ ledger = <<>>

Open(c) ==
    /\ state[c] = "waiting"
    /\ \E s \in {"open", "refused"} : state' = [state EXCEPT ![c] = s]
    /\ UNCHANGED ledger

Close(c, status, cost) ==
    /\ state[c] = "open"
    /\ state' = [state EXCEPT ![c] = status]
    /\ ledger' = Append(ledger, [request_id |-> c, status |-> status, cost |-> cost])

Next == \E c \in Calls : \/ Open(c)
                         \/ \E cost \in Costs : Close(c, "success", cost)
                         \/ Close(c, "error", 0)

Spec == Init /\ [][Next]_<<state, ledger>>
=============================================================================
