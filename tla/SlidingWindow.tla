---------------------------- MODULE SlidingWindow ----------------------------
(***************************************************************************)
(* The per-caller limit a sliding window stands for, stated over the whole *)
(* history of admissions: a request is admitted exactly when fewer than    *)
(* RPM requests of the same caller were admitted in the last Window        *)
(* seconds.  It forgets nothing and never looks at another caller.         *)
(***************************************************************************)
EXTENDS Naturals, Sequences, FiniteSets

CONSTANTS Callers, RPM, Window

VARIABLES now, admitted, verdict

Init ==
    /\ now = 0
    /\ admitted = [c \in Callers |-> <<>>]
    /\ verdict = [c \in Callers |-> "none"]

Recent(c) == {i \in DOMAIN admitted[c] : now - admitted[c][i] <= Window}

Admit(c) ==
    /\ Cardinality(Recent(c)) < RPM
    /\ admitted' = [admitted EXCEPT ![c] = Append(@, now)]
    /\ verdict' = [verdict EXCEPT ![c] = "admitted"]
    /\ UNCHANGED now

Reject(c) ==
    /\ Cardinality(Recent(c)) >= RPM
    /\ verdict' = [verdict EXCEPT ![c] = "rejected"]
    /\ UNCHANGED <<now, admitted>>

Tick == now' = now + 1 /\ UNCHANGED <<admitted, verdict>>

Next == Tick \/ \E c \in Callers : Admit(c) \/ Reject(c)

Spec == Init /\ [][Next]_<<now, admitted, verdict>>
=============================================================================
