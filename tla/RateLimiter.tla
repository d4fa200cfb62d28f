----------------------------- MODULE RateLimiter -----------------------------
(***************************************************************************)
(* RateLimitMiddleware: one deque of admission times per caller, pruned    *)
(* from the left at every request of that caller and never in between.     *)
(* dispatch does not await between reading the clock and appending, so a   *)
(* decision is one action.  Time is the monotonic clock in whole ticks;    *)
(* several requests may fall on one tick.                                  *)
(***************************************************************************)
EXTENDS Naturals, Sequences, FiniteSets

CONSTANTS
    Callers,   \* caller ids, "__anonymous__" for requests without one
    RPM,       \* RATE_LIMIT_RPM
    Window,    \* 60 seconds in the code
    MaxTime    \* bound on the clock of a bounded run

ASSUME RateAssumption == RPM \in Nat /\ Window \in Nat /\ MaxTime \in Nat

VARIABLES
    now,       \* time.monotonic()
    windows,   \* _windows: the deque of each caller
    verdict,   \* the last answer each caller got: none, admitted or rejected
    admitted,  \* history: all admission times of each caller
    dropped    \* history: how many of them its deque has let go

vars == <<now, windows, verdict, admitted, dropped>>

Init ==
    /\ now = 0
    /\ windows = [c \in Callers |-> <<>>]
    /\ verdict = [c \in Callers |-> "none"]
    /\ admitted = [c \in Callers |-> <<>>]
    /\ dropped = [c \in Callers |-> 0]

\* mutant: an entry that is exactly Window old is let go.
ExpiredEarly(t) == now - t >= Window

Expired(t) == now - t > Window

\* The while loop pops k entries: the leading expired ones, all of them.
PrunesFirst(w, k) ==
    /\ k \in 0..Len(w)
    /\ \A i \in 1..k : Expired(w[i])
    /\ k < Len(w) => ~Expired(w[k + 1])

\* mutant: one more request than the limit fits in.
AdmitOneMore(c, k) ==
    /\ PrunesFirst(windows[c], k)
    /\ Len(windows[c]) - k <= RPM
    /\ windows' = [windows EXCEPT ![c] = Append(SubSeq(@, k + 1, Len(@)), now)]
    /\ verdict' = [verdict EXCEPT ![c] = "admitted"]
    /\ admitted' = [admitted EXCEPT ![c] = Append(@, now)]
    /\ dropped' = [dropped EXCEPT ![c] = @ + k]
    /\ UNCHANGED now

\* There is room after pruning: append and pass the request on.
Admit(c, k) ==
    /\ PrunesFirst(windows[c], k)
    /\ Len(windows[c]) - k < RPM
    /\ windows' = [windows EXCEPT ![c] = Append(SubSeq(@, k + 1, Len(@)), now)]
    /\ verdict' = [verdict EXCEPT ![c] = "admitted"]
    /\ admitted' = [admitted EXCEPT ![c] = Append(@, now)]
    /\ dropped' = [dropped EXCEPT ![c] = @ + k]
    /\ UNCHANGED now

\* mutant: a rejected request takes a slot too.
RejectAndCount(c, k) ==
    /\ PrunesFirst(windows[c], k)
    /\ Len(windows[c]) - k >= RPM
    /\ windows' = [windows EXCEPT ![c] = Append(SubSeq(@, k + 1, Len(@)), now)]
    /\ verdict' = [verdict EXCEPT ![c] = "rejected"]
    /\ dropped' = [dropped EXCEPT ![c] = @ + k]
    /\ UNCHANGED <<now, admitted>>

\* 429: the pruning stays, nothing is appended.
Reject(c, k) ==
    /\ PrunesFirst(windows[c], k)
    /\ Len(windows[c]) - k >= RPM
    /\ windows' = [windows EXCEPT ![c] = SubSeq(@, k + 1, Len(@))]
    /\ verdict' = [verdict EXCEPT ![c] = "rejected"]
    /\ dropped' = [dropped EXCEPT ![c] = @ + k]
    /\ UNCHANGED <<now, admitted>>

Dispatch(c) == \E k \in 0..Len(windows[c]) : Admit(c, k) \/ Reject(c, k)

Tick ==
    /\ now < MaxTime
    /\ now' = now + 1
    /\ UNCHANGED <<windows, verdict, admitted, dropped>>

Next == Tick \/ \E c \in Callers : Dispatch(c)

Spec == Init /\ [][Next]_vars
-----------------------------------------------------------------------------
\* Clock readings; a deque is what its caller's history has left.
TypeOK ==
    /\ now \in Nat
    /\ verdict \in [Callers -> {"none", "admitted", "rejected"}]
    /\ windows \in [Callers -> Seq(Nat)]
    /\ admitted \in [Callers -> Seq(Nat)]
    /\ dropped \in [Callers -> Nat]

\* No caller ever has more than RPM requests admitted within Window seconds,
\* wherever the window is laid: RPM admissions later, the window is over.
RateBound ==
    \A c \in Callers : \A i \in DOMAIN admitted[c] :
        i + RPM \in DOMAIN admitted[c] =>
            admitted[c][i + RPM] - admitted[c][i] > Window

\* The deque of a caller never outgrows the limit, however often and in
\* whatever pattern the caller knocks.
DequeBounded == \A c \in Callers : Len(windows[c]) <= RPM

\* Retry-After: 60.  Once its admissions are more than Window seconds old, the
\* next request of a caller is admitted, however often it was rejected since:
\* a caller that keeps knocking does not shut itself out.
AllExpired(c) == \A i \in DOMAIN admitted[c] : Expired(admitted[c][i])

RetryAfterHonoured ==
    [][\A c \in Callers :
        RPM > 0 /\ AllExpired(c) /\ Dispatch(c) => verdict'[c] = "admitted"]_vars

\* The deque decides as the whole history would.
Abstract == INSTANCE SlidingWindow
ImplementsSlidingWindow == Abstract!Spec
=============================================================================
