-------------------------- MODULE RateLimiterProofs --------------------------
(***************************************************************************)
(* Proofs about the rate limiter, for any callers, limit, window length    *)
(* and clock bound.                                                        *)
(***************************************************************************)
EXTENDS RateLimiter, FiniteSetTheorems, SequenceTheorems, TLAPS

(***************************************************************************)
(* The deque is the history without its first dropped entries, and those   *)
(* are expired; the history is in order.  Without the order, an expired    *)
(* head would say nothing of the entries behind it.                        *)
(***************************************************************************)

InOrder(c) ==
    \A i, j \in DOMAIN admitted[c] : i <= j => admitted[c][i] <= admitted[c][j]

NotAhead(c) == \A i \in DOMAIN admitted[c] : admitted[c][i] <= now

IsRest(c) ==
    /\ Len(admitted[c]) = dropped[c] + Len(windows[c])
    /\ \A i \in 1..Len(windows[c]) : windows[c][i] = admitted[c][dropped[c] + i]

DroppedExpired(c) == \A i \in 1..dropped[c] : Expired(admitted[c][i])

CallerInv(c) ==
    /\ InOrder(c)
    /\ NotAhead(c)
    /\ IsRest(c)
    /\ DroppedExpired(c)
    /\ Len(windows[c]) <= RPM
    /\ \A i \in DOMAIN admitted[c] :
         i + RPM \in DOMAIN admitted[c] =>
            admitted[c][i + RPM] - admitted[c][i] > Window

WindowInv == \A c \in Callers : CallerInv(c)

LEMMA TypeInit == Init => TypeOK
BY DEF Init, TypeOK

\* What the two outcomes of a request leave in the deque.
LEMMA PruneType ==
    ASSUME TypeOK, NEW c \in Callers, NEW k, PrunesFirst(windows[c], k)
    PROVE  /\ k \in 0..Len(windows[c])
           /\ SubSeq(windows[c], k + 1, Len(windows[c])) \in Seq(Nat)
           /\ Len(SubSeq(windows[c], k + 1, Len(windows[c]))) = Len(windows[c]) - k
           /\ \A i \in 1..(Len(windows[c]) - k) :
                SubSeq(windows[c], k + 1, Len(windows[c]))[i] = windows[c][k + i]
<1>1. windows[c] \in Seq(Nat) /\ k \in 0..Len(windows[c])
  BY DEF TypeOK, PrunesFirst
<1>2. QED
  BY <1>1

LEMMA TypeNext == TypeOK /\ [Next]_vars => TypeOK'
<1> SUFFICES ASSUME TypeOK, [Next]_vars PROVE TypeOK'
  OBVIOUS
<1>1. CASE UNCHANGED vars
  BY <1>1 DEF vars, TypeOK
<1>2. CASE Tick
  BY <1>2 DEF Tick, TypeOK
<1>3. ASSUME NEW c \in Callers, NEW k, Admit(c, k) PROVE TypeOK'
  <2>1. k \in Nat /\ SubSeq(windows[c], k + 1, Len(windows[c])) \in Seq(Nat)
    BY <1>3, PruneType DEF Admit
  <2>2. Append(SubSeq(windows[c], k + 1, Len(windows[c])), now) \in Seq(Nat)
    BY <2>1 DEF TypeOK
  <2>3. Append(admitted[c], now) \in Seq(Nat)
    BY DEF TypeOK
  <2>4. QED
    BY <1>3, <2>1, <2>2, <2>3 DEF Admit, TypeOK
<1>4. ASSUME NEW c \in Callers, NEW k, Reject(c, k) PROVE TypeOK'
  <2>1. k \in Nat /\ SubSeq(windows[c], k + 1, Len(windows[c])) \in Seq(Nat)
    BY <1>4, PruneType DEF Reject
  <2>2. QED
    BY <1>4, <2>1 DEF Reject, TypeOK
<1>5. QED
  BY <1>1, <1>2, <1>3, <1>4 DEF Next, Dispatch

\* Every deque is a sequence of clock readings.
THEOREM TypeCorrect == Spec => []TypeOK
BY TypeInit, TypeNext, PTL DEF Spec

(***************************************************************************)
(* The invariant is kept.                                                  *)
(***************************************************************************)

LEMMA WindowInit == Init => WindowInv
BY RateAssumption
DEF Init, WindowInv, CallerInv, InOrder, NotAhead, IsRest, DroppedExpired

\* Everything the invariant says of a caller survives the clock.
LEMMA WindowTick == TypeOK /\ WindowInv /\ Tick => WindowInv'
<1> SUFFICES ASSUME TypeOK, WindowInv, Tick, NEW c \in Callers PROVE CallerInv(c)'
  BY DEF WindowInv
<1>1. /\ CallerInv(c) /\ now' = now + 1 /\ now \in Nat
      /\ admitted' = admitted /\ windows' = windows /\ dropped' = dropped
      /\ admitted[c] \in Seq(Nat) /\ dropped[c] \in Nat /\ windows[c] \in Seq(Nat)
  BY DEF WindowInv, Tick, TypeOK
<1>2. NotAhead(c)'
  BY <1>1 DEF CallerInv, NotAhead
<1>3. DroppedExpired(c)'
  <2>1. ASSUME NEW i \in 1..dropped[c] PROVE now' - admitted[c][i] > Window
    <3>1. i \in 1..Len(admitted[c])
      BY <1>1 DEF CallerInv, IsRest
    <3>2. admitted[c][i] \in Nat /\ now - admitted[c][i] > Window
      BY <1>1, <3>1 DEF CallerInv, DroppedExpired, Expired
    <3>3. QED
      BY <1>1, <3>2, RateAssumption
  <2>2. QED
    BY <1>1, <2>1 DEF DroppedExpired, Expired
<1>4. QED
  BY <1>1, <1>2, <1>3 DEF CallerInv, InOrder, IsRest

\* Pruning drops expired entries only, so the dropped ones stay expired.
LEMMA PrunedExpired ==
    ASSUME TypeOK, NEW c \in Callers, CallerInv(c), NEW k, PrunesFirst(windows[c], k)
    PROVE  /\ dropped[c] + k <= Len(admitted[c])
           /\ \A i \in 1..(dropped[c] + k) : Expired(admitted[c][i])
<1>1. /\ k \in Nat /\ k <= Len(windows[c]) /\ dropped[c] \in Nat
      /\ Len(windows[c]) \in Nat /\ IsRest(c) /\ DroppedExpired(c)
  BY DEF PrunesFirst, TypeOK, CallerInv
<1>2. ASSUME NEW i \in 1..(dropped[c] + k) PROVE Expired(admitted[c][i])
  <2>1. CASE i <= dropped[c]
    BY <1>1, <2>1 DEF DroppedExpired
  <2>2. CASE i > dropped[c]
    <3>1. i - dropped[c] \in 1..k
      BY <1>1, <2>2
    <3>2. windows[c][i - dropped[c]] = admitted[c][i]
      <4>1. i - dropped[c] \in 1..Len(windows[c]) /\ dropped[c] + (i - dropped[c]) = i
        BY <1>1, <3>1
      <4>2. windows[c][i - dropped[c]] = admitted[c][dropped[c] + (i - dropped[c])]
        BY <1>1, <4>1 DEF IsRest
      <4>3. QED
        BY <4>1, <4>2
    <3>3. QED
      BY <3>1, <3>2 DEF PrunesFirst
  <2>3. QED
    BY <1>1, <2>1, <2>2
<1>3. QED
  BY <1>1, <1>2 DEF IsRest

LEMMA RejectKeeps ==
    ASSUME TypeOK, NEW c \in Callers, CallerInv(c), NEW k, Reject(c, k)
    PROVE  CallerInv(c)'
<1>1. /\ windows'[c] = SubSeq(windows[c], k + 1, Len(windows[c]))
      /\ dropped'[c] = dropped[c] + k /\ admitted' = admitted /\ now' = now
      /\ PrunesFirst(windows[c], k)
  BY DEF Reject, TypeOK
<1>2. /\ k \in Nat /\ k <= Len(windows[c]) /\ Len(windows[c]) \in Nat
      /\ dropped[c] \in Nat
      /\ Len(windows'[c]) = Len(windows[c]) - k
      /\ \A i \in 1..(Len(windows[c]) - k) : windows'[c][i] = windows[c][k + i]
  BY <1>1, PruneType DEF TypeOK
<1>3. IsRest(c)'
  <2>1. Len(admitted[c]) = dropped[c] + Len(windows[c])
    BY DEF CallerInv, IsRest
  <2>2. ASSUME NEW i \in 1..Len(windows'[c])
        PROVE  windows'[c][i] = admitted'[c][dropped'[c] + i]
    <3>1. k + i \in 1..Len(windows[c])
      BY <1>2
    <3>2. windows[c][k + i] = admitted[c][dropped[c] + (k + i)]
      BY <3>1 DEF CallerInv, IsRest
    <3>3. dropped[c] + (k + i) = dropped'[c] + i
      <4>1. dropped'[c] = dropped[c] + k /\ dropped[c] \in Nat /\ k \in Nat /\ i \in Int
        BY <1>1, <1>2
      <4>2. QED
        BY <4>1
    <3>4. QED
      BY <1>1, <1>2, <3>2, <3>3
  <2>3. Len(admitted'[c]) = dropped'[c] + Len(windows'[c])
    <3>1. dropped[c] + Len(windows[c]) = (dropped[c] + k) + (Len(windows[c]) - k)
      BY <1>2
    <3>2. QED
      BY <1>1, <1>2, <2>1, <3>1
  <2>4. QED
    BY <2>2, <2>3 DEF IsRest
<1>4. DroppedExpired(c)'
  BY <1>1, PrunedExpired DEF DroppedExpired, Expired
<1>5. QED
  BY <1>1, <1>2, <1>3, <1>4, RateAssumption DEF CallerInv, InOrder, NotAhead

LEMMA AdmitKeeps ==
    ASSUME TypeOK, NEW c \in Callers, CallerInv(c), NEW k, Admit(c, k)
    PROVE  CallerInv(c)'
<1> DEFINE n == Len(admitted[c])
           rest == SubSeq(windows[c], k + 1, Len(windows[c]))
<1>1. /\ windows'[c] = Append(rest, now)
      /\ dropped'[c] = dropped[c] + k /\ admitted'[c] = Append(admitted[c], now)
      /\ now' = now /\ PrunesFirst(windows[c], k) /\ Len(windows[c]) - k < RPM
  BY DEF Admit, TypeOK
<1>2. /\ k \in Nat /\ k <= Len(windows[c]) /\ Len(windows[c]) \in Nat
      /\ dropped[c] \in Nat /\ now \in Nat /\ admitted[c] \in Seq(Nat) /\ n \in Nat
      /\ rest \in Seq(Nat) /\ Len(rest) = Len(windows[c]) - k
      /\ \A i \in 1..(Len(windows[c]) - k) : rest[i] = windows[c][k + i]
      /\ n = dropped[c] + Len(windows[c])
  <2>1. /\ dropped[c] \in Nat /\ now \in Nat /\ admitted[c] \in Seq(Nat)
        /\ windows[c] \in Seq(Nat)
    BY DEF TypeOK
  <2>2. /\ k \in 0..Len(windows[c]) /\ rest \in Seq(Nat)
        /\ Len(rest) = Len(windows[c]) - k
        /\ \A i \in 1..(Len(windows[c]) - k) : rest[i] = windows[c][k + i]
    BY <1>1, PruneType
  <2>3. n = dropped[c] + Len(windows[c])
    BY DEF CallerInv, IsRest
  <2> HIDE DEF rest, n
  <2>4. Len(windows[c]) \in Nat
    BY <2>1
  <2>5. n \in Nat
    BY <2>1 DEF n
  <2>6. QED
    BY <2>1, <2>2, <2>3, <2>4, <2>5
<1> HIDE DEF rest
<1>3. /\ Len(admitted'[c]) = n + 1 /\ admitted'[c][n + 1] = now
      /\ \A i \in 1..n : admitted'[c][i] = admitted[c][i]
      /\ DOMAIN admitted'[c] = 1..(n + 1) /\ DOMAIN admitted[c] = 1..n
  BY <1>1, <1>2
<1>4. /\ Len(windows'[c]) = Len(windows[c]) - k + 1
      /\ windows'[c][Len(windows[c]) - k + 1] = now
      /\ \A i \in 1..(Len(windows[c]) - k) : windows'[c][i] = windows[c][k + i]
  <2>1. /\ Len(Append(rest, now)) = Len(rest) + 1
        /\ Append(rest, now)[Len(rest) + 1] = now
        /\ \A i \in 1..Len(rest) : Append(rest, now)[i] = rest[i]
    <3>1. rest \in Seq(Nat) /\ now \in Nat
      BY <1>2
    <3>2. QED
      BY <3>1, AppendProperties
  <2>2. /\ windows'[c] = Append(rest, now) /\ Len(rest) = Len(windows[c]) - k
        /\ \A i \in 1..(Len(windows[c]) - k) : rest[i] = windows[c][k + i]
    BY <1>1, <1>2
  <2>3. QED
    BY <2>1, <2>2
<1> HIDE DEF n
<1>5. IsRest(c)'
  <2>1. ASSUME NEW i \in 1..(Len(windows[c]) - k)
        PROVE  windows'[c][i] = admitted'[c][dropped'[c] + i]
    <3>1. k + i \in 1..Len(windows[c]) /\ dropped[c] + (k + i) \in 1..n
      BY <1>2
    <3>2. windows[c][k + i] = admitted[c][dropped[c] + (k + i)]
      BY <3>1 DEF CallerInv, IsRest
    <3>3. dropped[c] + (k + i) = dropped'[c] + i
      <4>1. dropped'[c] = dropped[c] + k /\ dropped[c] \in Nat /\ k \in Nat /\ i \in Int
        BY <1>1, <1>2
      <4>2. QED
        BY <4>1
    <3>4. QED
      BY <1>3, <1>4, <3>1, <3>2, <3>3
  <2>2. dropped'[c] + (Len(windows[c]) - k + 1) = n + 1
    BY <1>1, <1>2
  <2>3. \A i \in 1..Len(windows'[c]) : i \in 1..(Len(windows[c]) - k) \/ i = Len(windows[c]) - k + 1
    BY <1>2, <1>4
  <2>4. \A i \in 1..Len(windows'[c]) : windows'[c][i] = admitted'[c][dropped'[c] + i]
    BY <1>3, <1>4, <2>1, <2>2, <2>3
  <2>5. QED
    BY <1>1, <1>2, <1>3, <1>4, <2>2, <2>4 DEF IsRest
<1>6. DroppedExpired(c)'
  <2>1. dropped[c] + k <= n /\ \A i \in 1..(dropped[c] + k) : Expired(admitted[c][i])
    BY <1>1, PrunedExpired DEF n
  <2>2. QED
    BY <1>1, <1>2, <1>3, <2>1 DEF DroppedExpired, Expired
<1>7. NotAhead(c)' /\ InOrder(c)'
  <2>1. /\ \A i \in 1..n : admitted[c][i] <= now
        /\ \A i, j \in 1..n : i <= j => admitted[c][i] <= admitted[c][j]
    BY <1>3 DEF CallerInv, NotAhead, InOrder
  <2>2. \A i \in 1..(n + 1) : i \in 1..n \/ i = n + 1
    BY <1>2
  <2>3. ASSUME NEW i \in 1..(n + 1) PROVE admitted'[c][i] <= now
    <3>1. CASE i = n + 1
      <4>1. admitted'[c][i] = now /\ now \in Nat
        BY <1>2, <1>3, <3>1
      <4>2. QED
        BY <4>1
    <3>2. CASE i \in 1..n
      BY <1>3, <2>1, <3>2
    <3>3. QED
      BY <2>2, <3>1, <3>2
  <2>4. \A i, j \in 1..(n + 1) : i <= j => admitted'[c][i] <= admitted'[c][j]
    <3>1. ASSUME NEW i \in 1..(n + 1), NEW j \in 1..(n + 1), i <= j
          PROVE  admitted'[c][i] <= admitted'[c][j]
      <4>1. CASE j = n + 1
        BY <1>3, <2>3, <4>1
      <4>2. CASE j \in 1..n
        <5>1. i \in 1..n
          BY <1>2, <3>1, <4>2
        <5>2. QED
          BY <1>3, <2>1, <3>1, <4>2, <5>1
      <4>3. QED
        BY <2>2, <4>1, <4>2
    <3>2. QED
      BY <3>1
  <2>5. now' = now
    BY <1>1
  <2>6. QED
    BY <1>3, <2>3, <2>4, <2>5 DEF NotAhead, InOrder
<1>8. \A i \in DOMAIN admitted'[c] :
         i + RPM \in DOMAIN admitted'[c] =>
            admitted'[c][i + RPM] - admitted'[c][i] > Window
  <2> SUFFICES ASSUME NEW i \in 1..(n + 1), i + RPM \in 1..(n + 1)
               PROVE  admitted'[c][i + RPM] - admitted'[c][i] > Window
    BY <1>3
  <2>1. CASE i + RPM <= n
    <3>1. i \in 1..n /\ i + RPM \in 1..n
      BY <1>2, <2>1, RateAssumption
    <3>2. admitted[c][i + RPM] - admitted[c][i] > Window
      BY <1>3, <3>1 DEF CallerInv
    <3>3. QED
      BY <1>3, <3>1, <3>2
  <2>2. CASE i + RPM = n + 1
    <3>1. i \in 1..(dropped[c] + k) /\ i \in 1..n
      <4>1. /\ n = dropped[c] + Len(windows[c]) /\ Len(windows[c]) - k < RPM
            /\ n \in Nat /\ dropped[c] \in Nat /\ k \in Nat /\ Len(windows[c]) \in Nat
            /\ k <= Len(windows[c]) /\ RPM \in Nat
        BY <1>1, <1>2, RateAssumption
      <4>2. QED
        BY <2>2, <4>1
    <3>2. Expired(admitted[c][i])
      BY <1>1, <3>1, PrunedExpired
    <3>3. QED
      BY <1>3, <2>2, <3>1, <3>2 DEF Expired
  <2>3. QED
    BY <1>2, <2>1, <2>2, RateAssumption
<1>9. Len(windows'[c]) <= RPM
  BY <1>1, <1>2, <1>4, RateAssumption
<1>10. QED
  BY <1>5, <1>6, <1>7, <1>8, <1>9, RateAssumption DEF CallerInv

LEMMA OtherKeeps ==
    ASSUME NEW c, CallerInv(c), now' = now, windows'[c] = windows[c],
           admitted'[c] = admitted[c], dropped'[c] = dropped[c]
    PROVE  CallerInv(c)'
BY DEF CallerInv, InOrder, NotAhead, IsRest, DroppedExpired, Expired

LEMMA WindowNext == TypeOK /\ WindowInv /\ [Next]_vars => WindowInv'
<1> SUFFICES ASSUME TypeOK, WindowInv, [Next]_vars PROVE WindowInv'
  OBVIOUS
<1>1. CASE UNCHANGED vars
  BY <1>1, OtherKeeps DEF vars, WindowInv
<1>2. CASE Tick
  BY <1>2, WindowTick
<1>3. ASSUME NEW c \in Callers, NEW k, Admit(c, k) PROVE WindowInv'
  <2>1. CallerInv(c)'
    BY <1>3, AdmitKeeps DEF WindowInv
  <2>2. \A d \in Callers \ {c} : CallerInv(d)'
    BY <1>3, OtherKeeps DEF WindowInv, Admit, TypeOK
  <2>3. QED
    BY <2>1, <2>2 DEF WindowInv
<1>4. ASSUME NEW c \in Callers, NEW k, Reject(c, k) PROVE WindowInv'
  <2>1. CallerInv(c)'
    BY <1>4, RejectKeeps DEF WindowInv
  <2>2. \A d \in Callers \ {c} : CallerInv(d)'
    BY <1>4, OtherKeeps DEF WindowInv, Reject, TypeOK
  <2>3. QED
    BY <2>1, <2>2 DEF WindowInv
<1>5. QED
  BY <1>1, <1>2, <1>3, <1>4 DEF Next, Dispatch

\* However its requests are spread, a caller gets at most RPM of them through
\* in any Window seconds.
THEOREM RateNeverExceeded == Spec => []RateBound
<1>1. WindowInv => RateBound
  BY DEF WindowInv, CallerInv, RateBound
<1>2. QED
  BY <1>1, TypeInit, TypeNext, WindowInit, WindowNext, PTL DEF Spec

\* A deque holds at most RPM entries: pruning at request time is enough to
\* bound the memory a caller takes.
THEOREM DequeNeverOverfull == Spec => []DequeBounded
<1>1. WindowInv => DequeBounded
  BY DEF WindowInv, CallerInv, DequeBounded
<1>2. QED
  BY <1>1, TypeInit, TypeNext, WindowInit, WindowNext, PTL DEF Spec

(***************************************************************************)
(* Retry-After.  Every entry of the deque is one of the history, so once   *)
(* the history has expired the loop pops the whole deque.                  *)
(***************************************************************************)

LEMMA AllPruned ==
    ASSUME TypeOK, NEW c \in Callers, CallerInv(c), AllExpired(c),
           NEW k, PrunesFirst(windows[c], k)
    PROVE  k = Len(windows[c])
<1>1. /\ k \in Nat /\ k <= Len(windows[c]) /\ dropped[c] \in Nat
      /\ Len(windows[c]) \in Nat /\ admitted[c] \in Seq(Nat) /\ IsRest(c)
      /\ k < Len(windows[c]) => ~Expired(windows[c][k + 1])
  BY DEF PrunesFirst, TypeOK, CallerInv
<1>2. ASSUME k < Len(windows[c]) PROVE FALSE
  <2>1. k + 1 \in 1..Len(windows[c])
    BY <1>1, <1>2
  <2>2. windows[c][k + 1] = admitted[c][dropped[c] + (k + 1)]
    BY <1>1, <2>1 DEF IsRest
  <2>3. dropped[c] + (k + 1) \in DOMAIN admitted[c]
    <3>1. /\ DOMAIN admitted[c] = 1..Len(admitted[c])
          /\ Len(admitted[c]) = dropped[c] + Len(windows[c])
      BY <1>1 DEF IsRest
    <3>2. QED
      BY <1>1, <2>1, <3>1
  <2>4. QED
    BY <1>1, <1>2, <2>2, <2>3 DEF AllExpired
<1>3. QED
  BY <1>1, <1>2

LEMMA KnockStep ==
    ASSUME TypeOK, WindowInv, NEW c \in Callers, RPM > 0, AllExpired(c), Dispatch(c)
    PROVE  verdict'[c] = "admitted"
<1>1. PICK k \in 0..Len(windows[c]) : Admit(c, k) \/ Reject(c, k)
  BY DEF Dispatch
<1>2. CASE Admit(c, k)
  BY <1>2 DEF Admit, TypeOK
<1>3. CASE Reject(c, k)
  <2>1. k = Len(windows[c])
    BY <1>3, AllPruned DEF Reject, WindowInv
  <2>2. Len(windows[c]) - k >= RPM
    BY <1>3 DEF Reject
  <2>3. QED
    BY <1>1, <2>1, <2>2, RateAssumption
<1>4. QED
  BY <1>1, <1>2, <1>3

\* A caller whose admissions have all left the window is let in, whatever it
\* tried since.
THEOREM KnockingGetsIn == Spec => RetryAfterHonoured
<1>1. TypeOK /\ WindowInv =>
        \A c \in Callers :
            RPM > 0 /\ AllExpired(c) /\ Dispatch(c) => verdict'[c] = "admitted"
  BY KnockStep
<1>2. QED
  BY <1>1, TypeInit, TypeNext, WindowInit, WindowNext, PTL DEF Spec, RetryAfterHonoured

(***************************************************************************)
(* The deque decides as the whole history would: what pruning leaves is    *)
(* exactly the recent part of the history, because the history is in order.*)
(***************************************************************************)

LEMMA SameCardinality == \A S : Abstract!Cardinality(S) = Cardinality(S)
BY DEF Cardinality, Abstract!Cardinality

LEMMA PrunedIsRecent ==
    ASSUME TypeOK, NEW c \in Callers, CallerInv(c), NEW k, PrunesFirst(windows[c], k)
    PROVE  Cardinality(Abstract!Recent(c)) = Len(windows[c]) - k
<1> DEFINE n == Len(admitted[c])
           m == dropped[c] + k
<1>1. /\ k \in Nat /\ k <= Len(windows[c]) /\ dropped[c] \in Nat /\ now \in Nat
      /\ Len(windows[c]) \in Nat /\ admitted[c] \in Seq(Nat)
      /\ n = dropped[c] + Len(windows[c])
  BY DEF PrunesFirst, TypeOK, CallerInv, IsRest
<1>2. /\ m \in Nat /\ n \in Nat /\ m <= n
      /\ \A i \in 1..m : Expired(admitted[c][i])
  BY <1>1, PrunedExpired
<1>3. ASSUME NEW i \in (m + 1)..n PROVE ~Expired(admitted[c][i])
  <2>1. k < Len(windows[c]) /\ m + 1 \in 1..n /\ i \in 1..n /\ m + 1 <= i
    <3>1. /\ k \in Nat /\ dropped[c] \in Nat /\ Len(windows[c]) \in Nat
          /\ n = dropped[c] + Len(windows[c]) /\ m = dropped[c] + k
          /\ m \in Nat /\ n \in Nat /\ i \in (m + 1)..n
      BY <1>1, <1>2
    <3> HIDE DEF n, m
    <3>2. QED
      BY <3>1
  <2>2. windows[c][k + 1] = admitted[c][m + 1]
    <3>1. k + 1 \in 1..Len(windows[c]) /\ dropped[c] + (k + 1) = m + 1
      BY <1>1, <2>1
    <3>2. windows[c][k + 1] = admitted[c][dropped[c] + (k + 1)]
      BY <3>1 DEF CallerInv, IsRest
    <3>3. QED
      BY <3>1, <3>2
  <2>3. ~Expired(admitted[c][m + 1])
    BY <2>1, <2>2 DEF PrunesFirst
  <2> HIDE DEF m
  <2>4. DOMAIN admitted[c] = 1..n /\ \A j \in 1..n : admitted[c][j] \in Nat
    BY <1>1
  <2> HIDE DEF n
  <2>5. admitted[c][m + 1] <= admitted[c][i]
    BY <2>1, <2>4 DEF CallerInv, InOrder
  <2>6. admitted[c][m + 1] \in Nat /\ admitted[c][i] \in Nat
    BY <2>1, <2>4
  <2>7. now \in Nat /\ Window \in Nat
    BY <1>1, RateAssumption
  <2>8. QED
    BY <2>3, <2>5, <2>6, <2>7 DEF Expired
<1>4. Abstract!Recent(c) = (m + 1)..n
  <2>1. Abstract!Recent(c) = {i \in 1..n : ~Expired(admitted[c][i])}
    <3>1. \A i \in 1..n : admitted[c][i] \in Nat
      BY <1>1
    <3>2. \A i \in 1..n : ~Expired(admitted[c][i]) <=> now - admitted[c][i] <= Window
      <4>1. now \in Nat /\ Window \in Nat
        BY <1>1, RateAssumption
      <4>2. \A t \in Nat : ~(now - t > Window) <=> now - t <= Window
        BY <4>1
      <4>3. \A t \in Nat : ~Expired(t) <=> now - t <= Window
        BY <4>2 DEF Expired
      <4> HIDE DEF n
      <4>4. QED
        BY <3>1, <4>3, Zenon
    <3>3. DOMAIN admitted[c] = 1..n
      BY <1>1
    <3>4. QED
      BY <3>2, <3>3 DEF Abstract!Recent
  <2>2. \A i \in 1..n : i \in 1..m \/ i \in (m + 1)..n
    BY <1>1
  <2>3. \A i \in (m + 1)..n : i \in 1..n
    BY <1>1
  <2>4. QED
    BY <1>2, <1>3, <2>1, <2>2, <2>3
<1>5. Cardinality((m + 1)..n) = Len(windows[c]) - k
  <2>1. Cardinality((m + 1)..n) = n - m
    <3>1. m + 1 \in Int /\ n \in Int
      BY <1>1
    <3>2. Cardinality((m + 1)..n) = IF (m + 1) > n THEN 0 ELSE n - (m + 1) + 1
      BY <3>1, FS_Interval
    <3>3. QED
      BY <1>1, <1>2, <3>2
  <2>2. QED
    BY <1>1, <2>1
<1>6. QED
  BY <1>4, <1>5

LEMMA SimulationInit == Init => Abstract!Init
BY DEF Init, Abstract!Init

LEMMA SimulationNext ==
    TypeOK /\ WindowInv /\ [Next]_vars => [Abstract!Next]_<<now, admitted, verdict>>
<1> SUFFICES ASSUME TypeOK, WindowInv, [Next]_vars
             PROVE  [Abstract!Next]_<<now, admitted, verdict>>
  OBVIOUS
<1>1. CASE UNCHANGED vars
  BY <1>1 DEF vars
<1>2. CASE Tick
  BY <1>2 DEF Tick, Abstract!Next, Abstract!Tick
<1>3. ASSUME NEW c \in Callers, NEW k, Admit(c, k) PROVE Abstract!Next
  <2>1. Cardinality(Abstract!Recent(c)) = Len(windows[c]) - k
    BY <1>3, PrunedIsRecent DEF Admit, WindowInv
  <2>2. Abstract!Admit(c)
    BY <1>3, <2>1, SameCardinality DEF Admit, Abstract!Admit
  <2>3. QED
    BY <2>2 DEF Abstract!Next
<1>4. ASSUME NEW c \in Callers, NEW k, Reject(c, k) PROVE Abstract!Next
  <2>1. Cardinality(Abstract!Recent(c)) = Len(windows[c]) - k
    BY <1>4, PrunedIsRecent DEF Reject, WindowInv
  <2>2. Abstract!Reject(c)
    BY <1>4, <2>1, SameCardinality DEF Reject, Abstract!Reject
  <2>3. QED
    BY <2>2 DEF Abstract!Next
<1>5. QED
  BY <1>1, <1>2, <1>3, <1>4 DEF Next, Dispatch

\* The pruned deque implements the limit over the whole history: no request
\* is let through or turned away that the history would decide otherwise.
THEOREM DequeIsSlidingWindow == Spec => ImplementsSlidingWindow
BY TypeInit, TypeNext, WindowInit, WindowNext, SimulationInit, SimulationNext, PTL
DEF Spec, ImplementsSlidingWindow, Abstract!Spec
=============================================================================
