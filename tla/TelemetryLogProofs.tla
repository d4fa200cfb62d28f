-------------------------- MODULE TelemetryLogProofs --------------------------
(***************************************************************************)
(* Proofs about the telemetry file, for any workers, events, row lengths   *)
(* and buffer, and any pattern of failures and kills.                      *)
(***************************************************************************)
EXTENDS TelemetryLog, Sums, SequenceTheorems, FiniteSetTheorems, TLAPS

Units == {[event |-> e, unit |-> i] : e \in Events, i \in Nat}

TypeOK ==
    /\ state \in [Workers -> {"serving", "opened", "writing", "down"}]
    /\ event \in [Workers -> Events \cup {None}]
    /\ written \in [Workers -> Nat]
    /\ lock \in Workers \cup {None}
    /\ file \in Seq(Units)

\* Who is between flock and close holds the lock, and who is not has written
\* nothing: the buffer of an open file is empty until the lock is held.
Exclusive ==
    \A w \in Workers : /\ (state[w] = "writing") <=> (lock = w)
                       /\ state[w] # "writing" => written[w] = 0
                       /\ state[w] \in {"opened", "writing"} => event[w] \in Events

\* What the holder of the lock has written is at the end of the file.
AtEnd ==
    \A w \in Workers : state[w] = "writing" =>
        /\ written[w] < Length[event[w]]
        /\ written[w] > 0 =>
             /\ file # <<>>
             /\ file[Len(file)] = [event |-> event[w], unit |-> written[w]]

LogInv == Exclusive /\ AtEnd /\ NoInterleaving

-----------------------------------------------------------------------------
LEMMA LengthType == \A e \in Events : Length[e] \in Nat /\ Length[e] >= 2
BY LengthAssumption

LEMMA RowUnits ==
    ASSUME NEW e \in Events, NEW from \in Nat, NEW k \in Nat,
           from <= k, k <= Length[e]
    PROVE  LET more == SubSeq(Row(e), from + 1, k) IN
           /\ more \in Seq(Units)
           /\ Len(more) = k - from
           /\ \A i \in 1..(k - from) : more[i] = [event |-> e, unit |-> from + i]
<1> DEFINE more == SubSeq(Row(e), from + 1, k)
<1>1. /\ Row(e) \in Seq(Units) /\ Len(Row(e)) = Length[e]
      /\ \A i \in 1..Length[e] : Row(e)[i] = [event |-> e, unit |-> i]
  BY LengthType DEF Row, Units
<1>2. Length[e] \in Nat
  BY LengthType
<1> HIDE DEF more
<1>3. /\ more \in Seq(Units) /\ Len(more) = k - from
      /\ \A i \in 1..(k - from) : more[i] = Row(e)[from + i]
  BY <1>1, <1>2 DEF more
<1>4. \A i \in 1..(k - from) : from + i \in 1..Length[e]
  BY <1>2
<1>5. QED
  BY <1>1, <1>3, <1>4 DEF more

\* The rest of a row, or a part of it, goes where the row has got to.
LEMMA Continues ==
    ASSUME TypeOK, LogInv, NEW w \in Workers, state[w] = "writing",
           NEW k \in Nat, written[w] <= k, k <= Length[event[w]],
           WriteUpTo(w, k)
    PROVE  /\ file' \in Seq(Units)
           /\ NoInterleaving'
           /\ k > 0 => /\ file' # <<>>
                       /\ file'[Len(file')] = [event |-> event[w], unit |-> k]
<1> DEFINE e == event[w]
           from == written[w]
           more == SubSeq(Row(e), from + 1, k)
           n == Len(file)
<1>1. /\ e \in Events /\ from \in Nat /\ file \in Seq(Units) /\ n \in Nat
      /\ from <= k /\ k <= Length[e]
      /\ from > 0 => n > 0 /\ file[n] = [event |-> e, unit |-> from]
  BY DEF TypeOK, LogInv, Exclusive, AtEnd
<1>2. /\ more \in Seq(Units) /\ Len(more) = k - from
      /\ \A i \in 1..(k - from) : more[i] = [event |-> e, unit |-> from + i]
  BY <1>1, RowUnits
<1>3. file' = file \o more
  BY DEF WriteUpTo
<1> HIDE DEF more, e, from, n
<1>4. /\ file' \in Seq(Units)
      /\ Len(file') = n + (k - from)
      /\ \A i \in 1..n : file'[i] = file[i]
      /\ \A i \in 1..(k - from) : file'[n + i] = more[i]
  <2>1. /\ file' \in Seq(Units) /\ Len(file') = n + Len(more)
        /\ \A i \in 1..n + Len(more) :
             file'[i] = IF i <= n THEN file[i] ELSE more[i - n]
    BY <1>1, <1>2, <1>3, ConcatProperties DEF n
  <2>2. Len(more) = k - from /\ k - from \in Nat
    BY <1>1, <1>2
  <2>3. ASSUME NEW i \in 1..(k - from) PROVE file'[n + i] = more[i]
    <3>1. n + i \in 1..n + Len(more) /\ ~(n + i <= n) /\ (n + i) - n = i
      BY <1>1, <2>2
    <3>2. QED
      BY <2>1, <3>1
  <2>4. ASSUME NEW i \in 1..n PROVE file'[i] = file[i]
    <3>1. i \in 1..n + Len(more) /\ i <= n
      BY <1>1, <2>2
    <3>2. QED
      BY <2>1, <3>1
  <2>5. QED
    BY <2>1, <2>2, <2>3, <2>4
<1>5. /\ DOMAIN file' = 1..(n + (k - from)) /\ DOMAIN file = 1..n
  BY <1>1, <1>4 DEF n
<1>6. ASSUME NEW i \in 1..(n + (k - from)), file'[i].unit > 1
      PROVE  i > 1 /\ file'[i - 1] = [event |-> file'[i].event, unit |-> file'[i].unit - 1]
  <2>1. CASE i \in 1..n
    <3>1. file'[i] = file[i] /\ i \in DOMAIN file
      BY <1>4, <1>5, <2>1
    <3>2. i > 1 /\ file[i - 1] = [event |-> file[i].event, unit |-> file[i].unit - 1]
      BY <1>6, <3>1 DEF LogInv, NoInterleaving
    <3>3. i - 1 \in 1..n
      BY <1>1, <2>1, <3>2
    <3>4. QED
      BY <1>4, <3>1, <3>2, <3>3
  <2>2. CASE i = n + 1 /\ i \notin 1..n
    <3>1. k - from >= 1 /\ 1 \in 1..(k - from)
      BY <1>1, <2>2
    <3>2. file'[i] = [event |-> e, unit |-> from + 1]
      BY <1>2, <1>4, <2>2, <3>1
    <3>3. from > 0
      BY <1>1, <1>6, <3>2
    <3>4. n > 0 /\ n \in 1..n /\ i - 1 = n
      BY <1>1, <2>2, <3>3
    <3>5. file'[i - 1] = [event |-> e, unit |-> from]
      BY <1>1, <1>4, <3>3, <3>4
    <3>6. from + 1 - 1 = from
      BY <1>1
    <3>7. QED
      BY <1>1, <2>2, <3>2, <3>4, <3>5, <3>6
  <2>3. CASE i > n + 1
    <3>1. PICK j \in 1..(k - from) : j > 1 /\ i = n + j
      <4>1. i - n \in 1..(k - from) /\ i - n > 1 /\ i = n + (i - n)
        BY <1>1, <2>3
      <4>2. QED
        BY <4>1
    <3>2. j - 1 \in 1..(k - from) /\ n + (j - 1) = i - 1
      BY <1>1, <3>1
    <3>3. file'[i] = [event |-> e, unit |-> from + j]
      BY <1>2, <1>4, <3>1
    <3>4. file'[i - 1] = [event |-> e, unit |-> from + (j - 1)]
      BY <1>2, <1>4, <3>2
    <3>5. from + (j - 1) = (from + j) - 1
      BY <1>1, <3>1
    <3>6. QED
      BY <1>1, <2>3, <3>3, <3>4, <3>5
  <2>4. QED
    BY <1>1, <2>1, <2>2, <2>3
<1>7. NoInterleaving'
  BY <1>5, <1>6 DEF NoInterleaving
<1>8. ASSUME k > 0
      PROVE  file' # <<>> /\ file'[Len(file')] = [event |-> e, unit |-> k]
  <2>1. CASE k = from
    <3>1. Len(file') = n /\ n > 0 /\ n \in 1..n
      BY <1>1, <1>4, <1>8, <2>1
    <3>2. QED
      BY <1>1, <1>4, <1>8, <2>1, <3>1
  <2>2. CASE k > from
    <3>1. k - from \in 1..(k - from) /\ from + (k - from) = k
      BY <1>1, <2>2
    <3>2. file'[n + (k - from)] = [event |-> e, unit |-> k]
      BY <1>2, <1>4, <3>1
    <3>3. Len(file') > 0
      BY <1>1, <1>4, <2>2
    <3>4. QED
      BY <1>4, <3>2, <3>3
  <2>3. QED
    BY <1>1, <2>1, <2>2
<1>9. QED
  BY <1>4, <1>7, <1>8 DEF e

-----------------------------------------------------------------------------
\* Leaving the with block, with or without the rest of the row.
LEMMA LeaveKeeps ==
    ASSUME TypeOK, LogInv, NEW w \in Workers, state[w] \in {"opened", "writing"},
           NEW next \in {"serving", "down"}, NEW how, Leave(w, next, how),
           file' \in Seq(Units), NoInterleaving',
           state[w] = "opened" => file' = file
    PROVE  TypeOK' /\ LogInv'
<1>1. TypeOK'
  BY DEF TypeOK, Leave
<1>2. Exclusive'
  BY LogNoneAssumption DEF TypeOK, Leave, LogInv, Exclusive
<1>3. AtEnd'
  <2> SUFFICES ASSUME NEW v \in Workers, state'[v] = "writing"
               PROVE  /\ written'[v] < Length[event'[v]]
                      /\ written'[v] > 0 =>
                           /\ file' # <<>>
                           /\ file'[Len(file')] = [event |-> event'[v], unit |-> written'[v]]
    BY DEF AtEnd
  <2>1. v # w /\ state[v] = "writing" /\ event'[v] = event[v] /\ written'[v] = written[v]
    BY DEF TypeOK, Leave
  <2>2. state[w] = "opened"
    BY <2>1, LogNoneAssumption DEF LogInv, Exclusive
  <2>3. QED
    BY <2>1, <2>2 DEF LogInv, AtEnd
<1>4. QED
  BY <1>1, <1>2, <1>3 DEF LogInv

LEMMA InitKeeps == Init => TypeOK /\ LogInv
<1> SUFFICES ASSUME Init PROVE TypeOK /\ LogInv
  OBVIOUS
<1>1. TypeOK
  BY DEF Init, TypeOK
<1>2. Exclusive /\ AtEnd
  BY LogNoneAssumption DEF Init, Exclusive, AtEnd
<1>3. NoInterleaving
  BY DEF Init, NoInterleaving
<1>4. QED
  BY <1>1, <1>2, <1>3 DEF LogInv

LEMMA WorkerKeeps ==
    ASSUME TypeOK, LogInv, NEW w \in Workers,
           \/ \E e \in Events : Open(w, e) \/ OpenFails(w, e)
           \/ Proceed(w) \/ Kill(w) \/ Restart(w)
    PROVE  TypeOK' /\ LogInv'
<1>1. ASSUME NEW e \in Events, Open(w, e) PROVE TypeOK' /\ LogInv'
  <2>1. TypeOK' /\ Exclusive'
    BY <1>1 DEF Open, TypeOK, LogInv, Exclusive
  <2>2. AtEnd' /\ NoInterleaving'
    BY <1>1 DEF Open, TypeOK, LogInv, AtEnd, NoInterleaving
  <2>3. QED
    BY <2>1, <2>2 DEF LogInv
<1>2. ASSUME NEW e \in Events, OpenFails(w, e) PROVE TypeOK' /\ LogInv'
  BY <1>2 DEF OpenFails, TypeOK, LogInv, Exclusive, AtEnd, NoInterleaving
<1>3. CASE Lock(w)
  <2>1. TypeOK' /\ Exclusive'
    BY <1>3, LogNoneAssumption DEF Lock, TypeOK, LogInv, Exclusive, readers
  <2>2. AtEnd'
    <3>1. \A v \in Workers : state[v] # "writing" /\ written[v] = 0
      BY <1>3, LogNoneAssumption DEF Lock, LogInv, Exclusive
    <3>2. event[w] \in Events /\ Length[event[w]] > 0
      BY <1>3, LengthType DEF Lock, LogInv, Exclusive
    <3>3. QED
      BY <1>3, <3>1, <3>2 DEF Lock, TypeOK, AtEnd
  <2>3. NoInterleaving'
    BY <1>3 DEF Lock, LogInv, NoInterleaving
  <2>4. QED
    BY <2>1, <2>2, <2>3 DEF LogInv
<1>4. CASE Flush(w)
  <2>1. PICK k \in written[w] + 1 .. Reach(event[w]) :
           WriteUpTo(w, k) /\ written' = [written EXCEPT ![w] = k]
    BY <1>4 DEF Flush
  <2>2. /\ k \in Nat /\ written[w] <= k /\ k < Length[event[w]] /\ event[w] \in Events
        /\ state[w] = "writing" /\ lock = w /\ Length[event[w]] \in Nat
    <3>1. /\ event[w] \in Events /\ written[w] \in Nat /\ state[w] = "writing" /\ lock = w
      BY <1>4 DEF Flush, TypeOK, LogInv, Exclusive
    <3>2. Reach(event[w]) < Length[event[w]] /\ Reach(event[w]) \in Int
      BY <3>1, LengthType DEF Reach
    <3>3. QED
      BY <2>1, <3>1, <3>2, LengthType
  <2>3. /\ file' \in Seq(Units) /\ NoInterleaving'
        /\ k > 0 => /\ file' # <<>>
                    /\ file'[Len(file')] = [event |-> event[w], unit |-> k]
    BY <2>1, <2>2, Continues
  <2>4. TypeOK' /\ Exclusive'
    BY <1>4, <2>1, <2>2, <2>3 DEF Flush, TypeOK, LogInv, Exclusive
  <2>5. AtEnd'
    <3>1. \A v \in Workers : state'[v] = "writing" => v = w
      BY <1>4, <2>2 DEF Flush, LogInv, Exclusive
    <3>2. written'[w] = k /\ event'[w] = event[w]
      BY <1>4, <2>1 DEF Flush, TypeOK
    <3>3. QED
      BY <2>2, <2>3, <3>1, <3>2 DEF AtEnd
  <2>6. QED
    BY <2>3, <2>4, <2>5 DEF LogInv
<1>5. CASE Close(w)
  <2>1. /\ state[w] = "writing" /\ WriteUpTo(w, Length[event[w]])
        /\ Leave(w, "serving", "returned")
    BY <1>5 DEF Close
  <2>2. /\ Length[event[w]] \in Nat /\ written[w] <= Length[event[w]]
        /\ Length[event[w]] <= Length[event[w]]
    <3>1. written[w] \in Nat /\ event[w] \in Events /\ written[w] < Length[event[w]]
      BY <2>1 DEF TypeOK, LogInv, Exclusive, AtEnd
    <3>2. Length[event[w]] \in Nat
      BY <3>1, LengthType
    <3>3. QED
      BY <3>1, <3>2
  <2>3. file' \in Seq(Units) /\ NoInterleaving'
    BY <2>1, <2>2, Continues
  <2>4. QED
    BY <2>1, <2>3, LeaveKeeps
<1>6. CASE AppendFails(w)
  <2>1. PICK k \in written[w] .. Reach(event[w]) : WriteUpTo(w, k)
    BY <1>6 DEF AppendFails
  <2>2. state[w] = "writing" /\ Leave(w, "serving", "failed")
    BY <1>6 DEF AppendFails
  <2>3. k \in Nat /\ written[w] <= k /\ k <= Length[event[w]]
    <3>1. event[w] \in Events /\ written[w] \in Nat
      BY <2>2 DEF TypeOK, LogInv, Exclusive
    <3>2. Reach(event[w]) < Length[event[w]] /\ Reach(event[w]) \in Int
      BY <3>1, LengthType DEF Reach
    <3>3. QED
      BY <2>1, <3>1, <3>2, LengthType
  <2>4. file' \in Seq(Units) /\ NoInterleaving'
    BY <2>1, <2>2, <2>3, Continues
  <2>5. QED
    BY <2>2, <2>4, LeaveKeeps
<1>7. CASE Kill(w)
  <2>1. CASE state[w] = "serving"
    BY <1>7, <2>1 DEF Kill, TypeOK, LogInv, Exclusive, AtEnd, NoInterleaving
  <2>2. CASE state[w] # "serving"
    <3>1. state[w] \in {"opened", "writing"} /\ Leave(w, "down", "killed") /\ file' = file
      BY <1>7, <2>2 DEF Kill, TypeOK
    <3>2. file' \in Seq(Units) /\ NoInterleaving'
      BY <3>1 DEF TypeOK, LogInv, NoInterleaving
    <3>3. QED
      BY <3>1, <3>2, LeaveKeeps
  <2>3. QED
    BY <2>1, <2>2
<1>8. CASE Restart(w)
  BY <1>8 DEF Restart, TypeOK, LogInv, Exclusive, AtEnd, NoInterleaving
<1>9. QED
  BY <1>1, <1>2, <1>3, <1>4, <1>5, <1>6, <1>7, <1>8 DEF Proceed

LEMMA NextKeeps == TypeOK /\ LogInv /\ [Next]_vars => TypeOK' /\ LogInv'
<1> SUFFICES ASSUME TypeOK, LogInv, [Next]_vars PROVE TypeOK' /\ LogInv'
  OBVIOUS
<1>1. ASSUME UNCHANGED writers PROVE TypeOK' /\ LogInv'
  BY <1>1 DEF writers, TypeOK, LogInv, Exclusive, AtEnd, NoInterleaving
<1>2. CASE UNCHANGED vars
  BY <1>1, <1>2 DEF vars
<1>3. CASE StartReport \/ Read \/ EndOfFile
  BY <1>1, <1>3 DEF StartReport, Read, EndOfFile
<1>4. QED
  BY <1>2, <1>3, WorkerKeeps DEF Next

\* With the lock held from before the first byte to after the last, no byte
\* of one row comes between two of another, whatever fails and whoever dies.
THEOREM RowsInOnePiece == Spec => []NoInterleaving
<1>1. TypeOK /\ LogInv => NoInterleaving
  BY DEF LogInv
<1>2. QED
  BY <1>1, InitKeeps, NextKeeps, PTL DEF Spec

-----------------------------------------------------------------------------
(***************************************************************************)
(* Where the units of the file come from.                                  *)
(***************************************************************************)

Active == {"opened", "writing"}

\* An event is open while one worker appends it, and no longer.
Book ==
    /\ result \in [Events -> {"none", "open", "returned", "failed", "killed"}]
    /\ \A w \in Workers : state[w] \in Active => result[event[w]] = "open"
    /\ \A e \in Events : result[e] = "open" =>
         \E w \in Workers : state[w] \in Active /\ event[w] = e
    /\ \A v, w \in Workers :
         v # w /\ state[v] \in Active /\ state[w] \in Active => event[v] # event[w]

\* Every unit of a row is in the file at most once, and those of an open event
\* are those its worker has written.
InRows(f) == \A i \in DOMAIN f : f[i].unit \in 1..Length[f[i].event]
Once(f) == \A i, j \in DOMAIN f : f[i] = f[j] => i = j

Placed ==
    /\ InRows(file)
    /\ Once(file)
    /\ \A i \in DOMAIN file : result[file[i].event] # "none"
    /\ \A w \in Workers : state[w] \in Active =>
         \A i \in DOMAIN file : file[i].event = event[w] => file[i].unit <= written[w]

\* The whole row of e follows the p-th unit of f.
RowAt(f, e, p) ==
    /\ p \in Nat /\ p + Length[e] <= Len(f)
    /\ \A u \in 1..Length[e] : f[p + u] = [event |-> e, unit |-> u]

Complete == \A e \in Events : result[e] = "returned" => \E p \in Nat : RowAt(file, e, p)

FileInv == TypeOK /\ LogInv /\ Book /\ Placed /\ Complete

\* The file goes on with units of e only.
Continued(e) ==
    /\ file' \in Seq(Units)
    /\ DOMAIN file \subseteq DOMAIN file' /\ Len(file) <= Len(file')
    /\ \A i \in DOMAIN file : file'[i] = file[i]
    /\ \A i \in DOMAIN file' : i \in DOMAIN file \/ file'[i].event = e
    /\ InRows(file') /\ Once(file')

\* What is appended: the units from the last one that is in the file.
LEMMA WrittenUnits ==
    ASSUME TypeOK, LogInv, NEW w \in Workers, state[w] = "writing",
           NEW k \in Nat, written[w] <= k, k <= Length[event[w]], WriteUpTo(w, k),
           NEW n, n = Len(file)
    PROVE  /\ n \in Nat /\ written[w] \in Nat /\ event[w] \in Events
           /\ file' \in Seq(Units) /\ Len(file') = n + (k - written[w])
           /\ DOMAIN file = 1..n /\ DOMAIN file' = 1..(n + (k - written[w]))
           /\ \A i \in 1..n : file'[i] = file[i]
           /\ \A i \in 1..(k - written[w]) :
                file'[n + i] = [event |-> event[w], unit |-> written[w] + i]
<1>1. PICK e, from : e = event[w] /\ from = written[w]
  OBVIOUS
<1>2. e \in Events /\ from \in Nat /\ file \in Seq(Units) /\ n \in Nat
  BY <1>1 DEF TypeOK, LogInv, Exclusive
<1>3. PICK more : more = SubSeq(Row(e), from + 1, k)
  OBVIOUS
<1>4. /\ more \in Seq(Units) /\ Len(more) = k - from
      /\ \A i \in 1..(k - from) : more[i] = [event |-> e, unit |-> from + i]
  <2>1. e \in Events /\ from \in Nat /\ from <= k /\ k <= Length[e]
    BY <1>1, <1>2
  <2>2. QED
    BY <1>3, <2>1, RowUnits
<1>5. file' = file \o more
  BY <1>1, <1>3 DEF WriteUpTo
<1>6. k - from \in Nat
  BY <1>1, <1>2
<1>7. /\ file' \in Seq(Units) /\ Len(file') = n + Len(more)
      /\ \A i \in 1..n + Len(more) : file'[i] = IF i <= n THEN file[i] ELSE more[i - n]
  BY <1>2, <1>4, <1>5, ConcatProperties
<1>8. ASSUME NEW i \in 1..(k - from) PROVE file'[n + i] = [event |-> e, unit |-> from + i]
  <2>1. n + i \in 1..n + Len(more) /\ ~(n + i <= n) /\ (n + i) - n = i
    BY <1>2, <1>4, <1>6
  <2>2. QED
    BY <1>4, <1>7, <2>1
<1>9. ASSUME NEW i \in 1..n PROVE file'[i] = file[i]
  <2>1. i \in 1..n + Len(more) /\ i <= n
    BY <1>2, <1>4, <1>6
  <2>2. QED
    BY <1>7, <2>1
<1>10. DOMAIN file = 1..n /\ DOMAIN file' = 1..(n + (k - from)) /\ Len(file') = n + (k - from)
  BY <1>2, <1>4, <1>7
<1>11. QED
  BY <1>1, <1>2, <1>7, <1>8, <1>9, <1>10

LEMMA WriteContinues ==
    ASSUME FileInv, NEW w \in Workers, state[w] = "writing",
           NEW k \in Nat, written[w] <= k, k <= Length[event[w]], WriteUpTo(w, k)
    PROVE  /\ Continued(event[w])
           /\ \A i \in DOMAIN file' : file'[i].event = event[w] => file'[i].unit <= k
<1>1. PICK e, from, n : e = event[w] /\ from = written[w] /\ n = Len(file)
  OBVIOUS
<1>2. /\ n \in Nat /\ from \in Nat /\ e \in Events
      /\ file' \in Seq(Units) /\ Len(file') = n + (k - from)
      /\ DOMAIN file = 1..n /\ DOMAIN file' = 1..(n + (k - from))
      /\ \A i \in 1..n : file'[i] = file[i]
      /\ \A i \in 1..(k - from) : file'[n + i] = [event |-> e, unit |-> from + i]
  <2>1. TypeOK /\ LogInv
    BY DEF FileInv
  <2>2. PICK m : m = Len(file)
    OBVIOUS
  <2>3. /\ m \in Nat /\ written[w] \in Nat /\ event[w] \in Events
        /\ file' \in Seq(Units) /\ Len(file') = m + (k - written[w])
        /\ DOMAIN file = 1..m /\ DOMAIN file' = 1..(m + (k - written[w]))
        /\ \A i \in 1..m : file'[i] = file[i]
        /\ \A i \in 1..(k - written[w]) :
             file'[m + i] = [event |-> event[w], unit |-> written[w] + i]
    BY <2>1, <2>2, WrittenUnits, Zenon
  <2>4. m = n
    BY <1>1, <2>2
  <2>5. QED
    BY <1>1, <2>3, <2>4
<1>3. /\ k - from \in Nat /\ Length[e] \in Nat /\ from <= k /\ k <= Length[e]
  BY <1>1, <1>2, LengthType
<1> n \in Nat /\ from \in Nat /\ k - from \in Nat
  BY <1>2, <1>3
<1>4. ASSUME NEW i \in DOMAIN file', i \notin 1..n
      PROVE  /\ file'[i].event = e /\ file'[i].unit = from + (i - n)
             /\ i - n \in 1..(k - from)
  <2>1. i - n \in 1..(k - from) /\ n + (i - n) = i
    BY <1>2, <1>3, <1>4
  <2>2. file'[i] = [event |-> e, unit |-> from + (i - n)]
    BY <1>2, <2>1
  <2>3. QED
    BY <2>1, <2>2
<1>5. \A i \in 1..n : /\ file[i].unit \in 1..Length[file[i].event]
                      /\ file[i].event = e => file[i].unit <= from
  BY <1>1, <1>2 DEF FileInv, Placed, InRows, Active
<1>6. InRows(file')
  <2> SUFFICES ASSUME NEW i \in DOMAIN file' PROVE file'[i].unit \in 1..Length[file'[i].event]
    BY DEF InRows
  <2>1. CASE i \in 1..n
    BY <1>2, <1>5, <2>1
  <2>2. CASE i \notin 1..n
    <3>1. file'[i].event = e /\ file'[i].unit = from + (i - n) /\ i - n \in 1..(k - from)
      BY <1>4, <2>2
    <3>2. from + (i - n) \in 1..Length[e]
      BY <1>2, <1>3, <3>1
    <3>3. QED
      BY <3>1, <3>2
  <2>3. QED
    BY <2>1, <2>2
<1>7. ASSUME NEW i \in DOMAIN file', file'[i].event = e PROVE file'[i].unit <= k
  <2>1. CASE i \in 1..n
    <3>1. file'[i] = file[i] /\ file[i].unit <= from /\ file[i].unit \in 1..Length[e]
      BY <1>2, <1>5, <1>7, <2>1
    <3>2. QED
      BY <1>2, <1>3, <3>1
  <2>2. CASE i \notin 1..n
    <3>1. file'[i].unit = from + (i - n) /\ i - n \in 1..(k - from)
      BY <1>4, <2>2
    <3>2. QED
      BY <1>2, <1>3, <3>1
  <2>3. QED
    BY <2>1, <2>2
<1>8. Once(file')
  <2> SUFFICES ASSUME NEW i \in DOMAIN file', NEW j \in DOMAIN file', file'[i] = file'[j]
               PROVE  i = j
    BY DEF Once
  <2>1. ASSUME NEW a \in DOMAIN file', NEW b \in DOMAIN file', file'[a] = file'[b],
               a \in 1..n, b \notin 1..n
        PROVE  FALSE
    <3>1. /\ file'[b].event = e /\ file'[b].unit = from + (b - n) /\ b - n \in 1..(k - from)
      BY <1>4, <2>1
    <3>2. file'[a] = file[a] /\ file[a].event = e /\ file[a].unit = from + (b - n)
      BY <1>2, <2>1, <3>1
    <3>3. file[a].unit <= from
      BY <1>5, <2>1, <3>2
    <3>4. b \in Int
      BY <1>2
    <3>5. QED
      BY <3>1, <3>2, <3>3, <3>4
  <2>2. CASE i \in 1..n /\ j \in 1..n
    BY <1>2, <2>2 DEF FileInv, Placed, Once
  <2>3. CASE i \notin 1..n /\ j \notin 1..n
    <3>1. /\ file'[i].unit = from + (i - n) /\ i - n \in 1..(k - from)
          /\ file'[j].unit = from + (j - n) /\ j - n \in 1..(k - from)
      BY <1>4, <2>3
    <3>2. i \in Int /\ j \in Int
      BY <1>2
    <3>3. from + (i - n) = from + (j - n)
      BY <3>1
    <3>4. QED
      BY <3>2, <3>3
  <2>4. QED
    BY <2>1, <2>2, <2>3
<1>9. /\ DOMAIN file \subseteq DOMAIN file' /\ Len(file) <= Len(file')
      /\ \A i \in DOMAIN file : file'[i] = file[i]
      /\ \A i \in DOMAIN file' : i \in DOMAIN file \/ file'[i].event = e
  <2>1. 1..n \subseteq 1..(n + (k - from)) /\ n <= n + (k - from)
    OBVIOUS
  <2>2. \A i \in DOMAIN file' : i \in DOMAIN file \/ file'[i].event = e
    BY <1>2, <1>4
  <2>3. QED
    BY <1>1, <1>2, <2>1, <2>2
<1>10. QED
  BY <1>1, <1>2, <1>6, <1>7, <1>8, <1>9 DEF Continued

\* A row that is in the file stays where it is.
LEMMA RowStays ==
    ASSUME NEW e, Continued(e), file \in Seq(Units), NEW d \in Events, NEW p, RowAt(file, d, p)
    PROVE  RowAt(file', d, p)
<1>1. PICK n \in Nat : n = Len(file)
  OBVIOUS
<1>2. DOMAIN file = 1..n /\ Len(file') \in Nat /\ Length[d] \in Nat
  BY <1>1, LengthType DEF Continued
<1>3. p \in Nat /\ p + Length[d] <= Len(file')
  BY <1>1, <1>2 DEF RowAt, Continued
<1>4. ASSUME NEW u \in 1..Length[d] PROVE file'[p + u] = [event |-> d, unit |-> u]
  <2>1. p + u \in DOMAIN file
    BY <1>1, <1>2 DEF RowAt
  <2>2. QED
    BY <2>1 DEF RowAt, Continued
<1>5. QED
  BY <1>3, <1>4 DEF RowAt

LEMMA LeavePlaces ==
    ASSUME FileInv, NEW w \in Workers, state[w] \in Active, Continued(event[w]),
           NEW next \in {"serving", "down"}, NEW how \in {"returned", "failed", "killed"},
           Leave(w, next, how),
           how = "returned" => \E p \in Nat : RowAt(file', event[w], p)
    PROVE  Book' /\ Placed' /\ Complete'
<1>1. PICK e : e = event[w] /\ e \in Events
  BY DEF FileInv, LogInv, Exclusive, Active
<1>2. /\ state' = [state EXCEPT ![w] = next] /\ event' = [event EXCEPT ![w] = None]
      /\ written' = [written EXCEPT ![w] = 0] /\ result' = [result EXCEPT ![e] = how]
  BY <1>1 DEF Leave
<1>3. /\ result'[e] = how /\ \A d \in Events \ {e} : result'[d] = result[d]
      /\ result' \in [Events -> {"none", "open", "returned", "failed", "killed"}]
  BY <1>1, <1>2 DEF FileInv, Book
<1>4. /\ state'[w] \notin Active
      /\ \A v \in Workers \ {w} : /\ state'[v] = state[v] /\ event'[v] = event[v]
                                  /\ written'[v] = written[v]
  BY <1>2 DEF FileInv, TypeOK, Active
<1>5. \A v \in Workers \ {w} : state[v] \in Active => event[v] # e /\ event[v] \in Events
  BY <1>1 DEF FileInv, Book, LogInv, Exclusive, Active
<1>6. Book'
  <2>1. ASSUME NEW v \in Workers, state'[v] \in Active PROVE result'[event'[v]] = "open"
    BY <1>3, <1>4, <1>5, <2>1 DEF FileInv, Book
  <2>2. ASSUME NEW d \in Events, result'[d] = "open"
        PROVE  \E v \in Workers : state'[v] \in Active /\ event'[v] = d
    <3>1. d # e /\ result[d] = "open"
      BY <1>3, <2>2
    <3>2. PICK v \in Workers : state[v] \in Active /\ event[v] = d
      BY <3>1 DEF FileInv, Book
    <3>3. QED
      BY <1>1, <1>4, <3>1, <3>2
  <2>3. ASSUME NEW u \in Workers, NEW v \in Workers, u # v,
               state'[u] \in Active, state'[v] \in Active
        PROVE  event'[u] # event'[v]
    BY <1>4, <2>3 DEF FileInv, Book
  <2>4. QED
    BY <1>3, <2>1, <2>2, <2>3 DEF Book
<1>7. Placed'
  <2>1. ASSUME NEW i \in DOMAIN file' PROVE result'[file'[i].event] # "none"
    <3>1. CASE file'[i].event = e
      BY <1>3, <3>1
    <3>2. CASE file'[i].event # e
      <4>1. i \in DOMAIN file /\ file'[i] = file[i]
        BY <1>1, <3>2 DEF Continued
      <4>2. file[i].event \in Events
        BY <4>1 DEF FileInv, TypeOK, Units
      <4>3. QED
        BY <1>3, <3>2, <4>1, <4>2 DEF FileInv, Placed
    <3>3. QED
      BY <3>1, <3>2
  <2>2. ASSUME NEW v \in Workers, state'[v] \in Active, NEW i \in DOMAIN file',
               file'[i].event = event'[v]
        PROVE  file'[i].unit <= written'[v]
    <3>1. v # w /\ state[v] \in Active /\ event'[v] = event[v] /\ event[v] # e
      BY <1>4, <1>5, <2>2
    <3>2. i \in DOMAIN file /\ file'[i] = file[i]
      BY <1>1, <2>2, <3>1 DEF Continued
    <3>3. file[i].unit <= written[v] /\ written'[v] = written[v]
      BY <1>4, <2>2, <3>1, <3>2 DEF FileInv, Placed
    <3>4. QED
      BY <3>2, <3>3
  <2>3. QED
    BY <2>1, <2>2 DEF Placed, Continued
<1>8. Complete'
  <2> SUFFICES ASSUME NEW d \in Events, result'[d] = "returned"
               PROVE  \E p \in Nat : RowAt(file', d, p)
    BY DEF Complete, RowAt
  <2>1. CASE d = e
    BY <1>1, <1>3, <2>1
  <2>2. CASE d # e
    <3>1. PICK p \in Nat : RowAt(file, d, p)
      BY <1>3, <2>2 DEF FileInv, Complete
    <3>2. RowAt(file', d, p)
      BY <3>1, RowStays DEF FileInv, TypeOK
    <3>3. QED
      BY <3>2
  <2>3. QED
    BY <2>1, <2>2
<1>9. QED
  BY <1>6, <1>7, <1>8

\* Going back from a unit one finds all that precede it in its row.
LEMMA Chain ==
    ASSUME file \in Seq(Units), InRows(file), NoInterleaving,
           NEW i \in DOMAIN file, NEW d \in Nat, d < file[i].unit
    PROVE  /\ i - d \in DOMAIN file
           /\ file[i - d] = [event |-> file[i].event, unit |-> file[i].unit - d]
<1>1. PICK n \in Nat : n = Len(file)
  OBVIOUS
<1>2. PICK e, v : e = file[i].event /\ v = file[i].unit
  OBVIOUS
<1>3. /\ DOMAIN file = 1..n /\ v \in Nat /\ file[i] = [event |-> e, unit |-> v]
      /\ i \in Int
  BY <1>1, <1>2 DEF Units
<1> DEFINE Good == {k \in Nat : k < v => /\ i - k \in DOMAIN file
                                         /\ file[i - k] = [event |-> e, unit |-> v - k]}
<1>4. 0 \in Good
  BY <1>3
<1>5. ASSUME NEW k \in Nat, k \in Good PROVE k + 1 \in Good
  <2>1. SUFFICES ASSUME k + 1 < v
                 PROVE  /\ i - (k + 1) \in DOMAIN file
                        /\ file[i - (k + 1)] = [event |-> e, unit |-> v - (k + 1)]
    OBVIOUS
  <2>2. PICK j : j = i - k
    OBVIOUS
  <2>3. j \in DOMAIN file /\ file[j] = [event |-> e, unit |-> v - k]
    BY <1>3, <1>5, <2>1, <2>2
  <2>4. file[j].unit > 1 /\ file[j].unit - 1 = v - (k + 1) /\ file[j].event = e
    BY <1>3, <2>1, <2>3
  <2>5. j > 1 /\ file[j - 1] = [event |-> e, unit |-> v - (k + 1)]
    BY <2>3, <2>4 DEF NoInterleaving
  <2>6. j - 1 = i - (k + 1) /\ j - 1 \in DOMAIN file
    BY <1>3, <2>2, <2>3, <2>5
  <2>7. QED
    BY <2>5, <2>6
<1>6. Nat \subseteq Good
  <2> HIDE DEF Good
  <2>1. QED
    BY <1>4, <1>5, NatSetInduction
<1>7. QED
  BY <1>2, <1>6

\* The row whose newline is at i.
LEMMA RowEnding ==
    ASSUME file \in Seq(Units), InRows(file), NoInterleaving,
           NEW i \in DOMAIN file, IsNewline(file[i])
    PROVE  RowAt(file, file[i].event, i - Length[file[i].event])
<1>1. PICK n \in Nat : n = Len(file)
  OBVIOUS
<1>2. PICK e, v : e = file[i].event /\ v = Length[e]
  OBVIOUS
<1>3. DOMAIN file = 1..n /\ v \in Nat /\ v >= 2 /\ file[i].unit = v /\ i \in Int
  BY <1>1, <1>2, LengthType DEF Units, IsNewline
<1>4. ASSUME NEW u \in 1..v
      PROVE  i - (v - u) \in 1..n /\ file[i - (v - u)] = [event |-> e, unit |-> u]
  <2>1. PICK d \in Nat : d = v - u
    BY <1>3
  <2>2. d < file[i].unit
    BY <1>3, <2>1
  <2>3. /\ i - d \in DOMAIN file
        /\ file[i - d] = [event |-> file[i].event, unit |-> file[i].unit - d]
    BY <2>2, Chain
  <2>4. file[i].unit - d = u
    BY <1>3, <2>1
  <2>5. QED
    BY <1>2, <1>3, <2>1, <2>3, <2>4
<1>5. PICK p : p = i - v
  OBVIOUS
<1>6. \A u \in 1..v : p + u = i - (v - u)
  BY <1>3, <1>5
<1>7. p + 1 \in 1..n /\ 1 \in 1..v
  <2>1. 1 \in 1..v
    BY <1>3
  <2>2. QED
    BY <1>4, <1>6, <2>1
<1>8. p \in Nat /\ p + v <= n
  BY <1>3, <1>5, <1>7
<1>9. \A u \in 1..v : file[p + u] = [event |-> e, unit |-> u]
  BY <1>4, <1>6
<1>10. RowAt(file, e, p)
  BY <1>1, <1>2, <1>8, <1>9 DEF RowAt
<1>11. QED
  BY <1>2, <1>5, <1>10

\* A unit whose successor is the first of a row is the last of its own row
\* in the file.
LEMMA LastPart ==
    ASSUME file \in Seq(Units), InRows(file), Once(file), NoInterleaving,
           NEW p \in DOMAIN file, p + 1 \in DOMAIN file, file[p + 1].unit = 1,
           NEW j \in DOMAIN file, file[j].event = file[p].event
    PROVE  file[j].unit <= file[p].unit
<1>1. SUFFICES ASSUME file[p].unit < file[j].unit PROVE FALSE
  BY DEF Units
<1>2. PICK n \in Nat : n = Len(file)
  OBVIOUS
<1>3. PICK g, u, v : g = file[p].event /\ u = file[p].unit /\ v = file[j].unit
  OBVIOUS
<1>4. /\ DOMAIN file = 1..n /\ u \in Nat /\ v \in Nat /\ u < v /\ 1 <= u
      /\ file[p] = [event |-> g, unit |-> u] /\ file[j] = [event |-> g, unit |-> v]
  BY <1>1, <1>2, <1>3 DEF Units, InRows
<1>5. PICK d \in Nat : d = v - u
  BY <1>4
<1>6. d < file[j].unit /\ d >= 1 /\ file[j].unit - d = u /\ file[j].event = g
  <2>1. u \in Nat /\ v \in Nat /\ u < v
    BY <1>4
  <2>2. d < v /\ d >= 1 /\ v - d = u
    <3>1. 1 <= u
      BY <1>4
    <3>2. QED
      BY <1>5, <2>1, <3>1
  <2>3. file[j].unit = v /\ file[j].event = g
    BY <1>4
  <2>4. QED
    BY <2>2, <2>3
<1>7. j - d \in DOMAIN file /\ file[j - d] = [event |-> g, unit |-> u]
  <2>1. /\ j - d \in DOMAIN file
        /\ file[j - d] = [event |-> file[j].event, unit |-> file[j].unit - d]
    BY <1>6, Chain
  <2>2. QED
    BY <1>6, <2>1
<1>8. j - d = p
  BY <1>4, <1>7 DEF Once
<1>9. PICK c \in Nat : c = d - 1
  BY <1>6
<1>10. c < file[j].unit /\ file[j].unit - c = u + 1 /\ j - c = p + 1
  <2>1. file[j].unit = v /\ j \in Int /\ p \in Int
    BY <1>4
  <2>2. c < v /\ v - c = u + 1
    <3>1. u \in Nat /\ v \in Nat /\ u < v
      BY <1>4
    <3>2. QED
      BY <1>5, <1>9, <3>1
  <2>3. j - c = p + 1
    BY <1>8, <1>9, <2>1
  <2>4. QED
    BY <2>1, <2>2, <2>3
<1>11. file[j - c] = [event |-> file[j].event, unit |-> file[j].unit - c]
  BY <1>10, Chain
<1>12. file[p + 1].unit = u + 1
  BY <1>10, <1>11
<1>13. QED
  BY <1>4, <1>12

\* What a worker in its row has written starts where the row will start.
LEMMA Begun ==
    ASSUME FileInv, NEW w \in Workers, state[w] = "writing"
    PROVE  /\ Len(file) - written[w] \in Nat
           /\ \A u \in 1..written[w] :
                file[(Len(file) - written[w]) + u] = [event |-> event[w], unit |-> u]
<1>1. PICK n, from, e : n = Len(file) /\ from = written[w] /\ e = event[w]
  OBVIOUS
<1>2. file \in Seq(Units) /\ InRows(file) /\ NoInterleaving /\ n \in Nat /\ from \in Nat
  BY <1>1 DEF FileInv, TypeOK, LogInv, Placed
<1>3. CASE from = 0
  BY <1>1, <1>2, <1>3
<1>4. CASE from > 0
  <2>1. n \in DOMAIN file /\ file[n] = [event |-> e, unit |-> from]
    BY <1>1, <1>2, <1>4 DEF FileInv, LogInv, AtEnd
  <2>2. ASSUME NEW u \in 1..from
        PROVE  n - (from - u) \in 1..n /\ file[n - (from - u)] = [event |-> e, unit |-> u]
    <3>1. PICK d \in Nat : d = from - u
      BY <1>2
    <3>2. d < file[n].unit /\ file[n].unit - d = u /\ file[n].event = e
      BY <1>2, <2>1, <3>1
    <3>3. /\ n - d \in DOMAIN file
          /\ file[n - d] = [event |-> file[n].event, unit |-> file[n].unit - d]
      BY <1>2, <2>1, <3>2, Chain
    <3>4. QED
      BY <1>1, <1>2, <3>1, <3>2, <3>3
  <2>3. 1 \in 1..from /\ n - (from - 1) \in 1..n
    <3>1. 1 \in 1..from
      BY <1>2, <1>4
    <3>2. QED
      BY <2>2, <3>1
  <2>4. n - from \in Nat
    BY <1>2, <2>3
  <2>5. \A u \in 1..from : (n - from) + u = n - (from - u)
    BY <1>2
  <2>6. QED
    BY <1>1, <2>2, <2>4, <2>5
<1>5. QED
  BY <1>2, <1>3, <1>4

\* A row that is written to its end is there.
LEMMA Finished ==
    ASSUME FileInv, NEW w \in Workers, state[w] = "writing",
           WriteUpTo(w, Length[event[w]])
    PROVE  RowAt(file', event[w], Len(file) - written[w])
<1>1. PICK n, from, e, k : n = Len(file) /\ from = written[w] /\ e = event[w] /\ k = Length[e]
  OBVIOUS
<1>2. /\ n \in Nat /\ from \in Nat /\ e \in Events /\ k \in Nat /\ from < k
  <2>1. Len(file) \in Nat /\ written[w] \in Nat /\ event[w] \in Events
    BY DEF FileInv, TypeOK, LogInv, Exclusive
  <2>2. written[w] < Length[event[w]]
    BY DEF FileInv, LogInv, AtEnd
  <2>3. QED
    BY <1>1, <2>1, <2>2, LengthType
<1>3. /\ file' \in Seq(Units) /\ Len(file') = n + (k - from)
      /\ DOMAIN file = 1..n
      /\ \A i \in 1..n : file'[i] = file[i]
      /\ \A i \in 1..(k - from) : file'[n + i] = [event |-> e, unit |-> from + i]
  <2>1. TypeOK /\ LogInv
    BY DEF FileInv
  <2>2. k \in Nat
    BY <1>2
  <2>3. written[w] <= k
    BY <1>1, <1>2
  <2>4. k <= Length[event[w]]
    BY <1>1, <1>2
  <2>5. WriteUpTo(w, k)
    BY <1>1
  <2>6. PICK m : m = Len(file)
    OBVIOUS
  <2>7. /\ m \in Nat /\ written[w] \in Nat /\ event[w] \in Events
        /\ file' \in Seq(Units) /\ Len(file') = m + (k - written[w])
        /\ DOMAIN file = 1..m /\ DOMAIN file' = 1..(m + (k - written[w]))
        /\ \A i \in 1..m : file'[i] = file[i]
        /\ \A i \in 1..(k - written[w]) :
             file'[m + i] = [event |-> event[w], unit |-> written[w] + i]
    BY <2>1, <2>2, <2>3, <2>4, <2>5, <2>6, WrittenUnits, Zenon
  <2>8. m = n
    BY <1>1, <2>6
  <2>9. QED
    BY <1>1, <2>7, <2>8
<1>4. PICK p : p = n - from
  OBVIOUS
<1>5. p \in Nat /\ \A u \in 1..from : file[p + u] = [event |-> e, unit |-> u]
  BY <1>1, <1>4, Begun
<1>6. p + k <= Len(file')
  BY <1>2, <1>3, <1>4
<1>7. ASSUME NEW u \in 1..k PROVE file'[p + u] = [event |-> e, unit |-> u]
  <2>1. CASE u <= from
    <3>1. u \in 1..from /\ p + u \in 1..n
      BY <1>2, <1>4, <1>5, <2>1
    <3>2. QED
      BY <1>3, <1>5, <3>1
  <2>2. CASE ~(u <= from)
    <3>1. u - from \in 1..(k - from) /\ n + (u - from) = p + u /\ from + (u - from) = u
      BY <1>2, <1>4, <2>2
    <3>2. file'[n + (u - from)] = [event |-> e, unit |-> from + (u - from)]
      BY <1>3, <3>1
    <3>3. QED
      BY <3>1, <3>2
  <2>3. QED
    BY <2>1, <2>2
<1>8. RowAt(file', e, p)
  BY <1>1, <1>5, <1>6, <1>7 DEF RowAt
<1>9. QED
  BY <1>1, <1>4, <1>8

LEMMA StayContinues ==
    ASSUME FileInv, NEW e, file' = file
    PROVE  Continued(e)
BY DEF FileInv, TypeOK, Placed, Continued, InRows, Once

LEMMA FileInit == Init => FileInv
<1> SUFFICES ASSUME Init PROVE FileInv
  OBVIOUS
<1>1. Book
  BY DEF Init, Book, Active
<1>2. Placed
  BY DEF Init, Placed, InRows, Once
<1>3. Complete
  BY DEF Init, Complete
<1>4. QED
  BY <1>1, <1>2, <1>3, InitKeeps DEF FileInv

LEMMA WorkerPlaces ==
    ASSUME FileInv, NEW w \in Workers,
           \/ \E e \in Events : Open(w, e) \/ OpenFails(w, e)
           \/ Proceed(w) \/ Kill(w) \/ Restart(w)
    PROVE  Book' /\ Placed' /\ Complete'
<1>1. ASSUME NEW e \in Events, Open(w, e) PROVE Book' /\ Placed' /\ Complete'
  <2>1. /\ state[w] = "serving" /\ result[e] = "none" /\ file' = file /\ written' = written
        /\ state' = [state EXCEPT ![w] = "opened"]
        /\ event' = [event EXCEPT ![w] = e]
        /\ result' = [result EXCEPT ![e] = "open"]
    BY <1>1 DEF Open
  <2>2. /\ state'[w] = "opened" /\ event'[w] = e
        /\ \A v \in Workers \ {w} : state'[v] = state[v] /\ event'[v] = event[v]
        /\ result'[e] = "open" /\ \A d \in Events \ {e} : result'[d] = result[d]
        /\ result' \in [Events -> {"none", "open", "returned", "failed", "killed"}]
    BY <2>1 DEF FileInv, TypeOK, Book
  <2>3. \A v \in Workers : state[v] \in Active => event[v] # e /\ event[v] \in Events
    BY <2>1 DEF FileInv, Book, LogInv, Exclusive, Active
  <2>4. \A i \in DOMAIN file : file[i].event # e /\ file[i].event \in Events
    BY <2>1 DEF FileInv, TypeOK, Placed, Units
  <2>5. Book'
    <3>1. ASSUME NEW v \in Workers, state'[v] \in Active PROVE result'[event'[v]] = "open"
      BY <2>2, <2>3, <3>1 DEF FileInv, Book
    <3>2. ASSUME NEW d \in Events, result'[d] = "open"
          PROVE  \E v \in Workers : state'[v] \in Active /\ event'[v] = d
      <4>1. CASE d = e
        BY <2>2, <4>1 DEF Active
      <4>2. CASE d # e
        <5>1. PICK v \in Workers : state[v] \in Active /\ event[v] = d
          BY <2>2, <3>2, <4>2 DEF FileInv, Book
        <5>2. v # w
          BY <2>1, <5>1 DEF Active
        <5>3. QED
          BY <2>2, <5>1, <5>2
      <4>3. QED
        BY <4>1, <4>2
    <3>3. ASSUME NEW u \in Workers, NEW v \in Workers, u # v,
                 state'[u] \in Active, state'[v] \in Active
          PROVE  event'[u] # event'[v]
      BY <2>2, <2>3, <3>3 DEF FileInv, Book
    <3>4. QED
      BY <2>2, <3>1, <3>2, <3>3 DEF Book
  <2>6. Placed'
    <3>1. InRows(file') /\ Once(file')
      BY <2>1 DEF FileInv, Placed, InRows, Once
    <3>2. \A i \in DOMAIN file' : result'[file'[i].event] # "none"
      BY <2>1, <2>2, <2>4 DEF FileInv, Placed
    <3>3. ASSUME NEW v \in Workers, state'[v] \in Active, NEW i \in DOMAIN file',
                 file'[i].event = event'[v]
          PROVE  file'[i].unit <= written'[v]
      BY <2>1, <2>2, <2>4, <3>3 DEF FileInv, Placed
    <3>4. QED
      BY <3>1, <3>2, <3>3 DEF Placed
  <2>7. Complete'
    BY <2>1, <2>2 DEF FileInv, Complete, RowAt
  <2>8. QED
    BY <2>5, <2>6, <2>7
<1>2. ASSUME NEW e \in Events, OpenFails(w, e) PROVE Book' /\ Placed' /\ Complete'
  <2>1. /\ result[e] = "none" /\ UNCHANGED <<state, event, written, file>>
        /\ result' = [result EXCEPT ![e] = "failed"]
    BY <1>2 DEF OpenFails
  <2>2. /\ result'[e] = "failed" /\ \A d \in Events \ {e} : result'[d] = result[d]
        /\ result' \in [Events -> {"none", "open", "returned", "failed", "killed"}]
    BY <2>1 DEF FileInv, Book
  <2>3. \A v \in Workers : state[v] \in Active => event[v] # e /\ event[v] \in Events
    BY <2>1 DEF FileInv, Book, LogInv, Exclusive, Active
  <2>4. Book'
    BY <2>1, <2>2, <2>3 DEF FileInv, Book
  <2>5. Placed'
    BY <2>1, <2>2 DEF FileInv, TypeOK, Placed, InRows, Once, Units
  <2>6. Complete'
    BY <2>1, <2>2 DEF FileInv, Complete, RowAt
  <2>7. QED
    BY <2>4, <2>5, <2>6
<1>3. CASE Lock(w)
  <2>1. /\ state[w] = "opened" /\ state' = [state EXCEPT ![w] = "writing"]
        /\ UNCHANGED <<event, written, file, result>>
    BY <1>3 DEF Lock
  <2>2. \A v \in Workers : (state'[v] \in Active) <=> (state[v] \in Active)
    BY <2>1 DEF FileInv, TypeOK, Active
  <2>3. QED
    BY <2>1, <2>2 DEF FileInv, Book, Placed, Complete, InRows, Once, RowAt
<1>4. CASE Flush(w)
  <2>1. PICK k \in written[w] + 1 .. Reach(event[w]) :
           WriteUpTo(w, k) /\ written' = [written EXCEPT ![w] = k]
    BY <1>4 DEF Flush
  <2>2. state[w] = "writing" /\ UNCHANGED <<state, event, result>>
    BY <1>4 DEF Flush
  <2>3. /\ k \in Nat /\ written[w] <= k /\ k <= Length[event[w]]
    <3>1. /\ event[w] \in Events /\ written[w] \in Nat
      BY <2>2 DEF FileInv, TypeOK, LogInv, Exclusive
    <3>2. Reach(event[w]) < Length[event[w]] /\ Reach(event[w]) \in Int
      BY <3>1, LengthType DEF Reach
    <3>3. QED
      BY <2>1, <3>1, <3>2, LengthType
  <2>4. /\ Continued(event[w])
        /\ \A i \in DOMAIN file' : file'[i].event = event[w] => file'[i].unit <= k
    BY <2>1, <2>2, <2>3, WriteContinues
  <2>5. /\ result[event[w]] = "open" /\ written'[w] = k
        /\ \A v \in Workers \ {w} : written'[v] = written[v]
        /\ \A v \in Workers \ {w} : state[v] \in Active => event[v] # event[w]
    BY <2>1, <2>2 DEF FileInv, TypeOK, Book, Active
  <2>6. Book'
    BY <2>2 DEF FileInv, Book
  <2>7. Placed'
    <3>1. ASSUME NEW i \in DOMAIN file' PROVE result'[file'[i].event] # "none"
      <4>1. CASE i \in DOMAIN file
        BY <2>2, <2>4, <4>1 DEF FileInv, Placed, Continued
      <4>2. CASE i \notin DOMAIN file
        BY <2>2, <2>4, <2>5, <3>1, <4>2 DEF Continued
      <4>3. QED
        BY <4>1, <4>2
    <3>2. ASSUME NEW v \in Workers, state'[v] \in Active, NEW i \in DOMAIN file',
                 file'[i].event = event'[v]
          PROVE  file'[i].unit <= written'[v]
      <4>1. CASE v = w
        BY <2>2, <2>4, <2>5, <3>2, <4>1
      <4>2. CASE v # w
        <5>1. state[v] \in Active /\ file'[i].event = event[v] /\ event[v] # event[w]
          BY <2>2, <2>5, <3>2, <4>2
        <5>2. i \in DOMAIN file /\ file'[i] = file[i]
          BY <2>4, <5>1 DEF Continued
        <5>3. file[i].unit <= written[v]
          BY <5>1, <5>2 DEF FileInv, Placed
        <5>4. QED
          BY <2>5, <4>2, <5>2, <5>3
      <4>3. QED
        BY <4>1, <4>2
    <3>3. QED
      BY <2>4, <3>1, <3>2 DEF Placed, Continued
  <2>8. Complete'
    <3> SUFFICES ASSUME NEW d \in Events, result'[d] = "returned"
                 PROVE  \E p \in Nat : RowAt(file', d, p)
      BY DEF Complete, RowAt
    <3>1. PICK p \in Nat : RowAt(file, d, p)
      BY <2>2 DEF FileInv, Complete
    <3>2. RowAt(file', d, p)
      BY <2>4, <3>1, RowStays DEF FileInv, TypeOK
    <3>3. QED
      BY <3>2
  <2>9. QED
    BY <2>6, <2>7, <2>8
<1>5. CASE Close(w)
  <2>1. /\ state[w] = "writing" /\ WriteUpTo(w, Length[event[w]])
        /\ Leave(w, "serving", "returned")
    BY <1>5 DEF Close
  <2>2. PICK k : k = Length[event[w]]
    OBVIOUS
  <2>3. k \in Nat /\ written[w] <= k /\ k <= Length[event[w]] /\ WriteUpTo(w, k)
    <3>1. written[w] \in Nat /\ event[w] \in Events /\ written[w] < Length[event[w]]
      BY <2>1 DEF FileInv, TypeOK, LogInv, Exclusive, AtEnd
    <3>2. Length[event[w]] \in Nat
      BY <3>1, LengthType
    <3>3. QED
      BY <2>1, <2>2, <3>1, <3>2
  <2>4. Continued(event[w])
    BY <2>1, <2>3, WriteContinues
  <2>5. \E p \in Nat : RowAt(file', event[w], p)
    <3>1. RowAt(file', event[w], Len(file) - written[w])
      BY <2>1, Finished
    <3>2. QED
      BY <3>1 DEF RowAt
  <2>6. state[w] \in Active
    BY <2>1 DEF Active
  <2>7. QED
    BY <2>1, <2>4, <2>5, <2>6, LeavePlaces
<1>6. CASE AppendFails(w)
  <2>1. PICK k \in written[w] .. Reach(event[w]) : WriteUpTo(w, k)
    BY <1>6 DEF AppendFails
  <2>2. state[w] = "writing" /\ Leave(w, "serving", "failed")
    BY <1>6 DEF AppendFails
  <2>3. k \in Nat /\ written[w] <= k /\ k <= Length[event[w]]
    <3>1. event[w] \in Events /\ written[w] \in Nat
      BY <2>2 DEF FileInv, TypeOK, LogInv, Exclusive
    <3>2. Reach(event[w]) < Length[event[w]] /\ Reach(event[w]) \in Int
      BY <3>1, LengthType DEF Reach
    <3>3. QED
      BY <2>1, <3>1, <3>2, LengthType
  <2>4. Continued(event[w])
    BY <2>1, <2>2, <2>3, WriteContinues
  <2>5. state[w] \in Active
    BY <2>2 DEF Active
  <2>6. QED
    BY <2>2, <2>4, <2>5, LeavePlaces
<1>7. CASE Kill(w)
  <2>1. CASE state[w] = "serving"
    <3>1. /\ state' = [state EXCEPT ![w] = "down"] /\ UNCHANGED <<event, written, file, result>>
      BY <1>7, <2>1 DEF Kill
    <3>2. \A v \in Workers : (state'[v] \in Active) <=> (state[v] \in Active)
      BY <2>1, <3>1 DEF FileInv, TypeOK, Active
    <3>3. QED
      BY <3>1, <3>2 DEF FileInv, Book, Placed, Complete, InRows, Once, RowAt
  <2>2. CASE state[w] # "serving"
    <3>1. state[w] \in Active /\ Leave(w, "down", "killed") /\ file' = file
      BY <1>7, <2>2 DEF Kill, FileInv, TypeOK, Active
    <3>2. Continued(event[w])
      BY <3>1, StayContinues
    <3>3. QED
      BY <3>1, <3>2, LeavePlaces
  <2>3. QED
    BY <2>1, <2>2
<1>8. CASE Restart(w)
  <2>1. /\ state[w] = "down" /\ state' = [state EXCEPT ![w] = "serving"]
        /\ UNCHANGED <<event, written, file, result>>
    BY <1>8 DEF Restart
  <2>2. \A v \in Workers : (state'[v] \in Active) <=> (state[v] \in Active)
    BY <2>1 DEF FileInv, TypeOK, Active
  <2>3. QED
    BY <2>1, <2>2 DEF FileInv, Book, Placed, Complete, InRows, Once, RowAt
<1>9. QED
  BY <1>1, <1>2, <1>3, <1>4, <1>5, <1>6, <1>7, <1>8 DEF Proceed

LEMMA FileNext == FileInv /\ [Next]_vars => FileInv'
<1> SUFFICES ASSUME FileInv, [Next]_vars PROVE FileInv'
  OBVIOUS
<1>1. TypeOK' /\ LogInv'
  BY NextKeeps DEF FileInv
<1>2. ASSUME UNCHANGED writers PROVE Book' /\ Placed' /\ Complete'
  BY <1>2 DEF writers, FileInv, Book, Placed, Complete, InRows, Once, RowAt
<1>3. CASE UNCHANGED vars
  BY <1>1, <1>2, <1>3 DEF vars, FileInv
<1>4. CASE StartReport \/ Read \/ EndOfFile
  BY <1>1, <1>2, <1>4 DEF StartReport, Read, EndOfFile, FileInv
<1>5. ASSUME NEW w \in Workers,
             \/ \E e \in Events : Open(w, e) \/ OpenFails(w, e)
             \/ Proceed(w) \/ Kill(w) \/ Restart(w)
      PROVE  FileInv'
  BY <1>1, <1>5, WorkerPlaces DEF FileInv
<1>6. QED
  BY <1>3, <1>4, <1>5 DEF Next

-----------------------------------------------------------------------------
(***************************************************************************)
(* Lines.                                                                  *)
(***************************************************************************)

LEMMA DecodeRow ==
    ASSUME NEW e \in Events
    PROVE  Decode(Row(e)) = e /\ Decode(Front(Row(e))) = e
<1>1. /\ Row(e)[1] = [event |-> e, unit |-> 1]
      /\ Front(Row(e))[1] = [event |-> e, unit |-> 1]
  <2>1. Length[e] \in Nat /\ Length[e] >= 2
    BY LengthType
  <2>2. Row(e) \in Seq(Units) /\ Len(Row(e)) = Length[e] /\ Row(e)[1] = [event |-> e, unit |-> 1]
    BY <2>1 DEF Row, Units
  <2>3. Front(Row(e))[1] = Row(e)[1]
    BY <2>1, <2>2 DEF Front
  <2>4. QED
    BY <2>2, <2>3
<1>2. QED
  BY <1>1 DEF Decode

LEMMA DecodeOnly ==
    ASSUME NEW line, Decode(line) # Malformed
    PROVE  \E e \in Events : /\ Decode(line) = e
                             /\ line \in {Row(e), Front(Row(e))}
                             /\ line[1] = [event |-> e, unit |-> 1]
                             /\ Len(line) \in Nat /\ 1 <= Len(line)
<1>1. PICK e \in Events : line \in {Row(e), Front(Row(e))}
  BY DEF Decode
<1>2. Decode(line) = e
  BY <1>1, DecodeRow
<1>3. Length[e] \in Nat /\ Length[e] >= 2
  BY LengthType
<1>4. Row(e) \in Seq(Units) /\ Len(Row(e)) = Length[e] /\ Row(e)[1] = [event |-> e, unit |-> 1]
  BY <1>3 DEF Row, Units
<1>5. Front(Row(e))[1] = Row(e)[1] /\ Len(Front(Row(e))) = Length[e] - 1
  BY <1>3, <1>4 DEF Front
<1>6. QED
  BY <1>1, <1>2, <1>3, <1>4, <1>5

LEMMA EndsType ==
    ASSUME NEW f \in Seq(Units)
    PROVE  /\ LineEnds(f) \in SUBSET Int /\ IsFiniteSet(LineEnds(f))
           /\ DOMAIN Lines(f) = DOMAIN Listed(LineEnds(f))
           /\ DOMAIN Lines(f) = 1..Cardinality(LineEnds(f))
           /\ Cardinality(LineEnds(f)) \in Nat
           /\ Len(Lines(f)) = Cardinality(LineEnds(f))
<1>1. PICK E : E = LineEnds(f)
  OBVIOUS
<1>2. DOMAIN f = 1..Len(f) /\ Len(f) \in Nat
  OBVIOUS
<1>3. E \in SUBSET (1..Len(f))
  BY <1>1, <1>2 DEF LineEnds
<1>4. IsFiniteSet(1..Len(f))
  <2>1. 1 \in Int /\ Len(f) \in Int
    BY <1>2
  <2>2. QED
    BY <2>1, FS_Interval
<1>5. E \in SUBSET Int /\ IsFiniteSet(E)
  <2>1. IsFiniteSet(E)
    BY <1>3, <1>4, FS_Subset
  <2>2. \A i \in E : i \in Int
    BY <1>2, <1>3
  <2>3. QED
    BY <2>1, <2>2
<1>6. DOMAIN Listed(E) = 1..Cardinality(E) /\ Cardinality(E) \in Nat
  BY <1>5, ListedType
<1>7. DOMAIN Lines(f) = DOMAIN Listed(E)
  BY <1>1 DEF Lines
<1>8. Len(Lines(f)) = Cardinality(E)
  <2>1. PICK ls : ls = Lines(f)
    OBVIOUS
  <2>2. ls = [k \in 1..Cardinality(E) |-> ls[k]]
    BY <1>1, <1>6, <2>1 DEF Lines
  <2>3. QED
    BY <1>6, <2>1, <2>2
<1>9. QED
  BY <1>1, <1>5, <1>6, <1>7, <1>8

LEMMA LineAt ==
    ASSUME NEW f, NEW n \in DOMAIN Listed(LineEnds(f))
    PROVE  /\ n = 1 => Lines(f)[n] = SubSeq(f, 1, Listed(LineEnds(f))[n])
           /\ n # 1 => Lines(f)[n] = SubSeq(f, Listed(LineEnds(f))[n - 1] + 1,
                                           Listed(LineEnds(f))[n])
BY DEF Lines

\* A line starts at the start of the file or after a newline.
LEMMA LineFrom ==
    ASSUME NEW f \in Seq(Units), NEW n \in DOMAIN Lines(f)
    PROVE  \E s \in Nat, q \in LineEnds(f) :
             /\ Lines(f)[n] = SubSeq(f, s + 1, q)
             /\ s < q /\ q <= Len(f)
             /\ s = 0 \/ (s \in DOMAIN f /\ IsNewline(f[s]))
<1>1. PICK E : E = LineEnds(f)
  OBVIOUS
<1>2. /\ E \in SUBSET Int /\ IsFiniteSet(E)
      /\ n \in 1..Cardinality(E) /\ Cardinality(E) \in Nat
  BY <1>1, EndsType
<1>3. PICK q : q = Listed(E)[n]
  OBVIOUS
<1>4. q \in E /\ Rank(q, E) = n
  BY <1>2, <1>3, ListedType
<1>5. q \in 1..Len(f) /\ Len(f) \in Nat /\ DOMAIN f = 1..Len(f)
  BY <1>1, <1>4 DEF LineEnds
<1>6. CASE n = 1
  <2>1. Lines(f)[n] = SubSeq(f, 0 + 1, q)
    BY <1>1, <1>3, <1>6, EndsType, LineAt
  <2>2. QED
    BY <1>1, <1>4, <1>5, <2>1
<1>7. CASE n # 1
  <2>1. PICK m \in 1..Cardinality(E) : m = n - 1
    BY <1>2, <1>7
  <2>2. PICK s : s = Listed(E)[m]
    OBVIOUS
  <2>3. s \in E /\ Rank(s, E) = m
    BY <1>2, <2>2, ListedType
  <2>4. s \in Int /\ q \in Int /\ m < n /\ m \in Int /\ n \in Int
    BY <1>2, <1>4, <2>1, <2>3
  <2>5. ~(q < s)
    BY <1>2, <1>4, <2>3, <2>4, RankGrows
  <2>6. s # q
    BY <1>4, <2>3, <2>4
  <2>7. s < q
    BY <2>4, <2>5, <2>6
  <2>8. Lines(f)[n] = SubSeq(f, s + 1, q)
    BY <1>1, <1>3, <1>7, <2>1, <2>2, EndsType, LineAt
  <2>9. s \in DOMAIN f /\ IsNewline(f[s])
    BY <1>1, <1>5, <2>3, <2>7 DEF LineEnds
  <2>10. s \in Nat
    BY <1>5, <2>9
  <2>11. q \in LineEnds(f) /\ q <= Len(f)
    BY <1>1, <1>4, <1>5
  <2>12. QED
    BY <2>7, <2>8, <2>9, <2>10, <2>11
<1>8. QED
  BY <1>6, <1>7

\* The line that ends at q begins at the last end before q.
LEMMA LineTo ==
    ASSUME NEW f \in Seq(Units), NEW s \in Nat, NEW q \in LineEnds(f), s < q,
           s = 0 \/ (s \in DOMAIN f /\ IsNewline(f[s])),
           \A i \in LineEnds(f) : i <= s \/ i >= q
    PROVE  /\ Rank(q, LineEnds(f)) \in DOMAIN Lines(f)
           /\ Lines(f)[Rank(q, LineEnds(f))] = SubSeq(f, s + 1, q)
<1>1. PICK E, n : E = LineEnds(f) /\ n = Rank(q, E)
  OBVIOUS
<1>2. E \in SUBSET Int /\ IsFiniteSet(E) /\ q \in E
  BY <1>1, EndsType
<1>3. n \in DOMAIN Listed(E) /\ Listed(E)[n] = q
  BY <1>1, <1>2, ListedAt
<1>4. n \in DOMAIN Lines(f)
  BY <1>1, <1>3, EndsType
<1>5. CASE s = 0
  <2>1. \A i \in E : i >= 1
    BY <1>1 DEF LineEnds
  <2>2. {y \in E : y <= q} = {q}
    BY <1>1, <1>2, <1>5, <2>1
  <2>3. n = 1
    BY <1>1, <2>2, FS_Singleton DEF Rank
  <2>4. Lines(f)[n] = SubSeq(f, 1, q)
    BY <1>1, <1>3, <2>3, LineAt
  <2>5. s + 1 = 1
    BY <1>5
  <2>6. QED
    BY <1>1, <1>4, <2>4, <2>5
<1>6. CASE s # 0
  <2>1. s \in E
    BY <1>1, <1>6 DEF LineEnds
  <2>2. \A z \in E : z <= s \/ z >= q
    BY <1>1
  <2>3. n = Rank(s, E) + 1
    BY <1>1, <1>2, <2>1, <2>2, RankGrows
  <2>4. PICK m : m = Rank(s, E)
    OBVIOUS
  <2>5. m \in 1..Cardinality(E) /\ Cardinality(E) \in Nat /\ Listed(E)[m] = s
    BY <1>2, <2>1, <2>4, RankType, ListedAt, FS_CardinalityType
  <2>6. n # 1 /\ n - 1 = m
    BY <2>3, <2>4, <2>5
  <2>7. Lines(f)[n] = SubSeq(f, s + 1, q)
    BY <1>1, <1>3, <2>5, <2>6, LineAt
  <2>8. QED
    BY <1>1, <1>4, <2>7
<1>7. QED
  BY <1>5, <1>6

\* A row that begins a line is that line.
LEMMA LineOf ==
    ASSUME FileInv, NEW e \in Events, NEW p, RowAt(file, e, p),
           p = 0 \/ (p \in DOMAIN file /\ IsNewline(file[p]))
    PROVE  \E n \in DOMAIN Lines(file) : Lines(file)[n] = Row(e)
<1>1. PICK N, q, v : N = Len(file) /\ v = Length[e] /\ q = p + v
  OBVIOUS
<1>2. /\ p \in Nat /\ N \in Nat /\ v \in Nat /\ v >= 2 /\ q <= N
      /\ file \in Seq(Units) /\ DOMAIN file = 1..N
      /\ \A u \in 1..v : file[p + u] = [event |-> e, unit |-> u]
  BY <1>1, LengthType DEF RowAt, FileInv, TypeOK
<1>3. q \in LineEnds(file)
  <2>1. file[q] = [event |-> e, unit |-> v]
    BY <1>1, <1>2
  <2>2. q \in 1..N
    BY <1>1, <1>2
  <2>3. QED
    BY <1>1, <1>2, <2>1, <2>2 DEF LineEnds, IsNewline
<1>4. ASSUME NEW i \in LineEnds(file), ~(i <= p), ~(i >= q) PROVE FALSE
  <2>1. i \in 1..N
    BY <1>2 DEF LineEnds
  <2>2. PICK u : u = i - p
    OBVIOUS
  <2>3. u \in 1..v /\ u # v /\ p + u = i /\ i # N
    BY <1>1, <1>2, <1>4, <2>1, <2>2
  <2>4. file[i] = [event |-> e, unit |-> u]
    BY <1>2, <2>3
  <2>5. IsNewline(file[i])
    BY <1>1, <2>3 DEF LineEnds
  <2>6. QED
    BY <1>1, <2>3, <2>4, <2>5 DEF IsNewline
<1>5. PICK n : n = Rank(q, LineEnds(file))
  OBVIOUS
<1>6. n \in DOMAIN Lines(file) /\ Lines(file)[n] = SubSeq(file, p + 1, q)
  <2>1. p < q
    BY <1>1, <1>2
  <2>2. \A i \in LineEnds(file) : i <= p \/ i >= q
    BY <1>4
  <2>3. /\ Rank(q, LineEnds(file)) \in DOMAIN Lines(file)
        /\ Lines(file)[Rank(q, LineEnds(file))] = SubSeq(file, p + 1, q)
    BY <1>2, <1>3, <2>1, <2>2, LineTo
  <2>4. QED
    BY <1>5, <2>3
<1>7. SubSeq(file, p + 1, q) = Row(e)
  <2>1. PICK s, t : s = SubSeq(file, p + 1, q) /\ t = Row(e)
    OBVIOUS
  <2>2. t \in Seq(Units) /\ Len(t) = v /\ \A u \in 1..v : t[u] = [event |-> e, unit |-> u]
    <3>1. t = [i \in 1..v |-> [event |-> e, unit |-> i]]
      BY <1>1, <2>1 DEF Row
    <3>2. \A i \in 1..v : [event |-> e, unit |-> i] \in Units
      BY <1>2 DEF Units
    <3>3. QED
      BY <1>2, <3>1, <3>2
  <2>3. s \in Seq(Units) /\ Len(s) = v /\ \A u \in 1..v : s[u] = file[p + u]
    <3>1. q = p + v
      BY <1>1
    <3>2. PICK m \in Int : m = p + 1
      BY <1>2
    <3>3. q \in Int /\ m <= q /\ q - m + 1 = v /\ \A u \in 1..v : m + u - 1 = p + u
      BY <1>2, <3>1, <3>2
    <3>4. \A i \in m..q : file[i] \in Units
      BY <1>2, <3>1, <3>2
    <3>5. /\ SubSeq(file, m, q) \in Seq(Units)
          /\ Len(SubSeq(file, m, q)) = v
          /\ \A u \in 1..v : SubSeq(file, m, q)[u] = file[m + u - 1]
      BY <3>3, <3>4, SubSeqProperties
    <3>6. QED
      BY <2>1, <3>2, <3>3, <3>5
  <2>4. \A u \in 1..v : s[u] = t[u]
    BY <1>2, <2>2, <2>3
  <2>5. s = t
    BY <2>2, <2>3, <2>4, SeqEqual
  <2>6. QED
    BY <2>1, <2>5
<1>8. QED
  BY <1>6, <1>7

\* A complete row that can be read begins a line.
LEMMA LineStarts ==
    ASSUME FileInv, NEW e \in Events, NEW p, RowAt(file, e, p), e \in Readable
    PROVE  p = 0 \/ (p \in DOMAIN file /\ IsNewline(file[p]))
<1>1. file \in Seq(Units) /\ p \in Nat /\ Len(file) \in Nat /\ DOMAIN file = 1..Len(file)
  BY DEF FileInv, TypeOK, RowAt
<1>2. PICK n \in DOMAIN Lines(file) : Decode(Lines(file)[n]) = e /\ e # Malformed
  BY DEF Readable
<1>3. PICK line : line = Lines(file)[n]
  OBVIOUS
<1>4. line[1] = [event |-> e, unit |-> 1] /\ Len(line) \in Nat /\ 1 <= Len(line)
  BY <1>2, <1>3, DecodeOnly
<1>5. PICK s \in Nat, q \in LineEnds(file) :
             /\ line = SubSeq(file, s + 1, q)
             /\ s < q /\ q <= Len(file)
             /\ s = 0 \/ (s \in DOMAIN file /\ IsNewline(file[s]))
  BY <1>1, <1>3, LineFrom
<1>6. q \in 1..Len(file)
  BY <1>1 DEF LineEnds
<1>7. line[1] = file[s + 1] /\ s + 1 \in 1..Len(file)
  BY <1>1, <1>5, <1>6
<1>8. file[p + 1] = [event |-> e, unit |-> 1] /\ p + 1 \in 1..Len(file)
  <2>1. Length[e] \in Nat /\ Length[e] >= 2
    BY LengthType
  <2>2. QED
    BY <1>1, <2>1 DEF RowAt
<1>9. s + 1 = p + 1
  BY <1>1, <1>4, <1>7, <1>8 DEF FileInv, Placed, Once
<1>10. s = p
  BY <1>1, <1>9
<1>11. QED
  BY <1>5, <1>10

-----------------------------------------------------------------------------
(***************************************************************************)
(* What a fragment costs.                                                  *)
(***************************************************************************)

\* A returned row that cannot be read has a fragment right before it.
LEMMA Swallowed ==
    ASSUME FileInv, NEW e \in Events, result[e] = "returned", e \notin Readable
    PROVE  \E p \in DOMAIN file :
             RowAt(file, e, p) /\ p + 1 \in DOMAIN file /\ file[p].event \in Fragments
<1>1. PICK p \in Nat : RowAt(file, e, p)
  BY DEF FileInv, Complete
<1>2. PICK n \in Nat : n = Len(file)
  BY DEF FileInv, TypeOK
<1>3. /\ file \in Seq(Units) /\ InRows(file) /\ Once(file) /\ NoInterleaving
      /\ DOMAIN file = 1..n /\ Length[e] \in Nat /\ Length[e] >= 2
  BY <1>2, LengthType DEF FileInv, TypeOK, LogInv, Placed
<1>4. p + 1 \in 1..n /\ file[p + 1] = [event |-> e, unit |-> 1]
  BY <1>1, <1>2, <1>3 DEF RowAt
<1>5. p # 0 /\ ~IsNewline(file[p])
  <2>1. SUFFICES ASSUME p = 0 \/ (p \in DOMAIN file /\ IsNewline(file[p])) PROVE FALSE
    BY <1>3, <1>4
  <2>2. PICK m \in DOMAIN Lines(file) : Lines(file)[m] = Row(e)
    BY <1>1, <2>1, LineOf
  <2>3. Decode(Lines(file)[m]) = e
    BY <2>2, DecodeRow
  <2>4. QED
    BY <2>3, LogNoneAssumption DEF Readable
<1>6. PICK g, u : g = file[p].event /\ u = file[p].unit
  OBVIOUS
<1>7. /\ p \in DOMAIN file /\ g \in Events /\ u \in 1..Length[g] /\ Length[g] \in Nat
      /\ file[p] = [event |-> g, unit |-> u] /\ u # Length[g]
  <2>1. p \in DOMAIN file
    BY <1>3, <1>4, <1>5
  <2>2. g \in Events /\ file[p] = [event |-> g, unit |-> u]
    BY <1>3, <1>6, <2>1 DEF Units
  <2>3. u \in 1..Length[g] /\ u # Length[g]
    BY <1>3, <1>5, <1>6, <2>1 DEF InRows, IsNewline
  <2>4. QED
    BY <2>1, <2>2, <2>3, LengthType
<1>8. ASSUME NEW j \in DOMAIN file, file[j].event = g PROVE file[j].unit <= u
  <2>1. file[p + 1].unit = 1 /\ p + 1 \in DOMAIN file /\ file[j].event = file[p].event
    BY <1>3, <1>4, <1>6, <1>8
  <2>2. file[j].unit <= file[p].unit
    BY <1>3, <1>7, <2>1, LastPart
  <2>3. QED
    BY <1>6, <2>2
<1>9. g # e
  <2>1. SUFFICES ASSUME g = e PROVE FALSE
    OBVIOUS
  <2>2. PICK v \in Nat : v = Length[e]
    BY <1>3
  <2>3. p + v \in DOMAIN file /\ file[p + v] = [event |-> e, unit |-> v]
    BY <1>1, <1>2, <1>3, <2>2 DEF RowAt
  <2>4. file[p + v].unit <= u
    BY <1>8, <2>1, <2>3
  <2>5. QED
    BY <1>7, <2>1, <2>2, <2>3, <2>4
<1>10. result[g] # "returned"
  <2>1. SUFFICES ASSUME result[g] = "returned" PROVE FALSE
    OBVIOUS
  <2>2. PICK q \in Nat : RowAt(file, g, q)
    BY <1>7, <2>1 DEF FileInv, Complete
  <2>3. PICK v \in Nat : v = Length[g]
    BY <1>7
  <2>4. q + v \in DOMAIN file /\ file[q + v] = [event |-> g, unit |-> v]
    BY <1>2, <1>3, <1>7, <2>2, <2>3, LengthType DEF RowAt
  <2>5. file[q + v].unit <= u
    BY <1>8, <2>4
  <2>6. QED
    BY <1>7, <2>3, <2>4, <2>5
<1>11. result[g] # "open"
  <2>1. SUFFICES ASSUME result[g] = "open" PROVE FALSE
    OBVIOUS
  <2>2. PICK w \in Workers : state[w] \in Active /\ event[w] = g
    BY <1>7, <2>1 DEF FileInv, Book
  <2>3. PICK from \in Nat : from = written[w]
    BY DEF FileInv, TypeOK
  <2>4. u <= from
    BY <1>6, <1>7, <2>2, <2>3 DEF FileInv, Placed
  <2>5. state[w] = "writing"
    BY <1>7, <2>2, <2>3, <2>4 DEF FileInv, LogInv, Exclusive, Active
  <2>6. n \in DOMAIN file /\ file[n] = [event |-> g, unit |-> from]
    <3>1. from > 0
      BY <1>7, <2>4
    <3>2. file # <<>> /\ file[Len(file)] = [event |-> g, unit |-> from]
      BY <2>2, <2>3, <2>5, <3>1 DEF FileInv, LogInv, AtEnd
    <3>3. QED
      BY <1>2, <1>3, <3>2
  <2>7. from <= u
    BY <1>8, <2>6
  <2>8. file[n] = file[p]
    BY <1>7, <2>4, <2>6, <2>7
  <2>9. n = p
    BY <1>3, <1>7, <2>6, <2>8 DEF Once
  <2>10. QED
    BY <1>4, <2>9
<1>12. g \in Fragments
  <2>1. result[g] \in {"none", "open", "returned", "failed", "killed"} /\ result[g] # "none"
    BY <1>6, <1>7 DEF FileInv, Book, Placed
  <2>2. QED
    BY <1>6, <1>7, <1>10, <1>11, <2>1 DEF Fragments
<1>13. QED
  BY <1>1, <1>3, <1>4, <1>6, <1>7, <1>12

\* No fragment comes right before two rows.
LEMMA SwallowsOne ==
    ASSUME FileInv, NEW d \in Events, NEW e \in Events,
           NEW p \in DOMAIN file, NEW q \in DOMAIN file,
           RowAt(file, d, p), RowAt(file, e, q), p + 1 \in DOMAIN file, q + 1 \in DOMAIN file,
           file[p].event = file[q].event
    PROVE  d = e
<1>1. /\ file \in Seq(Units) /\ InRows(file) /\ Once(file) /\ NoInterleaving
      /\ Length[d] \in Nat /\ Length[d] >= 2 /\ Length[e] \in Nat /\ Length[e] >= 2
  BY LengthType DEF FileInv, TypeOK, LogInv, Placed
<1>2. /\ file[p + 1] = [event |-> d, unit |-> 1] /\ file[q + 1] = [event |-> e, unit |-> 1]
  <2>1. 1 \in 1..Length[d] /\ 1 \in 1..Length[e]
    BY <1>1
  <2>2. QED
    BY <2>1 DEF RowAt
<1>3. file[p].unit <= file[q].unit /\ file[q].unit <= file[p].unit
  <2>1. file[p + 1].unit = 1 /\ file[q + 1].unit = 1
    BY <1>2
  <2>2. file[q].unit <= file[p].unit
    BY <1>1, <2>1, LastPart
  <2>3. file[q].event = file[p].event
    OBVIOUS
  <2>4. file[p].unit <= file[q].unit
    BY <1>1, <2>1, <2>3, LastPart
  <2>5. QED
    BY <2>2, <2>4
<1>4. file[p] = file[q]
  <2>1. file[p] \in Units /\ file[q] \in Units
    BY <1>1
  <2>2. QED
    BY <1>3, <2>1 DEF Units
<1>5. p = q
  BY <1>1, <1>4 DEF Once
<1>6. QED
  BY <1>2, <1>5

LEMMA FragmentsFinite == FileInv => IsFiniteSet(Fragments) /\ Cardinality(Fragments) \in Nat
<1> SUFFICES ASSUME FileInv PROVE IsFiniteSet(Fragments) /\ Cardinality(Fragments) \in Nat
  OBVIOUS
<1>1. PICK n \in Nat : n = Len(file)
  BY DEF FileInv, TypeOK
<1>2. DOMAIN file = 1..n
  BY <1>1 DEF FileInv, TypeOK
<1>3. PICK I, T, m : I = 1..n /\ T = {file[i].event : i \in I} /\ m = [i \in I |-> file[i].event]
  OBVIOUS
<1>4. IsFiniteSet(I)
  <2>1. 1 \in Int /\ n \in Int
    OBVIOUS
  <2>2. QED
    BY <1>3, <2>1, FS_Interval
<1>5. m \in Surjection(I, T)
  BY <1>3 DEF Surjection
<1>6. IsFiniteSet(T)
  BY <1>4, <1>5, FS_Surjection
<1>7. Fragments \in SUBSET T
  BY <1>2, <1>3 DEF Fragments
<1>8. QED
  BY <1>6, <1>7, FS_Subset, FS_CardinalityType

LEMMA CostBounded == FileInv => FragmentCostsOneRow
<1> SUFFICES ASSUME FileInv PROVE FragmentCostsOneRow
  OBVIOUS
<1>1. PICK lost : lost = {e \in Events : result[e] = "returned" /\ e \notin Readable}
  OBVIOUS
<1>2. PICK before : before = [e \in lost |->
          CHOOSE p \in DOMAIN file :
            RowAt(file, e, p) /\ p + 1 \in DOMAIN file /\ file[p].event \in Fragments]
  OBVIOUS
<1>3. ASSUME NEW e \in lost
      PROVE  /\ before[e] \in DOMAIN file /\ RowAt(file, e, before[e])
             /\ before[e] + 1 \in DOMAIN file /\ file[before[e]].event \in Fragments
  <2>1. \E p \in DOMAIN file :
          RowAt(file, e, p) /\ p + 1 \in DOMAIN file /\ file[p].event \in Fragments
    BY <1>1, Swallowed
  <2>2. QED
    BY <1>2, <2>1
<1>4. PICK cause : cause = [e \in lost |-> file[before[e]].event]
  OBVIOUS
<1>5. ASSUME NEW d \in lost, NEW e \in lost, cause[d] = cause[e] PROVE d = e
  <2>1. d \in Events /\ e \in Events
    BY <1>1
  <2>2. PICK p \in DOMAIN file, q \in DOMAIN file : p = before[d] /\ q = before[e]
    BY <1>3
  <2>3. /\ RowAt(file, d, p) /\ RowAt(file, e, q)
        /\ p + 1 \in DOMAIN file /\ q + 1 \in DOMAIN file
        /\ file[p].event = file[q].event
    BY <1>3, <1>4, <1>5, <2>2
  <2>4. QED
    BY <2>1, <2>3, SwallowsOne
<1>6. IsFiniteSet(Fragments) /\ Cardinality(Fragments) \in Nat
  BY FragmentsFinite
<1>7. cause \in Injection(lost, Fragments)
  <2>1. cause \in [lost -> Fragments]
    BY <1>3, <1>4
  <2>2. QED
    BY <1>5, <2>1 DEF Injection, IsInjective
<1>8. Cardinality(lost) <= Cardinality(Fragments)
  BY <1>6, <1>7, FS_Injection
<1>9. QED
  BY <1>1, <1>8 DEF FragmentCostsOneRow

\* Whatever failed and whoever was killed, the rows of appends that returned
\* and that no reader can tell are at most as many as the fragments.
THEOREM FragmentsCostLittle == Spec => []FragmentCostsOneRow
BY FileInit, FileNext, CostBounded, PTL DEF Spec

-----------------------------------------------------------------------------
(***************************************************************************)
(* The report beside the writers.                                          *)
(***************************************************************************)

\* What the last report was promised, it has.
Reported ==
    /\ promised \subseteq {e \in Events : result[e] = "returned"}
    /\ reader = "idle" /\ ~report.raised =>
         \A e \in promised \cap Reportable : \A p \in Nat :
           RowAt(file, e, p) /\ (p = 0 \/ (p \in DOMAIN file /\ IsNewline(file[p])))
             => e \in Range(report.rows)

\* A row that begins a line is loaded.
LEMMA Loaded ==
    ASSUME FileInv, NEW e \in Events, e \in Reportable, NEW p, RowAt(file, e, p),
           p = 0 \/ (p \in DOMAIN file /\ IsNewline(file[p])),
           ~Load(file).raised
    PROVE  e \in Range(Load(file).rows)
<1>1. PICK n \in DOMAIN Lines(file) : Lines(file)[n] = Row(e)
  BY LineOf
<1>2. PICK decoded : decoded = [m \in DOMAIN Lines(file) |-> Decode(Lines(file)[m])]
  OBVIOUS
<1>3. decoded[n] = e /\ DOMAIN decoded = DOMAIN Lines(file)
  BY <1>1, <1>2, DecodeRow
<1>4. PICK S : S = {m \in DOMAIN decoded : decoded[m] \in Reportable}
  OBVIOUS
<1>5. PICK kept : kept = Listed(S)
  OBVIOUS
<1>6. Load(file).rows = [m \in DOMAIN kept |-> decoded[kept[m]]]
  BY <1>2, <1>4, <1>5 DEF Load
<1>7. S \in SUBSET Int /\ IsFiniteSet(S) /\ n \in S
  <2>1. file \in Seq(Units)
    BY DEF FileInv, TypeOK
  <2>2. PICK k \in Nat : DOMAIN Lines(file) = 1..k
    BY <2>1, EndsType
  <2>3. S \in SUBSET (1..k) /\ n \in S
    BY <1>3, <1>4, <2>2
  <2>4. IsFiniteSet(1..k)
    <3>1. 1 \in Int /\ k \in Int
      OBVIOUS
    <3>2. QED
      BY <3>1, FS_Interval
  <2>5. IsFiniteSet(S)
    BY <2>3, <2>4, FS_Subset
  <2>6. QED
    BY <2>3, <2>5
<1>8. Rank(n, S) \in DOMAIN kept /\ kept[Rank(n, S)] = n
  BY <1>5, <1>7, ListedAt
<1>9. QED
  BY <1>3, <1>6, <1>8 DEF Range


\* A place in the file does not change.
LEMMA SamePlace ==
    ASSUME FileInv, FileInv', NEW d, Continued(d), NEW e \in Events, NEW p \in Nat,
           RowAt(file', e, p), result[e] = "returned"
    PROVE  /\ RowAt(file, e, p)
           /\ p = 0 \/ (p \in DOMAIN file /\ file'[p] = file[p])
<1>1. PICK q \in Nat : RowAt(file, e, q)
  BY DEF FileInv, Complete
<1>2. file \in Seq(Units) /\ Once(file') /\ file' \in Seq(Units)
  BY DEF FileInv, TypeOK, Continued
<1>3. RowAt(file', e, q)
  BY <1>1, <1>2, RowStays
<1>4. Length[e] \in Nat /\ 1 \in 1..Length[e]
  BY LengthType
<1>5. p + 1 \in DOMAIN file' /\ q + 1 \in DOMAIN file' /\ file'[p + 1] = file'[q + 1]
  <2>1. PICK m \in Nat : m = Len(file')
    BY <1>2
  <2>2. DOMAIN file' = 1..m /\ p + Length[e] <= m /\ q + Length[e] <= m
    BY <1>2, <1>3, <2>1 DEF RowAt
  <2>3. file'[p + 1] = [event |-> e, unit |-> 1] /\ file'[q + 1] = [event |-> e, unit |-> 1]
    BY <1>3, <1>4 DEF RowAt
  <2>4. QED
    BY <1>4, <2>2, <2>3
<1>6. p + 1 = q + 1
  BY <1>2, <1>5 DEF Once
<1>7. p = q
  BY <1>6
<1>8. p # 0 => p \in DOMAIN file
  BY <1>1, <1>2, <1>4, <1>7 DEF RowAt
<1>9. QED
  BY <1>1, <1>7, <1>8 DEF Continued

LEMMA ReportInit == Init => Reported
BY DEF Init, Reported

\* A step of a worker grows the file by units of its event, and what has
\* returned has returned.
LEMMA WorkerGrows ==
    ASSUME FileInv, NEW w \in Workers,
           \/ \E e \in Events : Open(w, e) \/ OpenFails(w, e)
           \/ Proceed(w) \/ Kill(w) \/ Restart(w)
    PROVE  /\ Continued(event[w]) /\ UNCHANGED readers
           /\ \A e \in Events : result[e] = "returned" => result'[e] = "returned"
<1>1. ASSUME NEW e \in Events, Open(w, e) \/ OpenFails(w, e)
      PROVE  /\ file' = file /\ UNCHANGED readers
             /\ \A d \in Events : result[d] = "returned" => result'[d] = "returned"
  BY <1>1 DEF Open, OpenFails, FileInv, Book
<1>2. CASE Lock(w) \/ Restart(w)
  <2>1. file' = file /\ UNCHANGED <<result, readers>>
    BY <1>2 DEF Lock, Restart
  <2>2. QED
    BY <2>1, StayContinues
<1>3. ASSUME NEW next, NEW how, Leave(w, next, how), state[w] \in Active
      PROVE  \A e \in Events : result[e] = "returned" => result'[e] = "returned"
  <2>1. result[event[w]] = "open"
    BY <1>3 DEF FileInv, Book
  <2>2. QED
    BY <1>3, <2>1 DEF Leave, FileInv, Book
<1>4. ASSUME NEW k \in Int, state[w] = "writing", WriteUpTo(w, k), written[w] <= k,
             k <= Length[event[w]]
      PROVE  Continued(event[w])
  <2>1. k \in Nat
    BY <1>4 DEF FileInv, TypeOK
  <2>2. QED
    BY <1>4, <2>1, WriteContinues
<1>5. ASSUME state[w] = "writing"
      PROVE  /\ written[w] \in Nat /\ Length[event[w]] \in Nat /\ written[w] < Length[event[w]]
             /\ Reach(event[w]) \in Int /\ Reach(event[w]) < Length[event[w]]
  <2>1. written[w] \in Nat /\ event[w] \in Events
    BY <1>5 DEF FileInv, TypeOK, LogInv, Exclusive
  <2>2. written[w] < Length[event[w]]
    BY <1>5 DEF FileInv, LogInv, AtEnd
  <2>3. QED
    BY <2>1, <2>2, LengthType DEF Reach
<1>6. CASE Flush(w)
  <2>1. PICK k \in written[w] + 1 .. Reach(event[w]) : WriteUpTo(w, k)
    BY <1>6 DEF Flush
  <2>2. state[w] = "writing" /\ UNCHANGED <<result, readers>>
    BY <1>6 DEF Flush
  <2>3. k \in Int /\ written[w] <= k /\ k <= Length[event[w]]
    BY <1>5, <2>1, <2>2
  <2>4. QED
    BY <1>4, <2>1, <2>2, <2>3
<1>7. CASE Close(w)
  <2>1. /\ state[w] = "writing" /\ WriteUpTo(w, Length[event[w]])
        /\ Leave(w, "serving", "returned") /\ UNCHANGED readers
    BY <1>7 DEF Close
  <2>2. PICK k : k = Length[event[w]]
    OBVIOUS
  <2>3. k \in Int /\ written[w] <= k /\ k <= Length[event[w]] /\ WriteUpTo(w, k)
    BY <1>5, <2>1, <2>2
  <2>4. state[w] \in Active
    BY <2>1 DEF Active
  <2>5. QED
    BY <1>3, <1>4, <2>1, <2>3, <2>4
<1>8. CASE AppendFails(w)
  <2>1. PICK k \in written[w] .. Reach(event[w]) : WriteUpTo(w, k)
    BY <1>8 DEF AppendFails
  <2>2. state[w] = "writing" /\ Leave(w, "serving", "failed") /\ UNCHANGED readers
    BY <1>8 DEF AppendFails
  <2>3. k \in Int /\ written[w] <= k /\ k <= Length[event[w]]
    BY <1>5, <2>1, <2>2
  <2>4. state[w] \in Active
    BY <2>2 DEF Active
  <2>5. QED
    BY <1>3, <1>4, <2>1, <2>2, <2>3, <2>4
<1>9. CASE Kill(w)
  <2>1. file' = file /\ UNCHANGED readers
    BY <1>9 DEF Kill
  <2>2. Continued(event[w])
    BY <2>1, StayContinues
  <2>3. CASE state[w] = "serving"
    BY <1>9, <2>1, <2>2, <2>3 DEF Kill
  <2>4. CASE state[w] # "serving"
    <3>1. state[w] \in Active /\ Leave(w, "down", "killed")
      BY <1>9, <2>4 DEF Kill, FileInv, TypeOK, Active
    <3>2. QED
      BY <1>3, <2>1, <2>2, <3>1
  <2>5. QED
    BY <2>3, <2>4
<1>10. QED
  BY <1>1, <1>2, <1>6, <1>7, <1>8, <1>9, StayContinues DEF Proceed

LEMMA ReportNext ==
    ASSUME FileInv, FileInv', Reported, [Next]_vars
    PROVE  Reported'
<1>1. ASSUME NEW w \in Workers,
             \/ \E e \in Events : Open(w, e) \/ OpenFails(w, e)
             \/ Proceed(w) \/ Kill(w) \/ Restart(w)
      PROVE  Reported'
  <2>1. PICK d : d = event[w]
    OBVIOUS
  <2>2. /\ Continued(d) /\ reader' = reader /\ promised' = promised /\ report' = report
        /\ \A e \in Events : result[e] = "returned" => result'[e] = "returned"
    BY <1>1, <2>1, WorkerGrows DEF readers
  <2>3. promised' \subseteq {e \in Events : result'[e] = "returned"}
    BY <2>2 DEF Reported
  <2>4. ASSUME reader = "idle", ~report.raised, NEW e \in promised \cap Reportable,
               NEW p \in Nat, RowAt(file', e, p),
               p = 0 \/ (p \in DOMAIN file' /\ IsNewline(file'[p]))
        PROVE  e \in Range(report.rows)
    <3>1. e \in Events /\ result[e] = "returned"
      BY <2>4 DEF Reported
    <3>2. RowAt(file, e, p) /\ (p = 0 \/ (p \in DOMAIN file /\ file'[p] = file[p]))
      BY <2>2, <2>4, <3>1, SamePlace
    <3>3. p = 0 \/ (p \in DOMAIN file /\ IsNewline(file[p]))
      BY <2>4, <3>2
    <3>4. QED
      BY <2>4, <3>2, <3>3 DEF Reported
  <2>5. QED
    BY <2>2, <2>3, <2>4 DEF Reported, RowAt
<1>2. CASE StartReport
  BY <1>2 DEF StartReport, Reported, writers
<1>3. CASE Read
  BY <1>3 DEF Read, Reported, writers, RowAt
<1>4. CASE EndOfFile
  <2>1. report' = Load(file) /\ file' = file /\ result' = result /\ promised' = promised
    BY <1>4 DEF EndOfFile, writers
  <2>2. ASSUME ~report'.raised, NEW e \in promised \cap Reportable, NEW p \in Nat,
               RowAt(file, e, p), p = 0 \/ (p \in DOMAIN file /\ IsNewline(file[p]))
        PROVE  e \in Range(report'.rows)
    <3>1. e \in Events /\ e \in Reportable
      BY <2>2 DEF Reported
    <3>2. ~Load(file).raised
      BY <2>1, <2>2
    <3>3. e \in Range(Load(file).rows)
      BY <2>2, <3>1, <3>2, Loaded
    <3>4. QED
      BY <2>1, <3>3
  <2>3. QED
    BY <2>1, <2>2 DEF Reported, RowAt
<1>5. CASE UNCHANGED vars
  BY <1>5 DEF vars, writers, readers, Reported, RowAt
<1>6. QED
  BY <1>1, <1>2, <1>3, <1>4, <1>5 DEF Next

LEMMA ReportedComplete == FileInv /\ Reported => ReportComplete
<1> SUFFICES ASSUME FileInv, Reported, reader = "idle", ~report.raised,
                    NEW e \in promised \cap Reportable \cap Readable
             PROVE  e \in Range(report.rows)
  BY DEF ReportComplete
<1>1. e \in Events /\ result[e] = "returned"
  BY DEF Reported
<1>2. PICK p \in Nat : RowAt(file, e, p)
  BY <1>1 DEF FileInv, Complete
<1>3. p = 0 \/ (p \in DOMAIN file /\ IsNewline(file[p]))
  BY <1>1, <1>2, LineStarts
<1>4. QED
  BY <1>2, <1>3 DEF Reported

\* A report that does not raise has every row whose append had returned when
\* it began and that can be told from the rest, whoever writes meanwhile.
THEOREM ReportsComplete == Spec => []ReportComplete
<1>1. Init => FileInv /\ Reported
  BY FileInit, ReportInit
<1>2. FileInv /\ Reported /\ [Next]_vars => FileInv' /\ Reported'
  BY FileNext, ReportNext
<1>3. QED
  BY <1>1, <1>2, ReportedComplete, PTL DEF Spec

-----------------------------------------------------------------------------
(***************************************************************************)
(* What an append is from outside the lock.                                *)
(***************************************************************************)

Newlines(f) == {i \in DOMAIN f : IsNewline(f[i])}

\* The complete lines of f, decoded, and whether a fragment trails.
Shown(f) ==
    LET ends == Listed(Newlines(f))
    IN  [n \in DOMAIN ends |->
           Decode(SubSeq(f, IF n = 1 THEN 1 ELSE ends[n - 1] + 1, ends[n]))]
Trails(f) == f # <<>> /\ ~IsNewline(f[Len(f)])

\* f is the beginning of g.
Begins(f, g) ==
    /\ f \in Seq(Units) /\ g \in Seq(Units)
    /\ Len(f) <= Len(g) /\ \A i \in DOMAIN f : g[i] = f[i]

LEMMA NewlinesType ==
    ASSUME NEW f \in Seq(Units)
    PROVE  /\ Newlines(f) \in SUBSET Int /\ IsFiniteSet(Newlines(f))
           /\ Cardinality(Newlines(f)) \in Nat
           /\ DOMAIN Listed(Newlines(f)) = 1..Cardinality(Newlines(f))
           /\ \A n \in 1..Cardinality(Newlines(f)) : Listed(Newlines(f))[n] \in Newlines(f)
<1>1. PICK E : E = Newlines(f)
  OBVIOUS
<1>2. DOMAIN f = 1..Len(f) /\ Len(f) \in Nat
  OBVIOUS
<1>3. E \in SUBSET (1..Len(f))
  BY <1>1, <1>2 DEF Newlines
<1>4. IsFiniteSet(1..Len(f))
  <2>1. 1 \in Int /\ Len(f) \in Int
    BY <1>2
  <2>2. QED
    BY <2>1, FS_Interval
<1>5. IsFiniteSet(E)
  BY <1>3, <1>4, FS_Subset
<1>6. E \in SUBSET Int
  BY <1>2, <1>3
<1>7. /\ Cardinality(E) \in Nat /\ DOMAIN Listed(E) = 1..Cardinality(E)
      /\ \A n \in 1..Cardinality(E) : Listed(E)[n] \in E
  BY <1>5, <1>6, ListedType
<1>8. QED
  BY <1>1, <1>5, <1>6, <1>7

\* The part of a file that a larger file begins with is a part of that too.
LEMMA SamePart ==
    ASSUME NEW f, NEW g, Begins(f, g), NEW m \in Nat, m > 0, NEW q \in Int, q <= Len(f)
    PROVE  SubSeq(g, m, q) = SubSeq(f, m, q)
<1>1. /\ f \in Seq(Units) /\ g \in Seq(Units) /\ Len(f) \in Nat
      /\ DOMAIN f = 1..Len(f) /\ \A i \in 1..Len(f) : g[i] = f[i] /\ f[i] \in Units
  BY DEF Begins
<1>2. \A i \in m..q : f[i] \in Units /\ g[i] = f[i] /\ g[i] \in Units
  BY <1>1
<1>3. /\ SubSeq(f, m, q) \in Seq(Units)
      /\ Len(SubSeq(f, m, q)) = IF m <= q THEN q - m + 1 ELSE 0
      /\ \A i \in 1..(q - m + 1) : SubSeq(f, m, q)[i] = f[m + i - 1]
  BY <1>2, SubSeqProperties
<1>4. /\ SubSeq(g, m, q) \in Seq(Units)
      /\ Len(SubSeq(g, m, q)) = IF m <= q THEN q - m + 1 ELSE 0
      /\ \A i \in 1..(q - m + 1) : SubSeq(g, m, q)[i] = g[m + i - 1]
  BY <1>2, SubSeqProperties
<1>5. PICK s, t : s = SubSeq(f, m, q) /\ t = SubSeq(g, m, q)
  OBVIOUS
<1>6. Len(s) = Len(t) /\ s \in Seq(Units) /\ t \in Seq(Units)
  BY <1>3, <1>4, <1>5
<1>7. ASSUME NEW i \in 1..Len(s) PROVE s[i] = t[i]
  <2>1. m <= q /\ i \in 1..(q - m + 1)
    BY <1>3, <1>5, <1>7
  <2>2. m + i - 1 \in m..q
    BY <2>1
  <2>3. QED
    BY <1>2, <1>3, <1>4, <1>5, <2>1, <2>2
<1>8. s = t
  BY <1>6, <1>7, SeqEqual
<1>9. QED
  BY <1>5, <1>8

LEMMA ShownAt ==
    ASSUME NEW f, NEW n \in DOMAIN Listed(Newlines(f))
    PROVE  /\ n = 1 => Shown(f)[n] = Decode(SubSeq(f, 1, Listed(Newlines(f))[n]))
           /\ n # 1 => Shown(f)[n] = Decode(SubSeq(f, Listed(Newlines(f))[n - 1] + 1,
                                                   Listed(Newlines(f))[n]))
BY DEF Shown

LEMMA ShownType ==
    ASSUME NEW f \in Seq(Units), NEW c, c = Cardinality(Newlines(f))
    PROVE  Shown(f) = [n \in 1..c |-> Shown(f)[n]] /\ DOMAIN Shown(f) = 1..c
<1>1. DOMAIN Listed(Newlines(f)) = 1..c
  BY NewlinesType
<1>2. QED
  BY <1>1 DEF Shown

\* As long as no newline is added, the lines stay.
LEMMA ShownStays ==
    ASSUME NEW f, NEW g, Begins(f, g),
           \A i \in DOMAIN g : i \in DOMAIN f \/ ~IsNewline(g[i])
    PROVE  Shown(g) = Shown(f)
<1>1. f \in Seq(Units) /\ g \in Seq(Units) /\ DOMAIN f = 1..Len(f) /\ Len(f) \in Nat
      /\ DOMAIN g = 1..Len(g) /\ Len(g) \in Nat /\ Len(f) <= Len(g)
      /\ \A i \in DOMAIN f : g[i] = f[i]
  BY DEF Begins
<1>2. Newlines(g) = Newlines(f)
  <2>1. ASSUME NEW i \in Newlines(g) PROVE i \in Newlines(f)
    BY <1>1, <2>1 DEF Newlines
  <2>2. ASSUME NEW i \in Newlines(f) PROVE i \in Newlines(g)
    BY <1>1, <2>2 DEF Newlines
  <2>3. QED
    BY <2>1, <2>2
<1>3. PICK c : c = Cardinality(Newlines(f))
  OBVIOUS
<1>4. PICK ends : ends = Listed(Newlines(f))
  OBVIOUS
<1>5. DOMAIN ends = 1..c /\ c \in Nat /\ \A n \in 1..c : ends[n] \in 1..Len(f)
  <2>1. \A i \in Newlines(f) : i \in 1..Len(f)
    BY <1>1 DEF Newlines
  <2>2. QED
    BY <1>1, <1>3, <1>4, <2>1, NewlinesType
<1>6. ASSUME NEW n \in 1..c PROVE Shown(g)[n] = Shown(f)[n]
  <2>1. CASE n = 1
    <3>1. Shown(f)[n] = Decode(SubSeq(f, 1, ends[n])) /\ Shown(g)[n] = Decode(SubSeq(g, 1, ends[n]))
      BY <1>2, <1>4, <1>5, <2>1, ShownAt
    <3>2. PICK q \in Int, m \in Nat : q = ends[n] /\ q <= Len(f) /\ m = 1 /\ m > 0
      BY <1>1, <1>5
    <3>3. SubSeq(g, m, q) = SubSeq(f, m, q)
      BY <3>2, SamePart
    <3>4. QED
      BY <3>1, <3>2, <3>3
  <2>2. CASE n # 1
    <3>1. n - 1 \in 1..c
      BY <1>5, <2>2
    <3>2. PICK q \in Int, m \in Nat : q = ends[n] /\ q <= Len(f) /\ m = ends[n - 1] + 1 /\ m > 0
      BY <1>1, <1>5, <3>1
    <3>3. Shown(f)[n] = Decode(SubSeq(f, m, q)) /\ Shown(g)[n] = Decode(SubSeq(g, m, q))
      BY <1>2, <1>4, <1>5, <2>2, <3>2, ShownAt
    <3>4. SubSeq(g, m, q) = SubSeq(f, m, q)
      BY <3>2, SamePart
    <3>5. QED
      BY <3>3, <3>4
  <2>3. QED
    BY <2>1, <2>2
<1>7. Shown(f) = [n \in 1..c |-> Shown(f)[n]] /\ Shown(g) = [n \in 1..c |-> Shown(g)[n]]
  BY <1>1, <1>2, <1>3, ShownType
<1>8. QED
  BY <1>6, <1>7

LEMMA OneMore ==
    ASSUME NEW c \in Nat, NEW V, NEW a \in [1..c -> V], NEW b \in [1..(c + 1) -> V],
           \A n \in 1..c : b[n] = a[n]
    PROVE  b = Append(a, b[c + 1])
<1>3. a \in Seq(V) /\ Len(a) = c
  OBVIOUS
<1>4. PICK m \in Nat : m = c + 1
  OBVIOUS
<1>5. PICK x : x = b[m]
  OBVIOUS
<1>6. b \in Seq(V) /\ Len(b) = m
  <2>1. b \in [1..m -> V]
    BY <1>4
  <2>2. QED
    BY <2>1
<1>7. PICK d : d = Append(a, x)
  OBVIOUS
<1>8. x \in V
  BY <1>4, <1>5
<1>9. d \in Seq(V) /\ Len(d) = m /\ d[m] = x /\ \A n \in 1..c : d[n] = a[n]
  BY <1>3, <1>4, <1>7, <1>8, AppendProperties
<1>10. ASSUME NEW n \in 1..m PROVE b[n] = d[n]
  <2>1. CASE n = m
    BY <1>5, <1>9, <2>1
  <2>2. CASE n # m
    <3>1. n \in 1..c
      BY <1>4, <2>2
    <3>2. QED
      BY <1>9, <3>1
  <2>3. QED
    BY <2>1, <2>2
<1>11. b = d
  BY <1>6, <1>9, <1>10, SeqEqual
<1>12. QED
  BY <1>4, <1>5, <1>7, <1>11

LEMMA RowSeq ==
    ASSUME NEW e \in Events
    PROVE  /\ Row(e) \in Seq(Units) /\ Len(Row(e)) = Length[e]
           /\ \A u \in 1..Length[e] : Row(e)[u] = [event |-> e, unit |-> u]
<1>1. Row(e) = [i \in 1..Length[e] |-> [event |-> e, unit |-> i]]
  BY DEF Row
<1>2. \A i \in 1..Length[e] : [event |-> e, unit |-> i] \in Units
  BY LengthType DEF Units
<1>3. Length[e] \in Nat
  BY LengthType
<1>4. QED
  BY <1>1, <1>2, <1>3

\* A line that is a row but for its newline numbers its units.
LEMMA LineUnits ==
    ASSUME NEW line, Decode(line) # Malformed, NEW i \in Nat, 1 <= i, i <= Len(line)
    PROVE  line[i].unit = i
<1>1. PICK d \in Events : line \in {Row(d), Front(Row(d))}
  BY DecodeOnly
<1>2. Length[d] \in Nat /\ Length[d] >= 2
  BY LengthType
<1>3. /\ Row(d) \in Seq(Units) /\ Len(Row(d)) = Length[d]
      /\ \A j \in 1..Length[d] : Row(d)[j].unit = j
  <2>1. /\ Row(d) \in Seq(Units) /\ Len(Row(d)) = Length[d]
        /\ \A u \in 1..Length[d] : Row(d)[u] = [event |-> d, unit |-> u]
    BY RowSeq
  <2>2. ASSUME NEW j \in 1..Length[d] PROVE Row(d)[j].unit = j
    <3>1. Row(d)[j] = [event |-> d, unit |-> j]
      BY <2>1
    <3>2. QED
      BY <3>1
  <2>3. QED
    BY <2>1, <2>2
<1>4. /\ Len(Front(Row(d))) = Length[d] - 1
      /\ \A j \in 1..(Length[d] - 1) : Front(Row(d))[j] = Row(d)[j]
  BY <1>2, <1>3 DEF Front
<1>5. CASE line = Row(d)
  BY <1>2, <1>3, <1>5
<1>6. CASE line = Front(Row(d))
  <2>1. i \in 1..(Length[d] - 1) /\ i \in 1..Length[d]
    BY <1>2, <1>4, <1>6
  <2>2. QED
    BY <1>3, <1>4, <1>6, <2>1
<1>7. QED
  BY <1>1, <1>5, <1>6

\* The last line of a file that ends in a row: the row, or the row with a
\* fragment before it.
LEMMA LastLine ==
    ASSUME NEW g \in Seq(Units), NEW e \in Events, NEW l \in Nat, NEW s \in Nat, s <= l,
           Len(g) = l + Length[e],
           \A u \in 1..Length[e] : g[l + u] = [event |-> e, unit |-> u]
    PROVE  Decode(SubSeq(g, s + 1, Len(g))) = IF s = l THEN e ELSE Malformed
<1>1. PICK v \in Nat : v = Length[e] /\ v >= 2
  BY LengthType
<1>2. PICK N \in Nat, m \in Nat : N = l + v /\ m = s + 1
  OBVIOUS
<1>3. Len(g) = N /\ DOMAIN g = 1..N
  BY <1>1, <1>2
<1>4. PICK line : line = SubSeq(g, m, N)
  OBVIOUS
<1>5. m <= N /\ m >= 1 /\ m \in Int /\ N \in Int
  BY <1>1, <1>2
<1>6. \A i \in m..N : g[i] \in Units
  BY <1>3, <1>5
<1>7. /\ line \in Seq(Units) /\ Len(line) = N - m + 1
      /\ \A i \in 1..(N - m + 1) : line[i] = g[m + i - 1]
  BY <1>4, <1>5, <1>6, SubSeqProperties
<1>8. \A u \in 1..v : g[l + u] = [event |-> e, unit |-> u]
  BY <1>1
<1>9. CASE s = l
  <2>1. N - m + 1 = v /\ \A u \in 1..v : m + u - 1 = l + u
    BY <1>2, <1>9
  <2>2. Len(line) = v /\ \A u \in 1..v : line[u] = [event |-> e, unit |-> u]
    BY <1>7, <1>8, <2>1
  <2>3. PICK t : t = Row(e)
    OBVIOUS
  <2>4. t \in Seq(Units) /\ Len(t) = v /\ \A u \in 1..v : t[u] = [event |-> e, unit |-> u]
    BY <1>1, <2>3, RowSeq
  <2>5. \A u \in 1..Len(line) : line[u] = t[u]
    BY <2>2, <2>4
  <2>6. Len(line) = Len(t)
    BY <2>2, <2>4
  <2>7. line = t
    BY <1>7, <2>4, <2>5, <2>6, SeqEqual
  <2>8. QED
    BY <1>2, <1>3, <1>4, <1>9, <2>3, <2>7, DecodeRow
<1>10. CASE s # l
  <2>1. PICK i \in Nat : i = l - s + 1
    BY <1>2
  <2>2. i \in 1..(N - m + 1) /\ m + i - 1 = l + 1 /\ i > 1 /\ 1 \in 1..v
    BY <1>1, <1>2, <1>10, <2>1
  <2>3. g[l + 1] = [event |-> e, unit |-> 1]
    BY <1>8, <2>2
  <2>4. line[i] = g[m + i - 1]
    BY <1>7, <2>2
  <2>5. line[i].unit = 1
    BY <2>2, <2>3, <2>4
  <2>6. 1 <= i /\ i <= Len(line)
    BY <1>5, <1>7, <2>2
  <2>7. Decode(line) = Malformed
    BY <2>2, <2>5, <2>6, LineUnits
  <2>8. QED
    BY <1>2, <1>3, <1>4, <1>10, <2>7
<1>11. QED
  BY <1>9, <1>10

\* What a row makes of the file: one line more, which reads as the row unless
\* a fragment was there.
LEMMA ShownGrows ==
    ASSUME NEW f, NEW g, Begins(f, g), NEW e \in Events,
           Len(g) = Len(f) + Length[e],
           \A u \in 1..Length[e] : g[Len(f) + u] = [event |-> e, unit |-> u]
    PROVE  /\ Shown(g) = Append(Shown(f), IF Trails(f) THEN Malformed ELSE e)
           /\ ~Trails(g)
<1>1. PICK l, v : l = Len(f) /\ v = Length[e]
  OBVIOUS
<1>2. PICK N : N = l + v
  OBVIOUS
<1>3. /\ f \in Seq(Units) /\ g \in Seq(Units) /\ l \in Nat /\ v \in Nat /\ v >= 2 /\ N \in Nat
      /\ DOMAIN f = 1..l /\ DOMAIN g = 1..N /\ Len(g) = N /\ l < N
      /\ \A i \in 1..l : g[i] = f[i]
      /\ \A u \in 1..v : g[l + u] = [event |-> e, unit |-> u]
  <2>1. Length[e] \in Nat /\ Length[e] >= 2
    BY LengthType
  <2>2. /\ f \in Seq(Units) /\ g \in Seq(Units) /\ Len(f) \in Nat
        /\ DOMAIN f = 1..Len(f) /\ DOMAIN g = 1..Len(g)
        /\ \A i \in 1..Len(f) : g[i] = f[i]
    BY DEF Begins
  <2>3. Len(g) = N
    BY <1>1, <1>2
  <2>4. \A u \in 1..v : g[l + u] = [event |-> e, unit |-> u]
    BY <1>1
  <2>5. v \in Nat /\ v >= 2 /\ l \in Nat
    BY <1>1, <2>1, <2>2
  <2>6. N \in Nat /\ l < N
    BY <1>2, <2>5
  <2>7. QED
    BY <1>1, <2>2, <2>3, <2>4, <2>5, <2>6
<1>4. g[N] = [event |-> e, unit |-> v] /\ IsNewline(g[N]) /\ N \in 1..N
  <2>1. g[N] = [event |-> e, unit |-> v]
    BY <1>2, <1>3
  <2>2. QED
    BY <1>1, <1>3, <2>1 DEF IsNewline
<1>5. ~Trails(g)
  BY <1>3, <1>4 DEF Trails
<1>6. ASSUME NEW i \in 1..N, i \notin 1..l, i # N PROVE ~IsNewline(g[i])
  <2>1. i - l \in 1..v /\ l + (i - l) = i /\ i - l # v
    BY <1>2, <1>3, <1>6
  <2>2. g[i] = [event |-> e, unit |-> i - l]
    BY <1>3, <2>1
  <2>3. QED
    BY <1>1, <2>1, <2>2 DEF IsNewline
<1>7. Newlines(g) = Newlines(f) \cup {N}
  <2>1. ASSUME NEW i \in Newlines(g) PROVE i \in Newlines(f) \cup {N}
    BY <1>3, <1>6, <2>1 DEF Newlines
  <2>2. ASSUME NEW i \in Newlines(f) PROVE i \in Newlines(g)
    BY <1>3, <2>2 DEF Newlines
  <2>3. N \in Newlines(g)
    BY <1>3, <1>4 DEF Newlines
  <2>4. QED
    BY <2>1, <2>2, <2>3
<1>8. PICK E, D, c : E = Newlines(f) /\ D = Newlines(g) /\ c = Cardinality(E)
  OBVIOUS
<1>9. /\ E \in SUBSET Int /\ IsFiniteSet(E) /\ c \in Nat /\ DOMAIN Listed(E) = 1..c
      /\ \A n \in 1..c : Listed(E)[n] \in E
      /\ \A i \in E : i \in 1..l /\ IsNewline(f[i])
  <2>1. \A i \in E : i \in 1..l /\ IsNewline(f[i])
    BY <1>3, <1>8 DEF Newlines
  <2>2. QED
    BY <1>3, <1>8, <2>1, NewlinesType
<1>10. Listed(D) = Append(Listed(E), N) /\ Cardinality(D) = c + 1
  <2>1. N \in Int /\ \A y \in E : y < N
    BY <1>3, <1>9
  <2>2. Listed(E \cup {N}) = Append(Listed(E), N) /\ Cardinality(E \cup {N}) = Cardinality(E) + 1
    BY <1>9, <2>1, ListedAppend
  <2>3. QED
    BY <1>7, <1>8, <2>2
<1>11. Listed(E) \in Seq(Int) /\ Len(Listed(E)) = c
  <2>1. Listed(E) \in Seq(E) /\ Len(Listed(E)) = c
    BY <1>8, <1>9, ListedType
  <2>2. QED
    BY <1>9, <2>1, SeqMonotonic
<1>12. /\ DOMAIN Listed(D) = 1..(c + 1) /\ Listed(D)[c + 1] = N
       /\ \A n \in 1..c : Listed(D)[n] = Listed(E)[n]
  <2>1. PICK a, b : a = Listed(E) /\ b = Listed(D)
    OBVIOUS
  <2>2. a \in Seq(Int) /\ Len(a) = c /\ b = Append(a, N) /\ N \in Int /\ c \in Nat
    BY <1>3, <1>9, <1>10, <1>11, <2>1
  <2>3. b \in Seq(Int) /\ Len(b) = c + 1 /\ b[c + 1] = N /\ \A n \in 1..c : b[n] = a[n]
    BY <2>2, AppendProperties
  <2>4. DOMAIN b = 1..(c + 1)
    BY <2>2, <2>3
  <2>5. QED
    BY <2>1, <2>3, <2>4
<1>13. ASSUME NEW n \in 1..c PROVE Shown(g)[n] = Shown(f)[n]
  <2>1. n \in DOMAIN Listed(D) /\ n \in DOMAIN Listed(E)
    BY <1>9, <1>12
  <2>2. CASE n = 1
    <3>1. Listed(E)[n] \in 1..l
      BY <1>9
    <3>2. PICK q \in Int : q = Listed(E)[n] /\ q <= Len(f)
      BY <1>1, <1>3, <3>1
    <3>3. PICK m \in Nat : m = 1 /\ m > 0
      OBVIOUS
    <3>4. Listed(D)[n] = q
      BY <1>12, <3>2
    <3>5. Shown(f)[n] = Decode(SubSeq(f, m, q))
      BY <1>8, <2>1, <2>2, <3>2, <3>3, ShownAt
    <3>6. Shown(g)[n] = Decode(SubSeq(g, m, q))
      BY <1>8, <2>1, <2>2, <3>3, <3>4, ShownAt
    <3>7. SubSeq(g, m, q) = SubSeq(f, m, q)
      BY <3>2, <3>3, SamePart
    <3>8. QED
      BY <3>5, <3>6, <3>7
  <2>3. CASE n # 1
    <3>1. n - 1 \in 1..c
      BY <1>9, <2>3
    <3>2. PICK q \in Int, m \in Nat :
            q = Listed(E)[n] /\ q <= Len(f) /\ m = Listed(E)[n - 1] + 1 /\ m > 0
      <4>1. Listed(E)[n] \in 1..l /\ Listed(E)[n - 1] \in 1..l
        BY <1>9, <3>1
      <4>2. QED
        BY <1>1, <1>3, <4>1
    <3>3. Listed(D)[n] = q /\ Listed(D)[n - 1] + 1 = m
      BY <1>12, <3>1, <3>2
    <3>4. Shown(f)[n] = Decode(SubSeq(f, m, q)) /\ Shown(g)[n] = Decode(SubSeq(g, m, q))
      <4>1. Shown(f)[n] = Decode(SubSeq(f, m, q))
        BY <1>8, <2>1, <2>3, <3>2, ShownAt
      <4>2. Shown(g)[n] = Decode(SubSeq(g, m, q))
        BY <1>8, <2>1, <2>3, <3>3, ShownAt
      <4>3. QED
        BY <4>1, <4>2
    <3>5. SubSeq(g, m, q) = SubSeq(f, m, q)
      BY <3>2, SamePart
    <3>6. QED
      BY <3>4, <3>5
  <2>4. QED
    BY <2>2, <2>3
<1>14. \E s \in 0..l : /\ Shown(g)[c + 1] = Decode(SubSeq(g, s + 1, N))
                       /\ s = l <=> ~Trails(f)
  <2>1. c + 1 \in DOMAIN Listed(D)
    BY <1>9, <1>12
  <2>2. CASE c = 0
    <3>1. Shown(g)[c + 1] = Decode(SubSeq(g, 0 + 1, N))
      BY <1>8, <1>12, <2>1, <2>2, ShownAt
    <3>2. E = {}
      BY <1>8, <1>9, <2>2, FS_EmptySet
    <3>3. 0 = l <=> ~Trails(f)
      BY <1>1, <1>3, <1>8, <3>2 DEF Trails, Newlines
    <3>4. 0 \in 0..l
      BY <1>3
    <3>5. QED
      BY <3>1, <3>3, <3>4
  <2>3. CASE c # 0
    <3>1. PICK s : s = Listed(E)[c]
      OBVIOUS
    <3>2. c \in 1..c /\ c + 1 # 1 /\ (c + 1) - 1 = c
      BY <1>9, <2>3
    <3>3. s \in E /\ Rank(s, E) = c
      BY <1>8, <1>9, <3>1, <3>2, ListedType
    <3>4. Shown(g)[c + 1] = Decode(SubSeq(g, s + 1, N))
      <4>1. PICK k : k = c + 1
        OBVIOUS
      <4>2. k \in DOMAIN Listed(Newlines(g)) /\ k # 1
        BY <1>8, <2>1, <3>2, <4>1
      <4>3. Shown(g)[k] = Decode(SubSeq(g, Listed(Newlines(g))[k - 1] + 1,
                                        Listed(Newlines(g))[k]))
        BY <4>2, ShownAt
      <4>4. Listed(D)[c] = s
        BY <1>12, <3>1, <3>2
      <4>5. QED
        BY <1>8, <1>12, <3>2, <4>1, <4>3, <4>4
    <3>5. ASSUME NEW i \in E PROVE i <= s
      <4>1. Rank(i, E) \in 1..c
        BY <1>8, <1>9, RankType
      <4>2. ~(s < i)
        BY <1>9, <3>3, <4>1, RankGrows
      <4>3. QED
        BY <1>9, <3>3, <4>2
    <3>6. s \in 1..l /\ IsNewline(f[s])
      BY <1>9, <3>3
    <3>7. s = l <=> ~Trails(f)
      <4>1. l # 0 /\ f # <<>> /\ l \in 1..l
        BY <1>1, <1>3, <3>6
      <4>2. ~Trails(f) <=> l \in E
        BY <1>1, <1>3, <1>8, <4>1 DEF Trails, Newlines
      <4>3. l \in E => l <= s
        BY <3>5
      <4>4. QED
        BY <1>3, <3>3, <3>6, <4>2, <4>3
    <3>8. QED
      BY <1>3, <3>4, <3>6, <3>7
  <2>4. QED
    BY <2>2, <2>3
<1>15. Shown(g)[c + 1] = IF Trails(f) THEN Malformed ELSE e
  <2>1. PICK s \in 0..l : Shown(g)[c + 1] = Decode(SubSeq(g, s + 1, N)) /\ (s = l <=> ~Trails(f))
    BY <1>14
  <2>2. s \in Nat /\ s <= l
    BY <1>3, <2>1
  <2>3. Len(g) = l + Length[e] /\ \A u \in 1..Length[e] : g[l + u] = [event |-> e, unit |-> u]
    BY <1>1
  <2>4. Decode(SubSeq(g, s + 1, Len(g))) = IF s = l THEN e ELSE Malformed
    BY <1>3, <2>2, <2>3, LastLine
  <2>5. QED
    BY <1>3, <2>1, <2>4
<1>16. PICK x : x = IF Trails(f) THEN Malformed ELSE e
  OBVIOUS
<1>17. /\ Shown(f) = [n \in 1..c |-> Shown(f)[n]]
       /\ Shown(g) = [n \in 1..(c + 1) |-> Shown(g)[n]]
  BY <1>3, <1>8, <1>10, ShownType
<1>18. Shown(g) = Append(Shown(f), x)
  <2>1. PICK a, b : a = Shown(f) /\ b = Shown(g)
    OBVIOUS
  <2>2. a = [n \in 1..c |-> a[n]]
    BY <1>17, <2>1
  <2>3. b = [n \in 1..(c + 1) |-> b[n]]
    BY <1>17, <2>1
  <2>4. \A n \in 1..c : b[n] = a[n]
    BY <1>13, <2>1
  <2>5. b[c + 1] = x
    BY <1>15, <1>16, <2>1
  <2>6. c \in Nat
    BY <1>9
  <2>7. PICK V : V = {a[n] : n \in 1..c} \cup {b[n] : n \in 1..(c + 1)}
    OBVIOUS
  <2>8. a \in [1..c -> V]
    <3>1. \A n \in 1..c : a[n] \in V
      BY <2>7
    <3>2. QED
      BY <2>2, <3>1, Zenon
  <2>9. b \in [1..(c + 1) -> V]
    <3>1. \A n \in 1..(c + 1) : b[n] \in V
      BY <2>7
    <3>2. QED
      BY <2>3, <3>1, Zenon
  <2>10. b = Append(a, b[c + 1])
    BY <2>4, <2>6, <2>8, <2>9, OneMore
  <2>11. QED
    BY <2>1, <2>5, <2>10
<1>19. QED
  BY <1>5, <1>16, <1>18

LEMMA LinesType ==
    ASSUME NEW f \in Seq(Units)
    PROVE  \E V : Lines(f) \in Seq(V)
<1>1. PICK V, ls : ls = Lines(f) /\ V = {ls[n] : n \in DOMAIN ls}
  OBVIOUS
<1>2. PICK c \in Nat : DOMAIN ls = 1..c
  BY <1>1, EndsType
<1>3. ls = [n \in DOMAIN ls |-> ls[n]]
  BY <1>1 DEF Lines
<1>4. ls \in [1..c -> V]
  BY <1>1, <1>2, <1>3, Zenon
<1>5. ls \in Seq(V)
  BY <1>4
<1>6. QED
  BY <1>1, <1>5

\* Without a fragment behind them, the lines a reader gets are those shown;
\* with one, they are one more.
LEMMA LinesShown ==
    ASSUME NEW f \in Seq(Units)
    PROVE  /\ ~Trails(f) => [n \in DOMAIN Lines(f) |-> Decode(Lines(f)[n])] = Shown(f)
           /\ Trails(f) => [n \in DOMAIN Front(Lines(f)) |-> Decode(Front(Lines(f))[n])] = Shown(f)
<1>1. PICK l \in Nat : l = Len(f)
  OBVIOUS
<1>2. DOMAIN f = 1..l /\ (l = 0 <=> f = <<>>)
  BY <1>1
<1>3. PICK E, D, c : E = LineEnds(f) /\ D = Newlines(f) /\ c = Cardinality(D)
  OBVIOUS
<1>4. /\ D \in SUBSET Int /\ IsFiniteSet(D) /\ c \in Nat /\ DOMAIN Listed(D) = 1..c
      /\ E \in SUBSET Int /\ IsFiniteSet(E)
      /\ DOMAIN Lines(f) = DOMAIN Listed(E) /\ DOMAIN Listed(E) = 1..Cardinality(E)
  <2>1. /\ D \in SUBSET Int /\ IsFiniteSet(D) /\ c \in Nat /\ DOMAIN Listed(D) = 1..c
    BY <1>3, NewlinesType
  <2>2. /\ E \in SUBSET Int /\ IsFiniteSet(E)
        /\ DOMAIN Lines(f) = DOMAIN Listed(E) /\ DOMAIN Listed(E) = 1..Cardinality(E)
    BY <1>3, EndsType
  <2>3. QED
    BY <2>1, <2>2
<1>5. Shown(f) = [n \in 1..c |-> Shown(f)[n]]
  BY <1>3, ShownType
<1>6. ASSUME NEW n \in 1..c, n \in DOMAIN Listed(E), \A m \in 1..c : Listed(E)[m] = Listed(D)[m]
      PROVE  Decode(Lines(f)[n]) = Shown(f)[n]
  <2>1. n \in DOMAIN Listed(LineEnds(f)) /\ n \in DOMAIN Listed(Newlines(f))
    BY <1>3, <1>4, <1>6
  <2>2. CASE n = 1
    <3>1. Lines(f)[n] = SubSeq(f, 1, Listed(E)[n])
      BY <1>3, <2>1, <2>2, LineAt
    <3>2. Shown(f)[n] = Decode(SubSeq(f, 1, Listed(D)[n]))
      BY <1>3, <2>1, <2>2, ShownAt
    <3>3. QED
      BY <1>6, <3>1, <3>2
  <2>3. CASE n # 1
    <3>1. Lines(f)[n] = SubSeq(f, Listed(E)[n - 1] + 1, Listed(E)[n])
      BY <1>3, <2>1, <2>3, LineAt
    <3>2. Shown(f)[n] = Decode(SubSeq(f, Listed(D)[n - 1] + 1, Listed(D)[n]))
      BY <1>3, <2>1, <2>3, ShownAt
    <3>3. n - 1 \in 1..c
      BY <1>4, <2>3
    <3>4. QED
      BY <1>6, <3>1, <3>2, <3>3
  <2>4. QED
    BY <2>2, <2>3
<1>7. CASE ~Trails(f)
  <2>1. E = D
    <3>1. l = 0 \/ l \in D
      BY <1>1, <1>2, <1>3, <1>7 DEF Trails, Newlines
    <3>2. \A i \in DOMAIN f : (i = Len(f)) => IsNewline(f[i])
      BY <1>1, <1>2, <1>3, <3>1 DEF Newlines
    <3>3. QED
      BY <1>3, <3>2 DEF LineEnds, Newlines
  <2>2. DOMAIN Lines(f) = 1..c /\ DOMAIN Listed(E) = 1..c
    BY <1>4, <2>1
  <2>3. \A n \in 1..c : Decode(Lines(f)[n]) = Shown(f)[n]
    BY <1>6, <2>1, <2>2
  <2>4. QED
    BY <1>5, <1>7, <2>2, <2>3
<1>8. CASE Trails(f)
  <2>1. l # 0 /\ ~IsNewline(f[l])
    BY <1>1, <1>2, <1>8 DEF Trails
  <2>2. E = D \cup {l} /\ l \in Int /\ \A y \in D : y < l
    <3>1. \A y \in D : y \in 1..l /\ y # l
      BY <1>2, <1>3, <2>1 DEF Newlines
    <3>2. l \in E
      BY <1>1, <1>2, <1>3, <2>1 DEF LineEnds
    <3>3. \A i \in E : i \in D \cup {l}
      BY <1>1, <1>3 DEF LineEnds, Newlines
    <3>4. \A i \in D : i \in E
      BY <1>3 DEF LineEnds, Newlines
    <3>5. E = D \cup {l}
      BY <3>2, <3>3, <3>4
    <3>6. \A y \in D : y < l
      BY <3>1
    <3>7. QED
      BY <3>5, <3>6
  <2>3. Listed(E) = Append(Listed(D), l) /\ Cardinality(E) = c + 1
    <3>1. l \in Int /\ \A y \in D : y < l
      BY <2>2
    <3>2. Listed(D \cup {l}) = Append(Listed(D), l) /\ Cardinality(D \cup {l}) = Cardinality(D) + 1
      BY <1>4, <3>1, ListedAppend
    <3>3. QED
      BY <1>3, <2>2, <3>2
  <2>4. \A m \in 1..c : Listed(E)[m] = Listed(D)[m]
    <3>1. PICK a, b : a = Listed(D) /\ b = Listed(E)
      OBVIOUS
    <3>2. a \in Seq(Int) /\ Len(a) = c
      <4>1. Listed(D) \in Seq(D) /\ Len(Listed(D)) = c
        BY <1>3, <1>4, ListedType
      <4>2. QED
        BY <1>4, <3>1, <4>1, SeqMonotonic
    <3>3. b = Append(a, l) /\ l \in Int
      BY <2>2, <2>3, <3>1
    <3>4. \A n \in 1..c : b[n] = a[n]
      BY <3>2, <3>3, AppendProperties
    <3>5. QED
      BY <3>1, <3>4
  <2>5. PICK ls, fr : ls = Lines(f) /\ fr = Front(Lines(f))
    OBVIOUS
  <2>6. PICK V : ls \in Seq(V)
    BY <2>5, LinesType
  <2>7. DOMAIN ls = 1..(c + 1) /\ Len(ls) = c + 1
    BY <1>4, <2>3, <2>5, <2>6
  <2>8. fr \in Seq(V) /\ DOMAIN fr = 1..c /\ \A n \in 1..c : fr[n] = ls[n]
    <3>1. fr = SubSeq(ls, 1, (c + 1) - 1) /\ (c + 1) - 1 = c
      BY <1>4, <2>5, <2>7 DEF Front
    <3>2. QED
      BY <1>4, <2>6, <2>7, <3>1
  <2>9. ASSUME NEW n \in 1..c PROVE Decode(fr[n]) = Shown(f)[n]
    <3>1. n \in DOMAIN Listed(E)
      BY <1>4, <2>3
    <3>2. Decode(Lines(f)[n]) = Shown(f)[n]
      BY <1>6, <2>4, <3>1
    <3>3. QED
      BY <2>5, <2>8, <3>2
  <2>10. [n \in DOMAIN fr |-> Decode(fr[n])] = [n \in 1..c |-> Shown(f)[n]]
    BY <2>8, <2>9
  <2>11. QED
    BY <1>5, <1>8, <2>5, <2>10
<1>9. QED
  BY <1>7, <1>8

-----------------------------------------------------------------------------
(***************************************************************************)
(* The steps, seen from outside the lock.                                  *)
(***************************************************************************)

Told(f) == [lines |-> Shown(f), torn |-> Trails(f)]

\* The events whose append is over.
Over == {e \in Events : result[e] \in {"returned", "failed", "killed"}}

SettledPart ==
    /\ Begins(Settled, file)
    /\ lock = None => Settled = file
    /\ \A w \in Workers : state[w] = "writing" =>
         /\ lock = w /\ Settled = SubSeq(file, 1, Len(file) - written[w])
         /\ Len(Settled) = Len(file) - written[w]

LEMMA SettledBegins == FileInv => SettledPart
<1> SUFFICES ASSUME FileInv PROVE SettledPart
  OBVIOUS
<1>1. file \in Seq(Units) /\ Len(file) \in Nat /\ DOMAIN file = 1..Len(file)
  BY DEF FileInv, TypeOK
<1>2. CASE lock = None
  <2>1. \A w \in Workers : state[w] # "writing"
    BY <1>2, LogNoneAssumption DEF FileInv, LogInv, Exclusive
  <2>2. QED
    BY <1>1, <1>2, <2>1 DEF Settled, Begins, SettledPart
<1>3. CASE lock # None
  <2>1. PICK w \in Workers : lock = w
    BY <1>3 DEF FileInv, TypeOK
  <2>2. state[w] = "writing" /\ \A v \in Workers : state[v] = "writing" => v = w
    BY <2>1 DEF FileInv, LogInv, Exclusive
  <2>3. PICK n \in Nat : n = Len(file) - written[w]
    BY <2>2, Begun
  <2>4. Settled = SubSeq(file, 1, n) /\ n <= Len(file)
    <3>1. written[w] \in Nat
      BY DEF FileInv, TypeOK
    <3>2. QED
      BY <1>1, <1>3, <2>1, <2>3, <3>1 DEF Settled
  <2>5. /\ Settled \in Seq(Units) /\ Len(Settled) = n
        /\ \A i \in 1..n : Settled[i] = file[i]
    BY <1>1, <2>4
  <2>6. Begins(Settled, file)
    BY <1>1, <2>4, <2>5 DEF Begins
  <2>7. QED
    BY <1>3, <2>1, <2>2, <2>3, <2>4, <2>5, <2>6 DEF SettledPart
<1>4. QED
  BY <1>2, <1>3

LEMMA AbstractFile ==
    ASSUME FileInv
    PROVE  [lines |-> [n \in DOMAIN SettledLines |-> Decode(SettledLines[n])],
            torn |-> TrailsFragment] = Told(Settled)
<1>1. PICK f : f = Settled
  OBVIOUS
<1>2. f \in Seq(Units)
  BY <1>1, SettledBegins DEF Begins, SettledPart
<1>3. TrailsFragment = Trails(f)
  BY <1>1 DEF TrailsFragment, Trails, Last
<1>4. CASE Trails(f)
  <2>1. SettledLines = Front(Lines(f))
    BY <1>1, <1>3, <1>4 DEF SettledLines
  <2>2. QED
    BY <1>1, <1>2, <1>3, <1>4, <2>1, LinesShown DEF Told
<1>5. CASE ~Trails(f)
  <2>1. SettledLines = Lines(f)
    BY <1>1, <1>3, <1>5 DEF SettledLines
  <2>2. QED
    BY <1>1, <1>2, <1>3, <1>5, <2>1, LinesShown DEF Told
<1>6. QED
  BY <1>4, <1>5

\* Some of a row that is not all of it leaves a fragment, nothing of it
\* leaves the file as it was.
LEMMA PartTold ==
    ASSUME NEW f, NEW g, Begins(f, g),
           \A i \in DOMAIN g : i \in DOMAIN f \/ ~IsNewline(g[i])
    PROVE  Told(g) = Told(f) \/ Told(g) = [lines |-> Told(f).lines, torn |-> TRUE]
<1>1. Shown(g) = Shown(f)
  BY ShownStays
<1>2. /\ f \in Seq(Units) /\ g \in Seq(Units) /\ Len(f) \in Nat /\ Len(g) \in Nat
      /\ DOMAIN f = 1..Len(f) /\ DOMAIN g = 1..Len(g) /\ Len(f) <= Len(g)
      /\ \A i \in 1..Len(f) : g[i] = f[i]
  BY DEF Begins
<1>3. CASE Len(f) = Len(g)
  <2>1. f = g
    BY <1>2, <1>3, SeqEqual
  <2>2. QED
    BY <2>1
<1>4. CASE Len(f) # Len(g)
  <2>1. Len(g) \in DOMAIN g /\ Len(g) \notin DOMAIN f
    <3>1. PICK a \in Nat, b \in Nat : a = Len(f) /\ b = Len(g)
      BY <1>2
    <3>2. a <= b /\ a # b
      BY <1>2, <1>4, <3>1
    <3>3. b \in 1..b /\ b \notin 1..a
      BY <3>2
    <3>4. QED
      BY <1>2, <3>1, <3>3
  <2>2. Trails(g)
    BY <1>2, <2>1 DEF Trails
  <2>3. QED
    BY <1>1, <2>2 DEF Told
<1>5. QED
  BY <1>3, <1>4

LEMMA RowTold ==
    ASSUME NEW f, NEW g, Begins(f, g), NEW e \in Events,
           Len(g) = Len(f) + Length[e],
           \A u \in 1..Length[e] : g[Len(f) + u] = [event |-> e, unit |-> u]
    PROVE  Told(g) = [lines |-> Append(Told(f).lines, IF Told(f).torn THEN Malformed ELSE e),
                      torn |-> FALSE]
<1>1. /\ Shown(g) = Append(Shown(f), IF Trails(f) THEN Malformed ELSE e)
      /\ ~Trails(g)
  BY ShownGrows
<1>2. Trails(g) = FALSE
  BY <1>1 DEF Trails
<1>3. Told(f).lines = Shown(f) /\ Told(f).torn = Trails(f)
  BY DEF Told
<1>4. QED
  BY <1>1, <1>2, <1>3 DEF Told

-----------------------------------------------------------------------------
\* A step inside the lock, or outside the file, is not seen.
LEMMA SettledStays ==
    ASSUME FileInv, FileInv',
           \/ file' = file /\ lock' = lock /\ (lock # None => written'[lock] = written[lock])
           \/ file' = file /\ lock = None /\ lock' \in Workers /\ written'[lock'] = 0
    PROVE  Settled' = Settled
<1>1. CASE file' = file /\ lock' = lock /\ (lock # None => written'[lock] = written[lock])
  BY <1>1 DEF Settled
<1>2. CASE file' = file /\ lock = None /\ lock' \in Workers /\ written'[lock'] = 0
  <2>1. lock' # None
    BY <1>2, LogNoneAssumption
  <2>2. file \in Seq(Units)
    BY DEF FileInv, TypeOK
  <2>3. Len(file) - 0 = Len(file) /\ SubSeq(file, 1, Len(file)) = file
    BY <2>2, SubSeqFull
  <2>4. QED
    BY <1>2, <2>1, <2>3 DEF Settled
<1>3. QED
  BY <1>1, <1>2

\* Units that reach the file before the close are not seen.
LEMMA FlushHidden ==
    ASSUME FileInv, FileInv', NEW w \in Workers, Flush(w)
    PROVE  Settled' = Settled
<1>1. PICK k \in written[w] + 1 .. Reach(event[w]) :
         WriteUpTo(w, k) /\ written' = [written EXCEPT ![w] = k]
  BY DEF Flush
<1>2. state[w] = "writing" /\ UNCHANGED <<state, event, lock, result>>
  BY DEF Flush
<1>3. PICK n, from, e : n = Len(file) /\ from = written[w] /\ e = event[w]
  OBVIOUS
<1>4. /\ n \in Nat /\ from \in Nat /\ k \in Nat /\ from <= k /\ written'[w] = k
      /\ k <= Length[event[w]] /\ written[w] <= k
  <2>1. written[w] \in Nat /\ event[w] \in Events /\ Len(file) \in Nat
    BY <1>2 DEF FileInv, TypeOK, LogInv, Exclusive
  <2>2. Reach(event[w]) \in Int /\ Reach(event[w]) < Length[event[w]]
    BY <2>1, LengthType DEF Reach
  <2>3. k \in Nat /\ written[w] <= k /\ k <= Length[event[w]]
    BY <2>1, <2>2, LengthType
  <2>4. written'[w] = k
    BY <1>1 DEF FileInv, TypeOK
  <2>5. QED
    BY <1>3, <2>1, <2>3, <2>4
<1>5. Settled = SubSeq(file, 1, n - from) /\ Len(Settled) = n - from /\ Len(Settled) \in Nat
  BY <1>2, <1>3, SettledBegins DEF SettledPart, Begins
<1>6. SettledPart'
  <2>1. FileInv' => SettledPart'
    BY SettledBegins, PTL
  <2>2. QED
    BY <2>1
<1>7. Settled' = SubSeq(file', 1, Len(file') - k)
  <2>1. state'[w] = "writing"
    BY <1>2
  <2>2. QED
    BY <1>4, <1>6, <2>1 DEF SettledPart
<1>8. Len(file') = n + (k - from) /\ Begins(file, file')
  <2>1. TypeOK /\ LogInv
    BY DEF FileInv
  <2>2. Len(file') = n + (k - written[w])
    BY <1>1, <1>2, <1>3, <1>4, <2>1, WrittenUnits
  <2>3. Continued(event[w])
    BY <1>1, <1>2, <1>4, WriteContinues
  <2>4. Begins(file, file')
    BY <2>3 DEF Begins, Continued, FileInv, TypeOK
  <2>5. QED
    BY <1>3, <2>2, <2>4
<1>9. Len(file') - k = n - from /\ n - from \in Int /\ n - from <= Len(file)
  <2>1. PICK a : a = Len(file')
    OBVIOUS
  <2>2. a = n + (k - from)
    BY <1>8, <2>1
  <2>3. a - k = n - from /\ n - from \in Int /\ n - from <= n
    BY <1>4, <2>2
  <2>4. QED
    BY <1>3, <2>1, <2>3
<1>10. PICK q \in Int, m \in Nat : q = n - from /\ m = 1 /\ m > 0 /\ q <= Len(file)
  BY <1>9
<1>11. SubSeq(file', m, q) = SubSeq(file, m, q)
  BY <1>8, <1>10, SamePart
<1>12. QED
  BY <1>5, <1>7, <1>9, <1>10, <1>11

LEMMA ClosesWhole ==
    ASSUME FileInv, FileInv', NEW w \in Workers, Close(w)
    PROVE  Told(Settled)' = [lines |-> Append(Told(Settled).lines,
                                              IF Told(Settled).torn THEN Malformed ELSE event[w]),
                             torn |-> FALSE]
<1>1. /\ state[w] = "writing" /\ WriteUpTo(w, Length[event[w]])
      /\ Leave(w, "serving", "returned")
  BY DEF Close
<1>2. PICK n, from, e, k : n = Len(file) /\ from = written[w] /\ e = event[w] /\ k = Length[e]
  OBVIOUS
<1>3. /\ n \in Nat /\ from \in Nat /\ e \in Events /\ k \in Nat /\ from < k
  <2>1. Len(file) \in Nat /\ written[w] \in Nat /\ event[w] \in Events
    BY <1>1 DEF FileInv, TypeOK, LogInv, Exclusive
  <2>2. written[w] < Length[event[w]]
    BY <1>1 DEF FileInv, LogInv, AtEnd
  <2>3. QED
    BY <1>2, <2>1, <2>2, LengthType
<1>4. k \in Nat /\ written[w] <= k /\ k <= Length[event[w]] /\ WriteUpTo(w, k)
  BY <1>1, <1>2, <1>3
<1>5. /\ Begins(Settled, file) /\ lock = w /\ Len(Settled) = n - from
  BY <1>1, <1>2, SettledBegins DEF SettledPart
<1>6. Settled' = file'
  <2>1. FileInv' => SettledPart'
    BY SettledBegins, PTL
  <2>2. lock' = None
    BY <1>1, <1>5 DEF Leave
  <2>3. QED
    BY <2>1, <2>2 DEF SettledPart
<1>7. Begins(file, file') /\ Len(file') = n + (k - from)
  <2>1. TypeOK /\ LogInv
    BY DEF FileInv
  <2>2. Len(file') = n + (k - written[w])
    BY <1>1, <1>2, <1>4, <2>1, WrittenUnits
  <2>3. Continued(event[w])
    BY <1>1, <1>4, WriteContinues
  <2>4. Begins(file, file')
    BY <2>3 DEF Begins, Continued, FileInv, TypeOK
  <2>5. QED
    BY <1>2, <2>2, <2>4
<1>8. PICK f, g : f = Settled /\ g = file'
  OBVIOUS
<1>9. Begins(f, g)
  BY <1>5, <1>7, <1>8 DEF Begins
<1>10. Len(g) = Len(f) + Length[e]
  <2>1. Len(g) = n + (k - from) /\ Len(f) = n - from /\ Length[e] = k
    BY <1>2, <1>5, <1>7, <1>8
  <2>2. n + (k - from) = (n - from) + k
    BY <1>3
  <2>3. QED
    BY <2>1, <2>2
<1>11. \A u \in 1..Length[e] : g[Len(f) + u] = [event |-> e, unit |-> u]
  <2>1. RowAt(file', event[w], Len(file) - written[w])
    BY <1>1, Finished
  <2>2. RowAt(g, e, Len(f))
    BY <1>2, <1>5, <1>8, <2>1
  <2>3. QED
    BY <2>2 DEF RowAt
<1>12. Told(g) = [lines |-> Append(Told(f).lines, IF Told(f).torn THEN Malformed ELSE e),
                  torn |-> FALSE]
  BY <1>3, <1>9, <1>10, <1>11, RowTold
<1>13. Told(Settled)' = Told(g)
  BY <1>6, <1>8 DEF Told, Shown, Trails, Newlines
<1>14. QED
  BY <1>2, <1>8, <1>12, <1>13

\* Leaving a row before its end.
LEMMA LeavesPart ==
    ASSUME FileInv, FileInv', NEW w \in Workers, state[w] = "writing",
           NEW k \in Nat, written[w] <= k, k < Length[event[w]], WriteUpTo(w, k),
           lock' = None
    PROVE  \/ Told(Settled)' = Told(Settled)
           \/ Told(Settled)' = [lines |-> Told(Settled).lines, torn |-> TRUE]
<1>1. PICK n, from, e : n = Len(file) /\ from = written[w] /\ e = event[w]
  OBVIOUS
<1>2. n \in Nat /\ from \in Nat /\ e \in Events /\ k < Length[e] /\ Length[e] \in Nat
  <2>1. Len(file) \in Nat /\ written[w] \in Nat /\ event[w] \in Events
    BY DEF FileInv, TypeOK, LogInv, Exclusive
  <2>2. QED
    BY <1>1, <2>1, LengthType
<1>3. k <= Length[event[w]]
  BY <1>1, <1>2
<1>4. /\ Continued(event[w])
      /\ \A i \in DOMAIN file' : file'[i].event = event[w] => file'[i].unit <= k
  BY <1>3, WriteContinues
<1>5. /\ Begins(Settled, file) /\ Len(Settled) = n - from
  BY <1>1, SettledBegins DEF SettledPart
<1>6. Settled' = file'
  <2>1. FileInv' => SettledPart'
    BY SettledBegins, PTL
  <2>2. QED
    BY <2>1 DEF SettledPart
<1>7. PICK f, g : f = Settled /\ g = file'
  OBVIOUS
<1>8. Begins(f, g) /\ DOMAIN f = 1..(n - from) /\ DOMAIN file = 1..n /\ n - from \in Nat
  <2>1. Begins(f, g)
    BY <1>4, <1>5, <1>7 DEF Begins, Continued
  <2>2. DOMAIN f = 1..(n - from) /\ n - from \in Nat
    BY <1>5, <1>7 DEF Begins
  <2>3. DOMAIN file = 1..n
    BY <1>1 DEF FileInv, TypeOK
  <2>4. QED
    BY <2>1, <2>2, <2>3
<1>9. ASSUME NEW i \in DOMAIN g, i \notin DOMAIN f PROVE ~IsNewline(g[i])
  <2>1. g[i].event = e
    <3>1. CASE i \in DOMAIN file
      <4>1. PICK u : u = i - (n - from)
        OBVIOUS
      <4>2. u \in 1..from /\ (n - from) + u = i
        <5>1. i \in 1..n /\ i \notin 1..(n - from)
          BY <1>8, <1>9, <3>1
        <5>2. QED
          BY <1>2, <1>8, <4>1, <5>1
      <4>3. file[(n - from) + u] = [event |-> e, unit |-> u]
        BY <1>1, <4>2, Begun
      <4>4. g[i] = file[i]
        BY <1>4, <1>7, <3>1 DEF Continued
      <4>5. QED
        BY <4>2, <4>3, <4>4
    <3>2. CASE i \notin DOMAIN file
      BY <1>1, <1>4, <1>7, <1>9, <3>2 DEF Continued
    <3>3. QED
      BY <3>1, <3>2
  <2>2. g[i].unit <= k
    BY <1>1, <1>4, <1>7, <1>9, <2>1
  <2>3. g[i].unit # Length[e]
    BY <1>2, <2>2
  <2>4. QED
    BY <2>1, <2>3 DEF IsNewline
<1>10. Told(g) = Told(f) \/ Told(g) = [lines |-> Told(f).lines, torn |-> TRUE]
  <2>1. \A i \in DOMAIN g : i \in DOMAIN f \/ ~IsNewline(g[i])
    BY <1>9
  <2>2. QED
    BY <1>8, <2>1, PartTold
<1>11. Told(Settled)' = Told(g)
  BY <1>6, <1>7 DEF Told, Shown, Trails, Newlines
<1>12. QED
  BY <1>7, <1>10, <1>11

\* An append is over with its event, once.
LEMMA LeaveOver ==
    ASSUME FileInv, NEW w \in Workers, state[w] \in Active, NEW next,
           NEW how \in {"returned", "failed", "killed"}, Leave(w, next, how)
    PROVE  event[w] \in Events \ Over /\ Over' = Over \cup {event[w]}
<1>1. event[w] \in Events /\ result[event[w]] = "open"
  BY DEF FileInv, Book, LogInv, Exclusive, Active
<1>2. /\ result'[event[w]] = how
      /\ \A e \in Events : e # event[w] => result'[e] = result[e]
  BY <1>1 DEF Leave, FileInv, Book
<1>3. event[w] \notin Over
  BY <1>1 DEF Over
<1>4. ASSUME NEW e \in Events PROVE e \in Over' <=> e \in Over \cup {event[w]}
  BY <1>1, <1>2 DEF Over
<1>5. QED
  BY <1>1, <1>3, <1>4 DEF Over

\* What one step of the log is to those outside the lock.
Unseen == Told(Settled)' = Told(Settled) /\ Over' = Over
Emitted(e) ==
    /\ e \in Events \ Over /\ Over' = Over \cup {e}
    /\ \/ Told(Settled)' = [lines |-> Append(Told(Settled).lines,
                                             IF Told(Settled).torn THEN Malformed ELSE e),
                            torn |-> FALSE]
       \/ Told(Settled)' = [lines |-> Told(Settled).lines, torn |-> TRUE]
       \/ Told(Settled)' = Told(Settled)

LEMMA ToldStays == Settled' = Settled => Told(Settled)' = Told(Settled)
BY DEF Told, Shown, Trails, Newlines

LEMMA WorkerSeen ==
    ASSUME FileInv, FileInv', NEW w \in Workers,
           \/ \E e \in Events : Open(w, e) \/ OpenFails(w, e)
           \/ Proceed(w) \/ Kill(w) \/ Restart(w)
    PROVE  Unseen \/ \E e \in Events : Emitted(e)
<1>1. ASSUME NEW e \in Events, Open(w, e) PROVE Unseen
  <2>1. file' = file /\ lock' = lock /\ written' = written
    BY <1>1 DEF Open
  <2>2. Settled' = Settled
    BY <2>1, SettledStays
  <2>3. Over' = Over
    BY <1>1 DEF Open, Over, FileInv, Book
  <2>4. QED
    BY <2>2, <2>3, ToldStays DEF Unseen
<1>2. ASSUME NEW e \in Events, OpenFails(w, e) PROVE Emitted(e)
  <2>1. file' = file /\ lock' = lock /\ written' = written
    BY <1>2 DEF OpenFails
  <2>2. Settled' = Settled
    BY <2>1, SettledStays
  <2>3. e \notin Over
    BY <1>2 DEF OpenFails, Over
  <2>4. ASSUME NEW d \in Events PROVE d \in Over' <=> d \in Over \cup {e}
    BY <1>2 DEF OpenFails, Over, FileInv, Book
  <2>5. Over' = Over \cup {e}
    BY <2>4 DEF Over
  <2>6. QED
    BY <2>2, <2>3, <2>5, ToldStays DEF Emitted
<1>3. CASE Lock(w)
  <2>1. file' = file /\ lock = None /\ lock' = w /\ written' = written /\ result' = result
        /\ state[w] = "opened"
    BY <1>3 DEF Lock
  <2>2. written'[w] = 0
    BY <2>1 DEF FileInv, LogInv, Exclusive
  <2>3. Settled' = Settled
    BY <2>1, <2>2, SettledStays
  <2>4. Over' = Over
    BY <2>1 DEF Over
  <2>5. QED
    BY <2>3, <2>4, ToldStays DEF Unseen
<1>4. CASE Flush(w)
  <2>1. Settled' = Settled
    BY <1>4, FlushHidden
  <2>2. Over' = Over
    BY <1>4 DEF Flush, Over
  <2>3. QED
    BY <2>1, <2>2, ToldStays DEF Unseen
<1>5. CASE Close(w)
  <2>1. state[w] \in Active /\ Leave(w, "serving", "returned")
    BY <1>5 DEF Close, Active
  <2>2. event[w] \in Events \ Over /\ Over' = Over \cup {event[w]}
    BY <2>1, LeaveOver
  <2>3. QED
    BY <1>5, <2>2, ClosesWhole DEF Emitted
<1>6. CASE AppendFails(w)
  <2>1. PICK k \in written[w] .. Reach(event[w]) : WriteUpTo(w, k)
    BY <1>6 DEF AppendFails
  <2>2. state[w] = "writing" /\ Leave(w, "serving", "failed")
    BY <1>6 DEF AppendFails
  <2>3. k \in Nat /\ written[w] <= k /\ k < Length[event[w]] /\ lock = w
    <3>1. event[w] \in Events /\ written[w] \in Nat /\ lock = w
      BY <2>2 DEF FileInv, TypeOK, LogInv, Exclusive
    <3>2. Reach(event[w]) < Length[event[w]] /\ Reach(event[w]) \in Int
      BY <3>1, LengthType DEF Reach
    <3>3. QED
      BY <2>1, <3>1, <3>2, LengthType
  <2>4. lock' = None
    BY <2>2, <2>3 DEF Leave
  <2>5. state[w] \in Active
    BY <2>2 DEF Active
  <2>6. event[w] \in Events \ Over /\ Over' = Over \cup {event[w]}
    BY <2>2, <2>5, LeaveOver
  <2>7. \/ Told(Settled)' = Told(Settled)
        \/ Told(Settled)' = [lines |-> Told(Settled).lines, torn |-> TRUE]
    BY <2>1, <2>2, <2>3, <2>4, LeavesPart
  <2>8. QED
    BY <2>6, <2>7 DEF Emitted
<1>7. CASE Kill(w)
  <2>1. CASE state[w] = "serving"
    <3>1. file' = file /\ lock' = lock /\ written' = written /\ result' = result
      BY <1>7, <2>1 DEF Kill
    <3>2. Settled' = Settled
      BY <3>1, SettledStays
    <3>3. Over' = Over
      BY <3>1 DEF Over
    <3>4. QED
      BY <3>2, <3>3, ToldStays DEF Unseen
  <2>2. CASE state[w] # "serving"
    <3>1. state[w] \in Active /\ Leave(w, "down", "killed") /\ file' = file
      BY <1>7, <2>2 DEF Kill, FileInv, TypeOK, Active
    <3>2. event[w] \in Events \ Over /\ Over' = Over \cup {event[w]}
      BY <3>1, LeaveOver
    <3>3. CASE state[w] = "opened"
      <4>1. lock # w
        BY <3>3 DEF FileInv, LogInv, Exclusive
      <4>2. lock' = lock /\ (lock # None => written'[lock] = written[lock])
        BY <3>1, <4>1 DEF Leave, FileInv, TypeOK
      <4>3. Settled' = Settled
        BY <3>1, <4>2, SettledStays
      <4>4. QED
        BY <3>2, <4>3, ToldStays DEF Emitted
    <3>4. CASE state[w] = "writing"
      <4>1. PICK k : k = written[w]
        OBVIOUS
      <4>2. /\ k \in Nat /\ event[w] \in Events /\ lock = w /\ k < Length[event[w]]
            /\ file \in Seq(Units)
        <5>1. written[w] \in Nat /\ event[w] \in Events /\ lock = w /\ file \in Seq(Units)
          BY <3>4 DEF FileInv, TypeOK, LogInv, Exclusive
        <5>2. written[w] < Length[event[w]]
          BY <3>4 DEF FileInv, LogInv, AtEnd
        <5>3. QED
          BY <4>1, <5>1, <5>2
      <4>3. WriteUpTo(w, k)
        <5>1. PICK m : m = k + 1
          OBVIOUS
        <5>2. m \in Int /\ k \in Int /\ k < m
          BY <4>2, <5>1
        <5>3. SubSeq(Row(event[w]), m, k) = <<>>
          BY <5>2, SubSeqEmpty
        <5>4. file \o <<>> = file
          BY <4>2
        <5>5. QED
          BY <3>1, <4>1, <5>1, <5>3, <5>4 DEF WriteUpTo
      <4>4. lock' = None
        BY <3>1, <4>2 DEF Leave
      <4>5. written[w] <= k
        BY <4>1, <4>2
      <4>6. \/ Told(Settled)' = Told(Settled)
            \/ Told(Settled)' = [lines |-> Told(Settled).lines, torn |-> TRUE]
        BY <3>4, <4>2, <4>3, <4>4, <4>5, LeavesPart
      <4>7. QED
        BY <3>2, <4>6 DEF Emitted
    <3>5. QED
      BY <3>1, <3>2, <3>3, <3>4 DEF Active
  <2>3. QED
    BY <2>1, <2>2
<1>8. CASE Restart(w)
  <2>1. file' = file /\ lock' = lock /\ written' = written /\ result' = result
    BY <1>8 DEF Restart
  <2>2. Settled' = Settled
    BY <2>1, SettledStays
  <2>3. Over' = Over
    BY <2>1 DEF Over
  <2>4. QED
    BY <2>2, <2>3, ToldStays DEF Unseen
<1>9. QED
  BY <1>1, <1>2, <1>3, <1>4, <1>5, <1>6, <1>7, <1>8 DEF Proceed

LEMMA StepSeen ==
    ASSUME FileInv, FileInv', [Next]_vars
    PROVE  Unseen \/ \E e \in Events : Emitted(e)
<1>1. ASSUME UNCHANGED writers PROVE Unseen
  <2>1. file' = file /\ lock' = lock /\ written' = written /\ result' = result
    BY <1>1 DEF writers
  <2>2. Settled' = Settled
    BY <2>1, SettledStays
  <2>3. Over' = Over
    BY <2>1 DEF Over
  <2>4. QED
    BY <2>2, <2>3, ToldStays DEF Unseen
<1>2. CASE UNCHANGED vars
  BY <1>1, <1>2 DEF vars
<1>3. CASE StartReport \/ Read \/ EndOfFile
  BY <1>1, <1>3 DEF StartReport, Read, EndOfFile
<1>4. QED
  BY <1>2, <1>3, WorkerSeen DEF Next

AbstractLog ==
    [lines |-> [n \in DOMAIN SettledLines |-> Decode(SettledLines[n])], torn |-> TrailsFragment]

LEMMA AbstractIs == FileInv => AbstractLog = Told(Settled)
BY AbstractFile DEF AbstractLog

LEMMA AbstractStep ==
    ASSUME FileInv, FileInv', [Next]_vars
    PROVE  [Atomic!Next]_<<AbstractLog, Over>>
<1>1. AbstractLog = Told(Settled)
  BY AbstractIs
<1>2. AbstractLog' = Told(Settled)'
  <2>1. FileInv' => (AbstractLog = Told(Settled))'
    BY AbstractIs, PTL
  <2>2. QED
    BY <2>1
<1>3. CASE Unseen
  BY <1>1, <1>2, <1>3 DEF Unseen
<1>4. ASSUME NEW e \in Events, Emitted(e) PROVE Atomic!Next
  <2>1. e \notin Over /\ Over' = Over \cup {e}
    BY <1>4 DEF Emitted
  <2>2. CASE AbstractLog' = [lines |-> Append(AbstractLog.lines,
                                              IF AbstractLog.torn THEN Malformed ELSE e),
                             torn |-> FALSE]
    <3>1. Atomic!AppendEvent(AbstractLog, e, "complete") = AbstractLog'
      BY <2>2 DEF Atomic!AppendEvent
    <3>2. Atomic!Emit(e, "complete")
      BY <2>1, <3>1 DEF Atomic!Emit, AbstractLog, Over
    <3>3. QED
      BY <3>2 DEF Atomic!Next
  <2>3. CASE AbstractLog' = [lines |-> AbstractLog.lines, torn |-> TRUE]
    <3>1. Atomic!AppendEvent(AbstractLog, e, "torn") = AbstractLog'
      BY <2>3 DEF Atomic!AppendEvent
    <3>2. Atomic!Emit(e, "torn")
      BY <2>1, <3>1 DEF Atomic!Emit, AbstractLog, Over
    <3>3. QED
      BY <3>2 DEF Atomic!Next
  <2>4. CASE AbstractLog' = AbstractLog
    <3>1. Atomic!AppendEvent(AbstractLog, e, "unopened") = AbstractLog'
      BY <2>4 DEF Atomic!AppendEvent
    <3>2. Atomic!Emit(e, "unopened")
      BY <2>1, <3>1 DEF Atomic!Emit, AbstractLog, Over
    <3>3. QED
      BY <3>2 DEF Atomic!Next
  <2>5. QED
    BY <1>1, <1>2, <1>4, <2>2, <2>3, <2>4 DEF Emitted
<1>5. QED
  BY <1>3, <1>4, StepSeen

LEMMA AbstractInit == Init => AbstractLog = Atomic!EmptyFile /\ Over = {}
<1> SUFFICES ASSUME Init PROVE AbstractLog = Atomic!EmptyFile /\ Over = {}
  OBVIOUS
<1>1. Over = {}
  BY DEF Init, Over
<1>2. Settled = <<>>
  BY DEF Init, Settled
<1>3. PICK f : f = <<>> /\ f \in Seq(Units)
  <2>1. <<>> \in Seq(Units)
    OBVIOUS
  <2>2. QED
    BY <2>1
<1>4. Newlines(f) = {}
  BY <1>3 DEF Newlines
<1>5. Cardinality(Newlines(f)) = 0
  BY <1>4, FS_EmptySet
<1>6. DOMAIN Listed(Newlines(f)) = {}
  <2>1. 1..0 = {}
    OBVIOUS
  <2>2. QED
    BY <1>3, <1>5, <2>1, NewlinesType
<1>7. Shown(f) = <<>>
  BY <1>6 DEF Shown
<1>8. Told(Settled) = [lines |-> <<>>, torn |-> FALSE]
  BY <1>2, <1>3, <1>7 DEF Told, Trails
<1>9. AbstractLog = Told(Settled)
  BY FileInit, AbstractIs
<1>10. QED
  BY <1>1, <1>8, <1>9 DEF Atomic!EmptyFile

\* Seen from outside the lock every step of the workers, their failures and
\* their deaths included, is one append of AtomicLog, or nothing: what lets
\* the gateway treat emit as one step.
THEOREM AppendsAreAtomic == Spec => AppendsAtomic
<1>1. Init => Atomic!Init
  BY AbstractInit DEF Atomic!Init, AbstractLog, Over
<1>2. FileInv /\ FileInv' /\ [Next]_vars =>
        [Atomic!Next]_<<[lines |-> [n \in DOMAIN SettledLines |-> Decode(SettledLines[n])],
                         torn |-> TrailsFragment],
                        {e \in Events : result[e] \in {"returned", "failed", "killed"}}>>
  BY AbstractStep DEF AbstractLog, Over
<1>3. FileInv /\ [Next]_vars => FileInv'
  BY FileNext
<1>4. QED
  BY <1>1, <1>2, <1>3, FileInit, PTL DEF Spec, AppendsAtomic, Atomic!Spec
=============================================================================
