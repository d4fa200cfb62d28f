----------------------------- MODULE TelemetryLog -----------------------------
(***************************************************************************)
(* The telemetry file of several worker processes and of the report that   *)
(* reads it beside them: _write_jsonl_event step by step, with its         *)
(* advisory lock, the write calls its buffer is emptied by, a full disk,   *)
(* values json.dump cannot encode and workers that are killed at any       *)
(* point; and load_jsonl_telemetry, which takes no lock.                   *)
(*                                                                         *)
(* A row is a sequence of units, the last of which is its newline.  The    *)
(* file is append-only (mode "a"): what a reader has seen is a prefix.     *)
(***************************************************************************)
EXTENDS Naturals, Sequences, FiniteSets, SequencesExt, Listing

CONSTANTS
    Workers,     \* uvicorn worker processes
    Events,      \* the events they emit, each once
    Length,      \* event -> units of its row, the newline included
    Encodable,   \* events json.dump can encode to the end
    Reportable,  \* events whose row normalize_telemetry_row accepts
    Buffer,      \* units that fit in the buffer of the file object
    MidCharacter,  \* units that end inside a character of several bytes
    None,
    Unserialisable,
    Malformed

ASSUME LengthAssumption ==
    Length \in [Events -> Nat] /\ \A e \in Events : Length[e] >= 2
ASSUME EncodableAssumption == Encodable \subseteq Events /\ Reportable \subseteq Events
ASSUME BufferAssumption == Buffer \in Nat
ASSUME CharacterAssumption ==
    \A u \in MidCharacter : u.event \in Events /\ u.unit \in 1..Length[u.event] - 2
ASSUME LogNoneAssumption == None \notin Workers /\ None \notin Events /\ Malformed \notin Events

VARIABLES
    state,    \* of each worker: serving, opened, writing or down
    event,    \* the event a worker is appending
    written,  \* how many units of it have reached the file
    lock,     \* the holder of the flock, or None
    file,     \* the units of the file
    result,   \* of each event: none, open, returned, failed or killed
    reader,   \* load_jsonl_telemetry: idle or reading
    pos,      \* units it has read
    promised, \* history: events whose append had returned when it began
    report    \* what the last load returned: [rows, malformed], or that it raised

writers == <<state, event, written, lock, file, result>>
readers == <<reader, pos, promised, report>>
vars == <<writers, readers>>

Row(e) == [i \in 1..Length[e] |-> [event |-> e, unit |-> i]]
IsNewline(u) == u.unit = Length[u.event]

\* Text-mode iteration: the lines of f, the unterminated last one included.
LineEnds(f) == {i \in DOMAIN f : IsNewline(f[i]) \/ i = Len(f)}
Lines(f) ==
    LET ends == Listed(LineEnds(f))
    IN  [n \in DOMAIN ends |-> SubSeq(f, IF n = 1 THEN 1 ELSE ends[n - 1] + 1, ends[n])]

\* strip removes the newline; json.loads needs one whole object.
Decode(line) ==
    IF \E e \in Events : line \in {Row(e), Front(Row(e))}
    THEN line[1].event ELSE Malformed

Init ==
    /\ state = [w \in Workers |-> "serving"]
    /\ event = [w \in Workers |-> None]
    /\ written = [w \in Workers |-> 0]
    /\ lock = None
    /\ file = <<>>
    /\ result = [e \in Events |-> "none"]
    /\ reader = "idle"
    /\ pos = 0
    /\ promised = {}
    /\ report = [rows |-> <<>>, malformed |-> 0, raised |-> FALSE]
-----------------------------------------------------------------------------
\* emit reaches the file: mkdir, open in append mode.  The path may fail.
Open(w, e) ==
    /\ state[w] = "serving" /\ result[e] = "none"
    /\ state' = [state EXCEPT ![w] = "opened"]
    /\ event' = [event EXCEPT ![w] = e]
    /\ result' = [result EXCEPT ![e] = "open"]
    /\ UNCHANGED <<written, lock, file, readers>>

OpenFails(w, e) ==
    /\ state[w] = "serving" /\ result[e] = "none"
    /\ result' = [result EXCEPT ![e] = "failed"]
    /\ UNCHANGED <<state, event, written, lock, file, readers>>

\* mutant: no flock.
LockIgnored(w) ==
    /\ state[w] = "opened"
    /\ lock' = w
    /\ state' = [state EXCEPT ![w] = "writing"]
    /\ UNCHANGED <<event, written, file, result, readers>>

\* fcntl.flock blocks the worker until nobody holds the lock.
Lock(w) ==
    /\ state[w] = "opened" /\ lock = None
    /\ lock' = w
    /\ state' = [state EXCEPT ![w] = "writing"]
    /\ UNCHANGED <<event, written, file, result, readers>>

\* Units of w's row reach the file up to the k-th.
WriteUpTo(w, k) == file' = file \o SubSeq(Row(event[w]), written[w] + 1, k)

\* How far a row gets that does not end well: one that cannot be encoded
\* misses a part of its object, any other may lack as little as its newline.
Reach(e) == IF e \in Encodable THEN Length[e] - 1 ELSE Length[e] - 2

\* A row that outgrows the buffer reaches the file in several write calls,
\* each of whole characters.
Flush(w) ==
    /\ state[w] = "writing" /\ Length[event[w]] > Buffer
    /\ \E k \in written[w] + 1 .. Reach(event[w]) :
         /\ Row(event[w])[k] \notin MidCharacter
         /\ WriteUpTo(w, k)
         /\ written' = [written EXCEPT ![w] = k]
    /\ UNCHANGED <<state, event, lock, result, readers>>

\* Leaving the with block closes the file, which releases the lock.
Leave(w, next, how) ==
    /\ state' = [state EXCEPT ![w] = next]
    /\ event' = [event EXCEPT ![w] = None]
    /\ written' = [written EXCEPT ![w] = 0]
    /\ lock' = IF lock = w THEN None ELSE lock
    /\ result' = [result EXCEPT ![event[w]] = how]

\* mutant: the newline is not written.
CloseUnterminated(w) ==
    /\ state[w] = "writing" /\ event[w] \in Encodable
    /\ WriteUpTo(w, Length[event[w]] - 1)
    /\ Leave(w, "serving", "returned")
    /\ UNCHANGED readers

\* The rest of the row reaches the file when it is closed.
Close(w) ==
    /\ state[w] = "writing" /\ event[w] \in Encodable
    /\ WriteUpTo(w, Length[event[w]])
    /\ Leave(w, "serving", "returned")
    /\ UNCHANGED readers

\* mutant: the file is left open on the way out of an exception.
AppendFailsHoldingLock(w) ==
    /\ state[w] = "writing"
    /\ \E k \in written[w] .. Reach(event[w]) : WriteUpTo(w, k)
    /\ state' = [state EXCEPT ![w] = "serving"]
    /\ event' = [event EXCEPT ![w] = None]
    /\ written' = [written EXCEPT ![w] = 0]
    /\ result' = [result EXCEPT ![event[w]] = "failed"]
    /\ UNCHANGED <<lock, readers>>

\* json.dump or a write raises: what is buffered is flushed as far as it
\* goes, which on a full disk may be into the middle of a character, the
\* file is closed, the exception goes on.
AppendFails(w) ==
    /\ state[w] = "writing"
    /\ \E k \in written[w] .. Reach(event[w]) : WriteUpTo(w, k)
    /\ Leave(w, "serving", "failed")
    /\ UNCHANGED readers

\* The process is killed: its buffer is gone, the kernel closes its files.
Kill(w) ==
    /\ state[w] # "down"
    /\ IF state[w] = "serving"
       THEN /\ state' = [state EXCEPT ![w] = "down"]
            /\ UNCHANGED <<event, written, lock, result>>
       ELSE Leave(w, "down", "killed")
    /\ UNCHANGED <<file, readers>>

\* The supervisor starts another worker: nothing in it but the file's path.
Restart(w) ==
    /\ state[w] = "down"
    /\ state' = [state EXCEPT ![w] = "serving"]
    /\ UNCHANGED <<event, written, lock, file, result, readers>>
-----------------------------------------------------------------------------
\* load_jsonl_telemetry opens the file, without the lock.
StartReport ==
    /\ reader = "idle"
    /\ reader' = "reading"
    /\ pos' = 0
    /\ promised' = {e \in Events : result[e] = "returned"}
    /\ UNCHANGED <<writers, report>>

\* A read call returns some of what is there.
Read ==
    /\ reader = "reading"
    /\ \E n \in pos + 1 .. Len(file) : pos' = n
    /\ UNCHANGED <<writers, reader, promised, report>>

\* A character that is not followed by the rest of its bytes: the text layer
\* raises UnicodeDecodeError, on the end of the file too.
Undecodable(f) ==
    \E i \in DOMAIN f : /\ f[i] \in MidCharacter
                        /\ i = Len(f) \/ f[i + 1] # [f[i] EXCEPT !.unit = @ + 1]

\* mutant: the first line that cannot be decoded ends the loop.
LoadUntilMalformed(f) ==
    LET decoded == [n \in DOMAIN Lines(f) |-> Decode(Lines(f)[n])]
        bad == {n \in DOMAIN decoded : decoded[n] \notin Reportable}
        rows == {n \in DOMAIN decoded : \A m \in bad : n < m}
    IN  [rows |-> SubSeq(decoded, 1, Cardinality(rows)), malformed |-> Cardinality(bad),
         raised |-> Undecodable(f)]

\* The rows that decode and normalise, in file order, and how many do not;
\* nothing catches what the text layer raises.
Load(f) ==
    LET decoded == [n \in DOMAIN Lines(f) |-> Decode(Lines(f)[n])]
        kept == Listed({n \in DOMAIN decoded : decoded[n] \in Reportable})
    IN  IF Undecodable(f)
        THEN [rows |-> <<>>, malformed |-> 0, raised |-> TRUE]
        ELSE [rows |-> [n \in DOMAIN kept |-> decoded[kept[n]]],
              malformed |-> Len(decoded) - Len(kept), raised |-> FALSE]

\* A read call returns nothing: the end of the file, as of now.
EndOfFile ==
    /\ reader = "reading" /\ pos = Len(file)
    /\ reader' = "idle"
    /\ report' = Load(file)
    /\ UNCHANGED <<writers, pos, promised>>
-----------------------------------------------------------------------------
Proceed(w) == Lock(w) \/ Flush(w) \/ Close(w) \/ AppendFails(w)

Next ==
    \/ \E w \in Workers : \/ \E e \in Events : Open(w, e) \/ OpenFails(w, e)
                          \/ Proceed(w)
                          \/ Kill(w)
                          \/ Restart(w)
    \/ StartReport \/ Read \/ EndOfFile

\* A worker in the middle of an append is scheduled until it is over, and
\* the kernel does not pass over a waiter for ever.
Fairness == \A w \in Workers : SF_vars(Lock(w)) /\ WF_vars(Close(w) \/ AppendFails(w))

Spec == Init /\ [][Next]_vars
FairSpec == Spec /\ Fairness
-----------------------------------------------------------------------------
\* telemetry.py: "so concurrent uvicorn workers cannot interleave partial JSON
\* lines".  A unit follows its predecessor in the same row or begins a row,
\* whatever fails and whoever is killed.
NoInterleaving ==
    \A i \in DOMAIN file : file[i].unit > 1 =>
        i > 1 /\ file[i - 1] = [event |-> file[i].event, unit |-> file[i].unit - 1]

Readable == {Decode(Lines(file)[n]) : n \in DOMAIN Lines(file)} \ {Malformed}

\* An append that failed or died after some of its bytes reached the file.
Fragments == {e \in Events : /\ result[e] \in {"failed", "killed"}
                             /\ \E i \in DOMAIN file : file[i].event = e}

\* Each fragment costs at most one row whose emit had returned: the next one.
FragmentCostsOneRow ==
    Cardinality({e \in Events : result[e] = "returned" /\ e \notin Readable})
        <= Cardinality(Fragments)

\* A report that is made at all misses no row that was there when it began,
\* except those that a fragment has swallowed; it runs beside the writers
\* without the lock.
ReportComplete ==
    reader = "idle" /\ ~report.raised => \A e \in promised \cap Reportable \cap Readable :
                            e \in Range(report.rows)

\* make_report.py: "A row counts as malformed if JSON parsing fails or
\* normalization fails".  Damage costs rows, never the report.
ReportReturns == ~report.raised

\* An emit that has opened the file does not wait for ever: no failure and no
\* kill of another worker leaves the lock behind.
AppendsEnd == \A w \in Workers : (state[w] \in {"opened", "writing"}) ~> (event[w] = None)

\* The file without what the lock holder has written so far.
Settled == IF lock = None THEN file ELSE SubSeq(file, 1, Len(file) - written[lock])
TrailsFragment == Settled # <<>> /\ ~IsNewline(Last(Settled))
SettledLines == IF TrailsFragment THEN Front(Lines(Settled)) ELSE Lines(Settled)

\* Seen from outside the lock, an append is one step of AtomicLog, whatever
\* its write calls were: the gateway may treat emit as one step.
Atomic == INSTANCE AtomicLog WITH
    OptInTokens <- <<>>,   \* the file does not look at attribute names
    file <- [lines |-> [n \in DOMAIN SettledLines |-> Decode(SettledLines[n])],
             torn |-> TrailsFragment],
    emitted <- {e \in Events : result[e] \in {"returned", "failed", "killed"}}

AppendsAtomic == Atomic!Spec
=============================================================================
