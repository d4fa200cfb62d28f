--------------------------- MODULE MCTelemetryLog ---------------------------
(***************************************************************************)
(* Two workers and three events: a short row that is written in one call,  *)
(* a long one that takes several, and a long one that cannot be encoded.   *)
(***************************************************************************)
EXTENDS TelemetryLog

CONSTANTS w1, w2, short, long, broken

TwoWorkers == {w1, w2}

ThreeEvents == {short, long, broken}
Lengths == [e \in ThreeEvents |-> IF e = short THEN 2 ELSE 3]
EncodableEvents == {short, long}

\* The long row has a character of several bytes across its first two units.
SplitCharacter == {[event |-> long, unit |-> 1]}

\* The metadata of the long row has overwritten a field the report needs.
ReportableEvents == {short, broken}
=============================================================================
