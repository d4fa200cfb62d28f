----------------------------- MODULE MCLifecycle -----------------------------
(***************************************************************************)
(* Three requests, three lifespans of a process, a queue of one span.      *)
(***************************************************************************)
EXTENDS Lifecycle

CONSTANTS r1, r2, r3

ThreeRequests == {r1, r2, r3}
NoFaults == {}
AnyExporter == Signals
=============================================================================
