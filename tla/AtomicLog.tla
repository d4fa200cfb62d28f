------------------------------ MODULE AtomicLog ------------------------------
(***************************************************************************)
(* What the gateway takes the telemetry file for: emitting an event is one *)
(* step, which adds the event's line, leaves a fragment behind, or does    *)
(* nothing; and an event is emitted once.  Module Gateway composes the     *)
(* same AppendEvent into its actions.                                      *)
(***************************************************************************)
EXTENDS Telemetry

CONSTANT Events

VARIABLES
    file,     \* as in Telemetry: complete lines, and whether a fragment trails
    emitted   \* the events whose append is over

Init == file = EmptyFile /\ emitted = {}

Emit(e, w) ==
    /\ e \notin emitted
    /\ file' = AppendEvent(file, e, w)
    /\ emitted' = emitted \cup {e}

Next == \E e \in Events, w \in {"complete", "torn", "unopened"} : Emit(e, w)

Spec == Init /\ [][Next]_<<file, emitted>>
=============================================================================
